----------------------------- MODULE MachineProofs ----------------------------
(***************************************************************************)
(* The safety properties of the machine as functions: what an instruction  *)
(* computes and refers to, what an address of the I/O page means and what  *)
(* a snapshot keeps, for every size of a word, and every choice of pages,  *)
(* places and devices.                                                     *)
(*                                                                         *)
(* First Mmu: its properties are inductive together with the types of the  *)
(* page registers and of MMR0: that a fault sets an error bit at all (so   *)
(* that it locks MMR0) depends on the access mode being one of the eight.  *)
(* Then what the lock is for: MMR1 and MMR2 restart the instruction whose  *)
(* fault set it (OperandRestart).                                          *)
(*                                                                         *)
(* Then MachineChecks.  Its properties hold of every answer, so that the   *)
(* work is in the lemmas: one for each instruction, on the remainders that *)
(* words are of numbers, on their bits or on powers of two; one for each   *)
(* addressing mode; one for each table of instructions, that says which    *)
(* codes have a name; one for each table of the I/O page, that says which  *)
(* names it has for an address; and one for each device, that says that it *)
(* comes back as it was saved.                                             *)
(***************************************************************************)
EXTENDS Mmu, OperandRestart, MachineChecks,
        SequenceTheorems, FiniteSetTheorems, FunctionTheorems, WellFoundedInduction, TLAPS

\* The types without the history variable breach, which nothing reads.
StateTypes ==
  /\ pages \in [Index -> Pages]
  /\ MMR0 \in Mmr0
  /\ MMR3 \subseteq RunModes
  /\ written \subseteq Index

IInv == StateTypes /\ FirstFaultKept /\ WrittenIsMarked

\* The page a reference is checked against exists.
LEMMA PageExists ==
  ASSUME NEW rm \in RunModes, NEW s \in Spaces, NEW apf \in Apfs
  PROVE  PageOf(rm, s, apf) \in Index /\ PageOf(rm, s, apf)[3] \in Apfs
  BY ModesAssumption DEF PageOf, UsedSpace, Index, Spaces

\* What reset and power-on leave has the right types.
LEMMA ClearedTypes == Cleared \in Pages /\ Mmr0Cleared \in Mmr0
  BY ModesAssumption, FieldsAssumption
     DEF Cleared, Pages, Regions, Mmr0Cleared, Mmr0, Spaces

\* Recording a fault keeps everything, provided that it has an error bit.
LEMMA RecordKeeps ==
  ASSUME IInv, NEW errors \in SUBSET Errors, errors # {},
         NEW mode \in RunModes, NEW space \in Spaces,
         NEW i \in Index, i[3] \in Apfs, Record(errors, mode, space, i)
  PROVE  IInv'
  <1>1. StateTypes'
    BY DEF IInv, StateTypes, Record, Mmr0
  <1>2. WrittenIsMarked'
    BY DEF IInv, WrittenIsMarked, Record
  <1>3. FirstFaultKept'
    <2>1. CASE is_locked
      BY <2>1 DEF IInv, FirstFaultKept, Record, is_locked
    <2>2. CASE ~is_locked
      BY <2>2 DEF IInv, StateTypes, Mmr0, FirstFaultKept, Record, is_locked
    <2> QED BY <2>1, <2>2
  <1> QED BY <1>1, <1>2, <1>3 DEF IInv

\* A refused reference records one of the three errors.
LEMMA RefusedKeeps ==
  ASSUME IInv, NEW rm \in RunModes, NEW s \in Spaces, NEW apf \in Apfs, NEW b \in Blocks,
         \/ AccessRefused(rm, s, apf)
         \/ LengthRefused(rm, s, apf, b)
         \/ BoundsRefused(rm, s, apf, b)
  PROVE  IInv'
  <1> DEFINE i == PageOf(rm, s, apf)
  <1>0. i \in Index /\ i[3] \in Apfs /\ i[1] \in RunModes /\ i[2] \in Spaces
    BY PageExists DEF Index
  <1>1. CASE AccessRefused(rm, s, apf)
    <2> DEFINE ac == pages[i].ac
               errors == (IF ac \in {1, 2} THEN {"readonly"} ELSE {})
                         \cup (IF ac \in {0, 3, 4, 7} THEN {"nonresident"} ELSE {})
    <2>1. ac \in 0..7
      BY <1>0 DEF IInv, StateTypes, Pages
    <2>2. ac \notin {2, 5, 6}
      BY <1>1 DEF AccessRefused, get_trap_action
    <2>3. errors \in SUBSET Errors /\ errors # {}
      BY <2>1, <2>2 DEF Errors
    <2>4. Record(errors, 0, "i", i)
      BY <1>1 DEF AccessRefused
    <2> QED BY <1>0, <2>3, <2>4, RecordKeeps, ModesAssumption DEF Spaces
  <1>2. CASE LengthRefused(rm, s, apf, b)
    BY <1>0, <1>2, RecordKeeps DEF LengthRefused, Errors
  <1>3. CASE BoundsRefused(rm, s, apf, b)
    <2>1. MMR0.space \in Spaces
      BY DEF IInv, StateTypes, Mmr0
    <2> QED BY <1>0, <1>3, <2>1, RecordKeeps DEF BoundsRefused, Errors
  <1> QED BY <1>1, <1>2, <1>3

\* A page that was marked stays so, and a page that is written is marked.
LEMMA MarkKeeps ==
  ASSUME IInv, NEW i \in Index, NEW w \in BOOLEAN,
         pages' = [pages EXCEPT ![i] = Mark(@, w)],
         written' = IF w THEN written \cup {i} ELSE written
  PROVE  pages' \in [Index -> Pages] /\ written' \subseteq Index /\ WrittenIsMarked'
  <1>1. Mark(pages[i], w) \in Pages
    BY DEF IInv, StateTypes, Mark, Pages
  <1>2. pages' \in [Index -> Pages] /\ written' \subseteq Index
    BY <1>1 DEF IInv, StateTypes
  <1>3. ASSUME NEW j \in written' PROVE pages'[j].marks = {"A", "W"}
    <2>0. pages[i] \in Pages /\ j \in Index
      BY <1>2 DEF IInv, StateTypes
    <2>1. CASE j # i
      BY <1>3, <2>0, <2>1 DEF IInv, StateTypes, WrittenIsMarked
    <2>2. CASE j = i /\ w
      <3>1. Mark(pages[i], w).marks = pages[i].marks \cup {"A", "W"}
        BY <2>0, <2>2 DEF Mark, Pages
      <3> QED BY <2>0, <2>2, <3>1 DEF Pages, IInv, StateTypes
    <2>3. CASE j = i /\ ~w
      <3>1. Mark(pages[i], w).marks = pages[i].marks \cup {"A"}
        BY <2>0, <2>3 DEF Mark, Pages
      <3>2. pages[i].marks = {"A", "W"}
        BY <1>3, <2>3 DEF IInv, WrittenIsMarked
      <3> QED BY <2>0, <2>3, <3>1, <3>2 DEF IInv, StateTypes
    <2> QED BY <2>1, <2>2, <2>3
  <1> QED BY <1>2, <1>3 DEF WrittenIsMarked

\* References that are carried out, and the odd ones that are given up.
LEMMA ReferenceKeeps ==
  ASSUME IInv, NEW rm \in RunModes, NEW s \in Spaces, NEW apf \in Apfs, NEW b \in Blocks,
         NEW w \in BOOLEAN,
         \/ IoReference(rm, s, apf, b, w)
         \/ Reference(rm, s, apf, b, w)
         \/ OddReference(rm, s, apf, b, w)
  PROVE  IInv'
  <1> DEFINE i == PageOf(rm, s, apf)
  <1>0. i \in Index
    BY PageExists
  <1>1. CASE IoReference(rm, s, apf, b, w)
    BY <1>1 DEF IoReference, IInv, StateTypes, FirstFaultKept, WrittenIsMarked, is_locked
  <1>2. CASE Reference(rm, s, apf, b, w)
    <2>1. pages' \in [Index -> Pages] /\ written' \subseteq Index /\ WrittenIsMarked'
      BY <1>0, <1>2, MarkKeeps DEF Reference
    <2> QED BY <1>2, <2>1 DEF Reference, IInv, StateTypes, FirstFaultKept, is_locked
  <1>3. CASE OddReference(rm, s, apf, b, w)
    <2>1. pages' = [pages EXCEPT ![i] = Mark(@, w)] /\ written' = written
      BY <1>3 DEF OddReference
    <2>2. pages' \in [Index -> Pages] /\ written' \subseteq Index /\ WrittenIsMarked'
      <3>1. Mark(pages[i], w) \in Pages
        BY <1>0 DEF IInv, StateTypes, Mark, Pages
      <3>2. pages' \in [Index -> Pages] /\ written' \subseteq Index
        BY <1>0, <2>1, <3>1 DEF IInv, StateTypes
      <3>3. WrittenIsMarked'
        BY <1>0, <2>1 DEF IInv, StateTypes, WrittenIsMarked, Mark
      <3> QED BY <3>2, <3>3
    <2> QED BY <1>3, <2>2 DEF OddReference, IInv, StateTypes, FirstFaultKept, Mmr0
  <1> QED BY <1>1, <1>2, <1>3

\* A store into a page register clears the marks and the history of the page.
LEMMA RegisterKeeps ==
  ASSUME IInv, NEW i \in Index,
         \/ \E d \in Descriptors : write_pdr(i, d)
         \/ \E region \in Regions : write_par(i, region)
  PROVE  IInv'
  <1>1. ASSUME NEW d \in Descriptors, write_pdr(i, d) PROVE IInv'
    <2>1. d.ac \in 0..7 /\ d.len \in 0..127 /\ d.dir \in {"up", "down"}
      BY FieldsAssumption
    <2>2. [pages[i] EXCEPT !.ac = d.ac, !.len = d.len, !.dir = d.dir, !.marks = {}] \in Pages
      <3>1. pages[i] \in Pages /\ {} \in SUBSET {"A", "W"}
        BY DEF IInv, StateTypes
      <3>2. [pages[i] EXCEPT !.ac = d.ac] \in Pages
        BY <2>1, <3>1 DEF Pages
      <3>3. [[pages[i] EXCEPT !.ac = d.ac] EXCEPT !.len = d.len] \in Pages
        BY <2>1, <3>2 DEF Pages
      <3>4. [[[pages[i] EXCEPT !.ac = d.ac] EXCEPT !.len = d.len] EXCEPT !.dir = d.dir] \in Pages
        BY <2>1, <3>3 DEF Pages
      <3> QED BY <3>1, <3>4 DEF Pages
    <2>3. pages' \in [Index -> Pages] /\ written' \subseteq Index
      BY <1>1, <2>2 DEF write_pdr, IInv, StateTypes
    <2>4. WrittenIsMarked'
      BY <1>1 DEF write_pdr, IInv, StateTypes, WrittenIsMarked
    <2> QED BY <1>1, <2>3, <2>4 DEF write_pdr, IInv, StateTypes, FirstFaultKept, is_locked
  <1>2. ASSUME NEW region \in Regions, write_par(i, region) PROVE IInv'
    <2>0. [pages[i] EXCEPT !.par = region, !.marks = {}] \in Pages
      <3>1. pages[i] \in Pages /\ {} \in SUBSET {"A", "W"}
        BY DEF IInv, StateTypes
      <3>2. [pages[i] EXCEPT !.par = region] \in Pages
        BY <3>1 DEF Pages
      <3> QED BY <3>1, <3>2 DEF Pages
    <2>1. pages' \in [Index -> Pages] /\ written' \subseteq Index
      BY <1>2, <2>0 DEF write_par, IInv, StateTypes
    <2>2. WrittenIsMarked'
      BY <1>2 DEF write_par, IInv, StateTypes, WrittenIsMarked
    <2> QED BY <1>2, <2>1, <2>2 DEF write_par, IInv, StateTypes, FirstFaultKept, is_locked
  <1> QED BY <1>1, <1>2

\* Stores into MMR0 and MMR3, and a reset, forget the first fault.
LEMMA ControlKeeps ==
  ASSUME IInv,
         \/ \E value \in Mmr0Values : setMMR0(value)
         \/ \E modes \in SUBSET RunModes : setMMR3(modes)
         \/ \E hard \in BOOLEAN : reset(hard)
  PROVE  IInv'
  <1>1. ASSUME NEW value \in Mmr0Values, setMMR0(value) PROVE IInv'
    BY <1>1, FieldsAssumption
       DEF setMMR0, IInv, StateTypes, Mmr0, FirstFaultKept, WrittenIsMarked
  <1>2. ASSUME NEW modes \in SUBSET RunModes, setMMR3(modes) PROVE IInv'
    BY <1>2 DEF setMMR3, IInv, StateTypes, FirstFaultKept, WrittenIsMarked, is_locked
  <1>3. ASSUME NEW hard \in BOOLEAN, reset(hard) PROVE IInv'
    BY <1>3, ClearedTypes DEF reset, IInv, StateTypes, FirstFaultKept, WrittenIsMarked
  <1> QED BY <1>1, <1>2, <1>3

\* IInv is an inductive invariant of the memory management unit.
THEOREM MmuInductive == Spec => []IInv
  <1>1. Init => IInv
    BY ClearedTypes DEF Init, IInv, StateTypes, FirstFaultKept, WrittenIsMarked
  <1>2. IInv /\ [Next]_vars => IInv'
    <2> SUFFICES ASSUME IInv, [Next]_vars PROVE IInv'
      OBVIOUS
    <2>1. CASE Refer
      BY <2>1, RefusedKeeps, ReferenceKeeps DEF Refer
    <2>2. ASSUME NEW i \in Mappable,
                 \/ \E d \in Descriptors : write_pdr(i, d)
                 \/ \E region \in Regions : write_par(i, region)
          PROVE  IInv'
      BY <2>2, RegisterKeeps DEF Mappable, Mapped
    <2>3. CASE \/ \E value \in Mmr0Values : setMMR0(value)
               \/ \E modes \in SUBSET RunModes : setMMR3(modes)
               \/ \E hard \in BOOLEAN : reset(hard)
      BY <2>3, ControlKeeps
    <2>4. CASE UNCHANGED vars
      BY <2>4 DEF vars, IInv, StateTypes, FirstFaultKept, WrittenIsMarked, is_locked
    <2> QED BY <2>1, <2>2, <2>3, <2>4 DEF Next
  <1> QED BY <1>1, <1>2, PTL DEF Spec

\* MMR0 describes the first fault until the program writes it or makes an odd
\* reference, however many references fault after it (mmu.cpp:345, 385 and
\* bus.cpp:549), for every set of pages.
THEOREM FirstFaultIsKept == Spec => []FirstFaultKept
  BY MmuInductive, PTL DEF IInv

\* No page is written through without its W bit being set (bus.cpp:869,
\* mmu.h:99-100), for every set of pages, descriptors and blocks.
THEOREM WritesAreMarked == Spec => []WrittenIsMarked
  BY MmuInductive, PTL DEF IInv

\* The registers and the page tables keep their types, and so does the history.
THEOREM MmuTypeCorrect == Spec => []TypeOK
  <1> DEFINE Told == breach \in BOOLEAN
  <1>1. Init => Told
    BY DEF Init
  <1>2. ASSUME Told, [Next]_vars  PROVE Told'
    <2>1. ASSUME NEW i, NEW w, breach' = Breaches(i, w)  PROVE Told'
      BY Zenon, <2>1 DEF Breaches
    <2>2. CASE Refer
      <3>1. PICK rm \in RunModes, s \in Spaces, apf \in Apfs, b \in Blocks, w \in BOOLEAN :
              \/ AccessRefused(rm, s, apf) \/ LengthRefused(rm, s, apf, b)
              \/ BoundsRefused(rm, s, apf, b) \/ IoReference(rm, s, apf, b, w)
              \/ Reference(rm, s, apf, b, w) \/ OddReference(rm, s, apf, b, w)
        BY <2>2 DEF Refer
      <3>2. breach' = Breaches(PageOf(rm, s, apf), w) \/ UNCHANGED breach
        BY <3>1, Zenon DEF Record, AccessRefused, LengthRefused, BoundsRefused, IoReference,
                           Reference, OddReference
      <3> QED  BY <1>2, <2>1, <3>2
    <2>3. CASE ~Refer
      <3>1. UNCHANGED breach
        BY <1>2, <2>3 DEF Next, write_pdr, write_par, setMMR0, setMMR3, reset, vars
      <3> QED  BY <1>2, <3>1
    <2> QED  BY <2>2, <2>3
  <1>3. Told /\ [Next]_vars => Told'
    BY <1>2
  <1>4. IInv /\ Told => TypeOK
    BY DEF IInv, StateTypes, TypeOK
  <1> QED  BY <1>1, <1>3, <1>4, MmuInductive, PTL DEF Spec

-----------------------------------------------------------------------------
(***************************************************************************)
(* MMR1 and MMR2: the restart of an instruction, as module OperandRestart  *)
(* has it.  Before the fault that sets the lock, MMR1 holds the moves of   *)
(* the instruction; it has room for two, and the stage of the instruction  *)
(* bounds how many there can be.                                           *)
(***************************************************************************)
\* How many moves an unlocked instruction can have recorded in a stage.
Recorded ==
  CASE stage \in {"fetch", "src"} -> 0
    [] stage \in {"src_pointer", "src_value"} -> 1
    [] stage = "dst" -> IF kind \in TwoOperands THEN 1 ELSE 0
    [] OTHER -> 2

Moves == [reg : Regs, delta : Int]

\* The types of what undoing the moves depends on.
RestartTypes ==
  /\ stage \in Stages /\ kind \in Kinds /\ locked \in BOOLEAN
  /\ moved \in [Regs -> Int]
  /\ MMR1 \in Seq(Moves)
  /\ stage = "idle" => moved = NoMoves
  /\ stage \in {"src", "src_pointer", "src_value"} => kind \in TwoOperands
  /\ stage \in {"pop", "push", "record"} => kind \in StackKinds

\* Until it faults, the recorded moves of an instruction are its moves.
MovesAreRecorded ==
  ~locked /\ stage \notin {"idle", "done", "aborted"} /\ kind \notin StackKinds =>
    /\ MMR2 = pc
    /\ Len(MMR1) <= Recorded
    /\ \A r \in Regs : moved[r] = Undone(MMR1, r)

\* The inductive invariant of the restart.
RInv == RestartTypes /\ MovesAreRecorded /\ Restartable

\* A recorded move is one more to undo, as long as there is room for it.
LEMMA RecordMoves ==
  ASSUME RestartTypes, NEW r \in Regs, NEW d \in Int
  PROVE  /\ add_to_MMR1(r, d) \in Seq(Moves)
         /\ ~locked /\ Len(MMR1) <= 1 =>
              /\ Len(add_to_MMR1(r, d)) = Len(MMR1) + 1
              /\ \A q \in Regs :
                   Undone(add_to_MMR1(r, d), q) = Undone(MMR1, q) + (IF q = r THEN d ELSE 0)
<1> DEFINE e == [reg |-> r, delta |-> d]
           b == <<e>> \o MMR1
           n == IF MMR1 = <<>> THEN 1 ELSE 2
           m == SubSeq(b, 1, n)
<1>1. e \in Moves /\ e.reg = r /\ e.delta = d
  BY DEF Moves
<1>2. MMR1 \in Seq(Moves) /\ Len(MMR1) \in Nat /\ (MMR1 = <<>> <=> Len(MMR1) = 0)
  BY LenProperties, EmptySeq DEF RestartTypes
<1>3. <<e>> \in Seq(Moves) /\ Len(<<e>>) = 1 /\ <<e>>[1] = e
  BY <1>1
<1>4. /\ b \in Seq(Moves) /\ Len(b) = Len(MMR1) + 1 /\ b[1] = e
      /\ Len(MMR1) > 0 => b[2] = MMR1[1]
  <2> HIDE DEF e
  <2>1. b \in Seq(Moves) /\ Len(b) = Len(<<e>>) + Len(MMR1)
        /\ \A i \in 1..(Len(<<e>>) + Len(MMR1)) :
             b[i] = IF i <= Len(<<e>>) THEN <<e>>[i] ELSE MMR1[i - Len(<<e>>)]
    BY <1>2, <1>3, ConcatProperties
  <2> QED BY <1>2, <1>3, <2>1
<1>5. m \in Seq(Moves) /\ Len(m) = n /\ \A i \in 1..n : m[i] = b[i]
  <2>1. \A i \in 1..n : b[i] \in Moves
    BY <1>2, <1>4, ElementOfSeq
  <2> HIDE DEF b
  <2> QED BY <1>2, <1>4, <2>1, SubSeqProperties
<1>6. add_to_MMR1(r, d) = IF locked THEN MMR1 ELSE m
  BY DEF add_to_MMR1
<1>7. ASSUME Len(MMR1) <= 1, NEW q \in Regs
      PROVE  Undone(m, q) = Undone(MMR1, q) + (IF q = r THEN d ELSE 0)
  <2>1. m[1].reg = r /\ m[1].delta = d
    BY <1>1, <1>4, <1>5
  <2>2. CASE Len(MMR1) = 0
    <3>1. Undone(MMR1, q) = 0
      BY <2>2 DEF Undone
    <3>2. Len(m) = 1
      BY <1>2, <1>5, <2>2
    <3> HIDE DEF m
    <3> QED BY <2>1, <3>1, <3>2 DEF Undone
  <2>3. CASE Len(MMR1) = 1
    <3>1. Len(m) = 2 /\ m[2] = MMR1[1]
      BY <1>2, <1>4, <1>5, <2>3
    <3>2. MMR1[1].delta \in Int
      <4>1. MMR1[1] \in Moves
        BY <1>2, <2>3, ElementOfSeq
      <4> QED BY <4>1 DEF Moves
    <3> HIDE DEF m
    <3> QED BY <2>1, <2>3, <3>1, <3>2 DEF Undone
  <2> QED BY <1>2, <1>7, <2>2, <2>3
<1>8. add_to_MMR1(r, d) \in Seq(Moves)
  BY <1>2, <1>5, <1>6
<1>9. ASSUME ~locked, Len(MMR1) <= 1
      PROVE  add_to_MMR1(r, d) = m /\ Len(m) = Len(MMR1) + 1
  BY <1>2, <1>5, <1>6, <1>9
<1> HIDE DEF m
<1> QED BY <1>7, <1>8, <1>9

\* The stages after a value.
LEMMA NextStages ==
  ASSUME RestartTypes
  PROVE  /\ ValueStage("src") = "src_value" /\ After("src") = "dst"
         /\ ValueStage("dst") \in {"dst_value", "done", "write", "push"}
         /\ After("dst") \in {"done", "write", "push"}
         /\ (ValueStage("dst") = "push" \/ After("dst") = "push") => kind \in StackKinds
BY DEF RestartTypes, ValueStage, After, AfterSource, AfterDestination, ReadsValue,
       Kinds, TwoOperands, StackKinds

\* How far a register moves, and that only this one does.
LEMMA DeltaIsInt ==
  ASSUME NEW m \in 2..5, NEW r \in Regs
  PROVE  GamDelta(m, r) \in Int
BY DEF GamDelta, ByteDelta

LEMMA MovedBy ==
  ASSUME RestartTypes, NEW r \in Regs, NEW d \in Int
  PROVE  /\ Move(r, d) \in [Regs -> Int]
         /\ \A q \in Regs : Move(r, d)[q] = moved[q] + (IF q = r THEN d ELSE 0)
<1>1. Move(r, d) = [moved EXCEPT ![r] = moved[r] + d]
  BY DEF Move
<1> QED BY <1>1 DEF RestartTypes

\* A step that moves nothing goes to a later stage of the instruction.
LEMMA QuietStep ==
  ASSUME RInv, UNCHANGED <<instr, moved, MMR1, MMR2, locked, fault>>,
         stage \notin {"idle", "done", "aborted"},
         stage' \in Stages, stage' # "idle",
         stage' \in {"src", "src_pointer", "src_value"} => kind \in TwoOperands,
         stage' \in {"pop", "push", "record"} => kind \in StackKinds,
         stage' \notin {"done", "aborted"} /\ kind \notin StackKinds => Recorded <= Recorded'
  PROVE  RInv'
<1> HIDE DEF Recorded
<1>1. RestartTypes'
  BY DEF RInv, RestartTypes, instr
<1>2. MovesAreRecorded'
  <2> SUFFICES ASSUME ~locked', stage' \notin {"idle", "done", "aborted"}, kind' \notin StackKinds
               PROVE  /\ MMR2' = pc'
                      /\ Len(MMR1') <= Recorded'
                      /\ \A r \in Regs : moved'[r] = Undone(MMR1', r)
    BY DEF MovesAreRecorded
  <2>1. MMR2 = pc /\ Len(MMR1) <= Recorded /\ \A r \in Regs : moved[r] = Undone(MMR1, r)
    BY DEF RInv, MovesAreRecorded, instr
  <2>2. Len(MMR1) \in Int /\ Recorded \in Int /\ Recorded' \in Int
    BY LenProperties DEF RInv, RestartTypes, Recorded
  <2> QED BY <2>1, <2>2 DEF instr
<1>3. Restartable'
  BY DEF RInv, Restartable, instr
<1> QED BY <1>1, <1>2, <1>3 DEF RInv

\* A start that is not locked empties MMR1 and sets MMR2.
LEMMA StartStep ==
  ASSUME RInv, NEW a \in Addresses, NEW k \in Kinds, NEW b \in BOOLEAN, Start(a, k, b)
  PROVE  RInv'
<1>1. /\ stage = "idle" /\ stage' = "fetch" /\ kind' = k /\ pc' = a
      /\ UNCHANGED <<moved, locked, fault>> /\ moved = NoMoves
      /\ locked => UNCHANGED <<MMR1, MMR2>>
      /\ ~locked => MMR1' = <<>> /\ MMR2' = a
  BY DEF Start, MMRStartInstruction, RInv, RestartTypes
<1>2. <<>> \in Seq(Moves) /\ Len(<<>>) = 0
  OBVIOUS
<1>3. RestartTypes'
  BY <1>1, <1>2 DEF RInv, RestartTypes, Stages
<1>4. MovesAreRecorded'
  <2>1. \A r \in Regs : NoMoves[r] = 0 /\ Undone(<<>>, r) = 0
    BY DEF NoMoves, Undone
  <2> QED BY <1>1, <1>2, <2>1 DEF MovesAreRecorded, Recorded
<1>5. Restartable'
  BY <1>1 DEF RInv, Restartable
<1> QED BY <1>3, <1>4, <1>5 DEF RInv

\* The quiet steps of an instruction.
LEMMA OperandStep ==
  ASSUME RInv,
         \/ Fetch \/ GamRegister \/ (\E m \in {1, 6, 7} : GamPlain(m))
         \/ GamPointer \/ GamValue \/ Write \/ OddAddress
  PROVE  RInv'
<1>1. RestartTypes
  BY DEF RInv
<1>2. CASE Fetch
  BY <1>1, <1>2, QuietStep
     DEF Fetch, Stages, Recorded, Kinds, TwoOperands, StackKinds, RestartTypes
<1>3. CASE GamRegister
  BY <1>1, <1>3, QuietStep
     DEF GamRegister, Stages, Recorded, TwoOperands, StackKinds, RestartTypes
<1>4. ASSUME NEW m \in {1, 6, 7}, GamPlain(m)
      PROVE  RInv'
  BY <1>1, <1>4, QuietStep, NextStages
     DEF GamPlain, Stages, Recorded, TwoOperands, StackKinds, RestartTypes
<1>5. CASE GamPointer
  BY <1>1, <1>5, QuietStep, NextStages
     DEF GamPointer, Stages, Recorded, TwoOperands, StackKinds, RestartTypes
<1>6. CASE GamValue
  <2>1. UNCHANGED <<instr, moved, MMR1, MMR2, locked, fault>>
    BY <1>6 DEF GamValue
  <2>2. CASE stage = "src_value"
    <3>1. stage' = "dst" /\ kind \in TwoOperands /\ kind' = kind
      BY <1>1, <1>6, <2>2, NextStages DEF GamValue, RestartTypes, instr
    <3>2. Recorded = 1 /\ Recorded' = 1
      BY <2>2, <3>1 DEF Recorded
    <3> QED BY <2>1, <2>2, <3>1, <3>2, QuietStep DEF Stages
  <2>3. CASE stage = "dst_value"
    <3>1. stage' \in {"done", "write", "push"} /\ (stage' = "push" => kind \in StackKinds)
      BY <1>1, <1>6, <2>3, NextStages DEF GamValue
    <3>2. Recorded = 2 /\ Recorded' = 2
      BY <2>3, <3>1 DEF Recorded
    <3> QED BY <2>1, <2>3, <3>1, <3>2, QuietStep DEF Stages
  <2> QED BY <1>6, <2>2, <2>3 DEF GamValue
<1>7. CASE Write \/ OddAddress
  BY <1>1, <1>7, QuietStep
     DEF Write, OddAddress, Stages, Recorded, TwoOperands, StackKinds, RestartTypes
<1> QED BY <1>2, <1>3, <1>4, <1>5, <1>6, <1>7

\* A register moves, and the move is recorded.
LEMMA MovesStep ==
  ASSUME RInv, NEW m \in 2..5, NEW r \in Regs, GamMoves(m, r)
  PROVE  RInv'
<1> DEFINE d == GamDelta(m, r)
<1>1. RestartTypes /\ d \in Int
  BY DeltaIsInt DEF RInv
<1> HIDE DEF d
<1>2. /\ stage \in {"src", "dst"} /\ moved' = Move(r, d) /\ MMR1' = add_to_MMR1(r, d)
      /\ UNCHANGED <<instr, MMR2, locked, fault>>
  BY DEF GamMoves, d
<1>3. /\ stage = "src" => stage' \in {"src_pointer", "src_value"}
      /\ stage = "dst" => stage' \in {"dst_pointer", "dst_value", "done", "write", "push"}
      /\ stage' = "push" => kind \in StackKinds
  BY <1>1, <1>2, NextStages DEF GamMoves
<1>4. RestartTypes'
  BY <1>1, <1>2, <1>3, RecordMoves, MovedBy DEF RestartTypes, Stages, instr
<1>5. MovesAreRecorded'
  <2> SUFFICES ASSUME ~locked, stage' \notin {"done"}, kind \notin StackKinds
               PROVE  /\ MMR2' = pc'
                      /\ Len(MMR1') <= Recorded'
                      /\ \A q \in Regs : moved'[q] = Undone(MMR1', q)
    BY <1>2 DEF MovesAreRecorded, instr
  <2>1. MMR2 = pc /\ Len(MMR1) <= Recorded /\ \A q \in Regs : moved[q] = Undone(MMR1, q)
    BY <1>2 DEF RInv, MovesAreRecorded
  <2>2. Recorded \in 0..1 /\ (Recorded' = Recorded + 1 \/ Recorded' = 2)
    BY <1>2, <1>3, <1>1 DEF Recorded, RestartTypes, instr
  <2>3. Len(MMR1) \in Nat
    BY <1>1, LenProperties DEF RestartTypes
  <2>4. /\ Len(MMR1') = Len(MMR1) + 1
        /\ \A q \in Regs : Undone(MMR1', q) = Undone(MMR1, q) + (IF q = r THEN d ELSE 0)
    <3>1. Len(MMR1) <= 1
      BY <2>1, <2>2, <2>3
    <3>2. ~locked /\ Len(MMR1) <= 1 =>
            /\ Len(add_to_MMR1(r, d)) = Len(MMR1) + 1
            /\ \A q \in Regs :
                 Undone(add_to_MMR1(r, d), q) = Undone(MMR1, q) + (IF q = r THEN d ELSE 0)
      BY <1>1, RecordMoves
    <3> QED BY <1>2, <3>1, <3>2
  <2>5. \A q \in Regs : moved'[q] = moved[q] + (IF q = r THEN d ELSE 0)
    BY <1>1, <1>2, MovedBy
  <2>6. Len(MMR1') <= Recorded'
    BY <2>1, <2>2, <2>3, <2>4
  <2> QED BY <1>2, <2>1, <2>4, <2>5, <2>6 DEF instr
<1>6. Restartable'
  BY <1>2 DEF RInv, Restartable, add_to_MMR1
<1> QED BY <1>4, <1>5, <1>6 DEF RInv

\* The stack moves without a record.
LEMMA StackStep ==
  ASSUME SP \in Regs, RInv, Push \/ RecordPush \/ Pop
  PROVE  RInv'
<1>1. RestartTypes /\ SP \in Regs /\ 2 \in Int /\ -2 \in Int
  BY DEF RInv
<1>2. /\ kind \in StackKinds /\ UNCHANGED <<instr, MMR2, locked, fault>>
      /\ stage' \in {"record", "done", "dst"}
      /\ moved' = moved \/ moved' = Move(SP, 2) \/ moved' = Move(SP, -2)
      /\ MMR1' = MMR1 \/ MMR1' = add_to_MMR1(SP, -2)
  BY <1>1 DEF Push, RecordPush, Pop, RestartTypes
<1>3. RestartTypes'
  <2>1. moved' \in [Regs -> Int]
    <3>1. Move(SP, 2) \in [Regs -> Int]
      BY <1>1, MovedBy
    <3>2. Move(SP, -2) \in [Regs -> Int]
      BY <1>1, MovedBy
    <3> QED BY <1>1, <1>2, <3>1, <3>2 DEF RestartTypes
  <2>2. MMR1' \in Seq(Moves)
    BY <1>1, <1>2, RecordMoves DEF RestartTypes
  <2> HIDE <1>2
  <2>3. stage' \in {"record", "done", "dst"} /\ UNCHANGED <<kind, locked>> /\ kind \in StackKinds
    BY <1>2 DEF instr
  <2> QED BY <1>1, <2>1, <2>2, <2>3 DEF RestartTypes, Stages
<1>4. MovesAreRecorded'
  BY <1>2 DEF MovesAreRecorded, instr
<1>5. Restartable'
  BY <1>2 DEF RInv, Restartable, add_to_MMR1
<1> QED BY <1>3, <1>4, <1>5 DEF RInv

\* The fault that sets the lock finds all moves recorded.
LEMMA FaultStep ==
  ASSUME SP \in Regs, RInv, AccessFaults \/ PushFaults
  PROVE  RInv'
<1>1. RestartTypes /\ SP \in Regs /\ -2 \in Int
  BY DEF RInv
<1>2. /\ stage \notin {"idle", "done", "aborted"}
      /\ MMR1' = MMR1 /\ UNCHANGED <<instr, MMR2>> /\ stage' = "aborted" /\ locked' = TRUE
      /\ fault' = IF locked THEN fault ELSE [kind |-> kind, pc |-> pc, moved |-> moved']
      /\ moved' = moved \/ (moved' = Move(SP, -2) /\ kind \in StackKinds)
  BY <1>1 DEF AccessFaults, PushFaults, Abort, RestartTypes
<1>3. RestartTypes'
  BY <1>1, <1>2, MovedBy DEF RestartTypes, Stages, instr
<1>4. MovesAreRecorded'
  BY <1>2 DEF MovesAreRecorded
<1>5. Restartable'
  <2>1. CASE locked
    BY <1>2, <2>1 DEF RInv, Restartable
  <2>2. CASE ~locked
    <3>1. fault'.kind = kind /\ fault'.pc = pc /\ fault'.moved = moved'
      BY <1>2, <2>2
    <3>2. kind \notin StackKinds =>
            MMR2 = pc /\ moved' = moved /\ \A r \in Regs : moved[r] = Undone(MMR1, r)
      BY <1>2, <2>2 DEF RInv, MovesAreRecorded
    <3> QED BY <1>2, <3>1, <3>2 DEF Restartable
  <2> QED BY <2>1, <2>2
<1> QED BY <1>3, <1>4, <1>5 DEF RInv

\* Between the instructions.
LEMMA IdleStep ==
  ASSUME RInv, Retire \/ ClearErrors \/ SetErrors \/ ResetMmu
  PROVE  RInv'
<1>1. <<>> \in Seq(Moves) /\ NoMoves \in [Regs -> Int] /\ "jmp" \in Kinds
  BY DEF NoMoves, Kinds
<1>2. RestartTypes'
  BY <1>1 DEF Retire, ClearErrors, SetErrors, ResetMmu,
              RInv, RestartTypes, Stages, instr
<1>3. stage' = "idle"
  BY DEF Retire, ClearErrors, SetErrors, ResetMmu
<1>4. MovesAreRecorded'
  BY <1>3 DEF MovesAreRecorded
<1>5. Restartable'
  BY DEF Retire, ClearErrors, SetErrors, ResetMmu, RInv, Restartable
<1> QED BY <1>2, <1>4, <1>5 DEF RInv

\* Every step keeps the invariant.
LEMMA RestartStep ==
  ASSUME SP \in Regs, RInv, [RestartNext]_restartVars
  PROVE  RInv'
<1>1. CASE UNCHANGED restartVars
  BY <1>1 DEF restartVars, RInv, RestartTypes, MovesAreRecorded, Recorded, Restartable
<1>2. CASE RestartNext
  BY <1>2, StartStep, OperandStep, MovesStep, StackStep, FaultStep, IdleStep DEF RestartNext
<1> QED BY <1>1, <1>2

(***************************************************************************)
(* An instruction that leaves the stack alone can be restarted wherever it *)
(* faults, until the program clears the error bits: MMR2 is its address    *)
(* and MMR1 undoes its moves (cpu.cpp:1478, 1487 and 1600 for the others). *)
(***************************************************************************)
THEOREM FaultsRestart == RestartSpec => []Restartable
<1>0. SP \in Regs
  BY RegsAssumption DEF SP
<1>1. RestartInit => RInv
  <2> SUFFICES ASSUME RestartInit PROVE RInv
    OBVIOUS
  <2>1. MMR1 \in Seq(Moves)
    BY DEF RestartInit
  <2>2. RestartTypes
    <3>1. NoMoves \in [Regs -> Int] /\ "jmp" \in Kinds
      BY DEF NoMoves, Kinds
    <3> QED BY <2>1, <3>1 DEF RestartInit, RestartTypes, Stages
  <2>3. MovesAreRecorded /\ Restartable
    BY DEF RestartInit, MovesAreRecorded, Restartable
  <2> QED BY <2>2, <2>3 DEF RInv
<1>2. RInv /\ [RestartNext]_restartVars => RInv'
  BY <1>0, RestartStep
<1>3. RInv => Restartable
  BY DEF RInv
<1> QED BY <1>1, <1>2, <1>3, PTL DEF RestartSpec

\* How far an instruction can have moved a register before its destination, and
\* in each stage: an operand moves it by two at most, and so does a push or pop.
Before == IF kind \in TwoOperands \cup {"mtp"} THEN 2 ELSE 0
Reach ==
  CASE stage \in {"idle", "fetch", "src", "pop"} -> 0
    [] stage \in {"src_pointer", "src_value", "push"} -> 2
    [] stage = "dst" -> Before
    [] stage \in {"dst_pointer", "dst_value"} -> Before + 2
    [] OTHER -> 4

\* Only the instructions that have a stage get there.
Placed ==
  /\ stage \in {"src", "src_pointer", "src_value"} => kind \in TwoOperands
  /\ stage = "pop" => kind = "mtp"
  /\ stage \in {"push", "record"} => kind \in {"jsr", "mfp"}

\* The registers of an instruction in that stage.
Within == moved \in [Regs -> -Reach..Reach]

\* The inductive invariant of the types.
TInv == RestartTypeOK /\ Placed /\ Within

LEMMA ReachIsSmall ==
  Reach \in {0, 2, 4} /\ Before \in {0, 2}
  BY DEF Reach, Before

\* A register that moves by two at most is as much further at most.
LEMMA MoveReaches ==
  ASSUME NEW n \in Nat, NEW m \in Nat, n + 2 <= m, NEW f \in [Regs -> -n..n],
         NEW r \in Regs, NEW d \in -2..2
  PROVE  [f EXCEPT ![r] = @ + d] \in [Regs -> -m..m]
  <1>1. f[r] + d \in -m..m
    BY Z3
  <1>2. \A q \in Regs : f[q] \in -m..m
    BY Z3
  <1> QED  BY <1>1, <1>2, Z3

LEMMA StayReaches ==
  ASSUME NEW n \in Nat, NEW m \in Nat, n <= m, NEW f \in [Regs -> -n..n]
  PROVE  f \in [Regs -> -m..m]
  <1>1. \A q \in Regs : f[q] \in -m..m
    OBVIOUS
  <1> QED  BY <1>1

\* MMR1 has room for two moves, and drops the third.
LEMMA TwoEntries ==
  ASSUME MMR1 \in Seq(MovedEntry), Len(MMR1) <= 2, NEW r \in Regs, NEW d \in {-2, -1, 1, 2}
  PROVE  add_to_MMR1(r, d) \in Seq(MovedEntry) /\ Len(add_to_MMR1(r, d)) <= 2
  <1> DEFINE e == [reg |-> r, delta |-> d]
             b == <<e>> \o MMR1
             n == IF MMR1 = <<>> THEN 1 ELSE 2
  <1>1. e \in MovedEntry
    BY DEF MovedEntry
  <1>2. Len(MMR1) \in Nat /\ (MMR1 = <<>> <=> Len(MMR1) = 0)
    BY LenProperties, EmptySeq
  <1> HIDE DEF e
  <1>3. <<e>> \in Seq(MovedEntry) /\ Len(<<e>>) = 1
    BY <1>1
  <1>4. b \in Seq(MovedEntry) /\ Len(b) = Len(MMR1) + 1
    BY <1>3, ConcatProperties
  <1> HIDE DEF b
  <1>5. n \in 1..2 /\ n <= Len(b)
    BY <1>2, <1>4
  <1>6. \A i \in 1..n : b[i] \in MovedEntry
    BY <1>4, <1>5, ElementOfSeq
  <1>7. SubSeq(b, 1, n) \in Seq(MovedEntry) /\ Len(SubSeq(b, 1, n)) <= 2
    BY <1>5, <1>6, SubSeqProperties
  <1> QED  BY <1>7 DEF add_to_MMR1, b, e

\* What moves of an instruction, and where it goes on.
LEMMA TypesStep ==
  ASSUME TInv, RestartNext, SP \in Regs
  PROVE  TInv'
  <1>0. /\ Reach \in Nat /\ Reach' \in {0, 2, 4} /\ Reach' \in Nat /\ Reach \in {0, 2, 4}
    BY ReachIsSmall DEF Reach, Before
  <1>1. ASSUME moved' \in [Regs -> -Reach'..Reach']
        PROVE  moved' \in [Regs -> -4..4]
    BY <1>0, <1>1, StayReaches
  <1>2. ASSUME UNCHANGED moved, Reach <= Reach'
        PROVE  Within' /\ moved' \in [Regs -> -4..4]
    <2>1. moved \in [Regs -> -(Reach')..(Reach')]
      BY <1>0, <1>2, StayReaches DEF TInv, Within
    <2>2. Within'
      BY <1>2, <2>1 DEF Within
    <2> QED  BY <1>1, <2>2 DEF Within
  <1>3. ASSUME NEW r \in Regs, NEW d \in -2..2, moved' = Move(r, d), Reach + 2 <= Reach'
        PROVE  Within' /\ moved' \in [Regs -> -4..4]
    <2>1. moved' \in [Regs -> -(Reach')..(Reach')]
      BY <1>0, <1>3, MoveReaches DEF TInv, Within, Move
    <2> QED  BY <1>1, <2>1 DEF Within
  <1>4. /\ stage \in Stages /\ pc \in Addresses /\ kind \in Kinds /\ bytes \in BOOLEAN
        /\ MMR1 \in Seq(MovedEntry) /\ Len(MMR1) <= 2 /\ MMR2 \in Addresses \cup {0}
        /\ locked \in BOOLEAN /\ Placed /\ moved \in [Regs -> -4..4]
        /\ (fault = NoFault \/ fault \in [kind : Kinds, pc : Addresses, moved : [Regs -> -4..4]])
    BY DEF TInv, RestartTypeOK
  <1>5. ASSUME NEW a \in Addresses, NEW k \in Kinds, NEW b \in BOOLEAN, Start(a, k, b)
        PROVE  TInv'
    <2>1. /\ stage = "idle" /\ stage' = "fetch" /\ pc' = a /\ kind' = k /\ bytes' \in BOOLEAN
          /\ UNCHANGED <<moved, locked, fault>>
          /\ (UNCHANGED <<MMR1, MMR2>> \/ (MMR1' = <<>> /\ MMR2' = a))
      BY <1>5 DEF Start, MMRStartInstruction
    <2>2. Reach = 0
      BY <2>1 DEF Reach
    <2>3. Within' /\ moved' \in [Regs -> -4..4]
      BY <1>0, <1>2, <2>1, <2>2
    <2>4. Placed'
      BY <2>1 DEF Placed
    <2>5. MMR1' \in Seq(MovedEntry) /\ Len(MMR1') <= 2 /\ MMR2' \in Addresses \cup {0}
      <3>1. CASE UNCHANGED <<MMR1, MMR2>>
        BY <1>4, <3>1
      <3>2. CASE MMR1' = <<>> /\ MMR2' = a
        BY <3>2
      <3> QED  BY <2>1, <3>1, <3>2
    <2> QED  BY <1>4, <2>1, <2>3, <2>4, <2>5 DEF TInv, RestartTypeOK, Stages
  <1>6. ASSUME Fetch \/ GamRegister \/ (\E m \in {1, 6, 7} : GamPlain(m)) \/ GamPointer
               \/ GamValue \/ Write \/ OddAddress
        PROVE  TInv'
    <2>1. UNCHANGED <<pc, kind, bytes, moved, MMR1, MMR2, locked, fault>>
      BY <1>6 DEF Fetch, GamRegister, GamPlain, GamPointer, GamValue, Write, OddAddress, instr
    <2>2. stage' \in Stages /\ Placed' /\ Reach <= Reach'
      BY <1>4, <1>6, <2>1
         DEF Fetch, GamRegister, GamPlain, GamPointer, GamValue, Write, OddAddress, Stages, Placed,
             Reach, Before, ValueStage, ReadsValue, After, AfterSource, AfterDestination, Kinds,
             TwoOperands, StackKinds
    <2> QED  BY <1>2, <1>4, <2>1, <2>2 DEF TInv, RestartTypeOK
  <1>7. ASSUME NEW m \in 2..5, NEW r \in Regs, GamMoves(m, r)
        PROVE  TInv'
    <2> DEFINE d == GamDelta(m, r)
    <2>1. d \in {-2, -1, 1, 2}
      BY DEF GamDelta, ByteDelta
    <2>2. moved' = Move(r, d) /\ MMR1' = add_to_MMR1(r, d)
          /\ UNCHANGED <<pc, kind, bytes, MMR2, locked, fault>>
      BY <1>7 DEF GamMoves, instr
    <2> HIDE DEF d
    <2>3. stage' \in Stages /\ Placed' /\ Reach + 2 <= Reach'
      BY <1>4, <1>7, <2>2
         DEF GamMoves, Stages, Placed, Reach, Before, ValueStage, ReadsValue, After, AfterSource,
             AfterDestination, Kinds, TwoOperands, StackKinds
    <2>4. Within' /\ moved' \in [Regs -> -4..4]
      BY <1>3, <2>1, <2>2, <2>3
    <2>5. MMR1' \in Seq(MovedEntry) /\ Len(MMR1') <= 2
      BY <1>4, <2>1, <2>2, TwoEntries
    <2> QED  BY <1>4, <2>2, <2>3, <2>4, <2>5 DEF TInv, RestartTypeOK
  <1>8. ASSUME Push \/ Pop
        PROVE  TInv'
    <2>1. UNCHANGED <<pc, kind, bytes, MMR1, MMR2, locked, fault>>
          /\ (moved' = Move(SP, -2) \/ moved' = Move(SP, 2))
      BY <1>8 DEF Push, Pop, instr
    <2>2. stage' \in Stages /\ Placed' /\ Reach + 2 <= Reach'
      BY <1>4, <1>8, <2>1 DEF Push, Pop, Stages, Placed, Reach, Before, TwoOperands
    <2>3. Within' /\ moved' \in [Regs -> -4..4]
      BY <1>3, <2>1, <2>2
    <2> QED  BY <1>4, <2>1, <2>2, <2>3 DEF TInv, RestartTypeOK
  <1>9. ASSUME RecordPush
        PROVE  TInv'
    <2>1. /\ stage = "record" /\ stage' = "done" /\ MMR1' = add_to_MMR1(SP, -2)
          /\ UNCHANGED <<pc, kind, bytes, moved, MMR2, locked, fault>>
      BY <1>9 DEF RecordPush, instr
    <2>2. stage' \in Stages /\ Placed' /\ Reach <= Reach'
      BY <2>1 DEF Stages, Placed, Reach
    <2>3. MMR1' \in Seq(MovedEntry) /\ Len(MMR1') <= 2
      BY <1>4, <2>1, TwoEntries
    <2> QED  BY <1>2, <1>4, <2>1, <2>2, <2>3 DEF TInv, RestartTypeOK
  <1>10. ASSUME PushFaults \/ AccessFaults
         PROVE  TInv'
    <2>1. /\ stage' = "aborted" /\ locked' \in BOOLEAN
          /\ UNCHANGED <<pc, kind, bytes, MMR1, MMR2>>
          /\ (fault' = fault \/ fault' = [kind |-> kind, pc |-> pc, moved |-> moved'])
      BY <1>4, <1>10 DEF PushFaults, AccessFaults, Abort, instr
    <2>2. stage' \in Stages /\ Placed' /\ Reach' = 4
      BY <2>1 DEF Stages, Placed, Reach
    <2>3. CASE AccessFaults
      <3>1. UNCHANGED moved
        BY <2>3 DEF AccessFaults
      <3>2. Within' /\ moved' \in [Regs -> -4..4]
        BY <1>0, <1>2, <2>2, <3>1
      <3> QED  BY <1>4, <2>1, <2>2, <3>2 DEF TInv, RestartTypeOK
    <2>4. CASE PushFaults
      <3>1. moved' = Move(SP, -2) /\ Reach = 2
        BY <2>4 DEF PushFaults, Reach
      <3>2. Within' /\ moved' \in [Regs -> -4..4]
        BY <1>3, <2>2, <3>1
      <3> QED  BY <1>4, <2>1, <2>2, <3>2 DEF TInv, RestartTypeOK
    <2> QED  BY <1>10, <2>3, <2>4
  <1>11. ASSUME Retire
         PROVE  TInv'
    <2>1. /\ stage' = "idle" /\ kind' = "jmp" /\ bytes' \in BOOLEAN /\ moved' = NoMoves
          /\ UNCHANGED <<pc, MMR1, MMR2, locked, fault>>
      BY <1>11 DEF Retire
    <2>2. stage' \in Stages /\ kind' \in Kinds /\ Placed' /\ Reach' = 0
      BY <2>1 DEF Stages, Kinds, Placed, Reach
    <2>3. moved' \in [Regs -> -0..0] /\ moved' \in [Regs -> -4..4]
      BY <2>1 DEF NoMoves
    <2>4. Within'
      BY <2>2, <2>3 DEF Within
    <2> QED  BY <1>4, <2>1, <2>2, <2>3, <2>4 DEF TInv, RestartTypeOK
  <1>12. ASSUME ClearErrors \/ SetErrors \/ ResetMmu
         PROVE  TInv'
    <2>1. /\ UNCHANGED <<stage, pc, kind, bytes, moved>> /\ locked' \in BOOLEAN
          /\ (UNCHANGED <<MMR1, MMR2>> \/ (MMR1' = <<>> /\ MMR2' = 0))
          /\ (fault' = fault \/ fault' = NoFault)
      BY <1>12 DEF ClearErrors, SetErrors, ResetMmu, instr
    <2>2. Placed' /\ Reach' = Reach
      BY <1>4, <2>1 DEF Placed, Reach, Before
    <2>3. MMR1' \in Seq(MovedEntry) /\ Len(MMR1') <= 2 /\ MMR2' \in Addresses \cup {0}
      <3>1. CASE UNCHANGED <<MMR1, MMR2>>
        BY <1>4, <3>1
      <3>2. CASE MMR1' = <<>> /\ MMR2' = 0
        BY <3>2
      <3> QED  BY <2>1, <3>1, <3>2
    <2> QED  BY <1>0, <1>2, <1>4, <2>1, <2>2, <2>3 DEF TInv, RestartTypeOK
  <1> QED
    BY <1>5, <1>6, <1>7, <1>8, <1>9, <1>10, <1>11, <1>12 DEF RestartNext

\* The state of the restart has its types: whatever an instruction does and
\* however it ends, it has moved no register by more than four, and two moves
\* are in MMR1 at most (cpu.cpp:116, getGAM, push_stack, pop_stack).
THEOREM RestartTypeCorrect == RestartSpec => []RestartTypeOK
  <1>0. SP \in Regs
    BY RegsAssumption DEF SP
  <1>1. RestartInit => TInv
    <2> SUFFICES ASSUME RestartInit  PROVE TInv
      OBVIOUS
    <2>1. stage = "idle" /\ kind = "jmp" /\ moved = NoMoves /\ MMR1 = <<>> /\ fault = NoFault
          /\ pc \in Addresses /\ bytes \in BOOLEAN /\ locked \in BOOLEAN /\ MMR2 = 0
      BY DEF RestartInit
    <2>2. MMR1 \in Seq(MovedEntry) /\ Len(MMR1) <= 2
      BY <2>1
    <2>3. Reach = 0 /\ Placed /\ stage \in Stages /\ kind \in Kinds
      BY <2>1 DEF Reach, Placed, Stages, Kinds
    <2>4. moved \in [Regs -> -0..0] /\ moved \in [Regs -> -4..4]
      BY <2>1 DEF NoMoves
    <2> QED  BY <2>1, <2>2, <2>3, <2>4 DEF TInv, RestartTypeOK, Within
  <1>2. TInv /\ UNCHANGED restartVars => TInv'
    BY DEF restartVars, TInv, RestartTypeOK, Placed, Within, Reach, Before
  <1>3. TInv /\ [RestartNext]_restartVars => TInv'
    BY <1>0, <1>2, TypesStep
  <1>4. TInv => RestartTypeOK
    BY DEF TInv
  <1> QED  BY <1>1, <1>3, <1>4, PTL DEF RestartSpec

-----------------------------------------------------------------------------
(***************************************************************************)
(* Numbers and their remainders, which words are, and the instructions.    *)
(***************************************************************************)
\* Division: quotient and remainder, that they are unique, and the remainder
\* of numbers that differ by a multiple of the divisor.
LEMMA DivMod ==
  ASSUME NEW s \in Int, s > 0, NEW x \in Int
  PROVE  x \div s \in Int /\ x % s \in 0 .. s - 1 /\ x = (x \div s) * s + (x % s)
  OBVIOUS

LEMMA DivModUnique ==
  ASSUME NEW s \in Int, s > 0, NEW q \in Int, NEW r \in 0 .. s - 1
  PROVE  (q * s + r) \div s = q /\ (q * s + r) % s = r
  OBVIOUS

LEMMA SameRemainder ==
  ASSUME NEW s \in Int, s > 0, NEW x \in Int, NEW k \in Int
  PROVE  (x + k * s) % s = x % s
  <1> DEFINE q == x \div s
             r == x % s
  <1>1. q \in Int /\ r \in 0 .. s - 1 /\ x = q * s + r
    BY DivMod
  <1>2. x + k * s = (q + k) * s + r
    BY <1>1
  <1>3. ((q + k) * s + r) % s = r
    <2> HIDE DEF q, r
    <2> QED  BY <1>1, DivModUnique
  <1> QED  BY <1>2, <1>3

LEMMA DivDiv ==
  ASSUME NEW b \in Int, NEW p \in Int, b > 0, p > 0, NEW x \in Int
  PROVE  (x \div b) \div p = x \div (b * p)
  OBVIOUS

\* Powers of two, as far as words need them.
\* The provers treat 2 ^ i as a function of i only when it is not spelt out.
Power(i) == 2 ^ i

LEMMA Powers ==
  /\ Power(0) = 1 /\ Power(1) = 2 /\ Power(2) = 4 /\ Power(3) = 8 /\ Power(4) = 16
  /\ Power(5) = 32 /\ Power(6) = 64 /\ Power(7) = 128 /\ Power(8) = 256
  /\ Power(9) = 512 /\ Power(10) = 1024 /\ Power(11) = 2048 /\ Power(12) = 4096
  /\ Power(13) = 8192 /\ Power(14) = 16384 /\ Power(15) = 32768 /\ Power(16) = 65536
  BY DEF Power

LEMMA PowerOfSum ==
  ASSUME NEW n \in 0..8, NEW j \in 0..8
  PROVE  Power(n + j) = Power(n) * Power(j)
  <1>1. CASE n \in {0, 1, 2}  BY <1>1, Powers
  <1>2. CASE n \in {3, 4, 5}  BY <1>2, Powers
  <1>3. CASE n \in {6, 7, 8}  BY <1>3, Powers
  <1> QED  BY <1>1, <1>2, <1>3

LEMMA PowerIsPositive ==
  ASSUME NEW n \in 0..16
  PROVE  Power(n) \in Nat \ {0}
  BY Powers

LEMMA Sizes ==
  /\ ByteSize \in {2, 4, 8, 16, 32, 64, 128, 256}
  /\ WordSize = ByteSize * ByteSize
  <1>1. PICK n \in 1..8 : WordBits = 2 * n
    BY WordBitsAssumption
  <1>2. ByteSize = Power(n) /\ WordSize = Power(n + n)
    BY <1>1 DEF ByteSize, WordSize, Power
  <1> QED  BY <1>2, Powers, PowerOfSum

LEMMA SizeIsEven ==
  ASSUME NEW byte \in BOOLEAN
  PROVE  /\ Size(byte) \in Nat /\ Size(byte) \div 2 \in Nat /\ Size(byte) \div 2 >= 1
         /\ Size(byte) = 2 * (Size(byte) \div 2)
  <1>1. ByteSize = 2 * (ByteSize \div 2) /\ ByteSize \div 2 >= 1
    BY Sizes
  <1>2. WordSize = 2 * (WordSize \div 2) /\ WordSize \div 2 >= 1
    BY Sizes
  <1> QED  BY <1>1, <1>2, Sizes DEF Size

\* The remainder of a number that is a little out of range.
LEMMA Wrapped ==
  ASSUME NEW size \in Nat, size > 0, NEW v \in -size .. 2 * size - 1
  PROVE  v % size = IF v < 0 THEN v + size ELSE IF v < size THEN v ELSE v - size
  <1>1. CASE v < 0
    <2>1. v + size \in 0 .. size - 1 /\ v = (-1) * size + (v + size)
      BY <1>1
    <2> QED  BY <1>1, <2>1, DivModUnique
  <1>2. CASE v \in 0 .. size - 1
    <2>1. v = 0 * size + v
      OBVIOUS
    <2> QED  BY <1>2, <2>1, DivModUnique
  <1>3. CASE v >= size
    <2>1. v - size \in 0 .. size - 1 /\ v = 1 * size + (v - size)
      BY <1>3
    <2> QED  BY <1>3, <2>1, DivModUnique
  <1> QED  BY <1>1, <1>2, <1>3

\* What an instruction leaves beside the low part of a register is what was
\* there, and the flags N and Z tell of the low part.
LEMMA Stored ==
  ASSUME NEW x \in Words, NEW byte \in BOOLEAN, NEW exact \in Int,
         NEW low, low = exact % Size(byte), NEW v, NEW c, NEW y, y = High(x, byte) + low
  PROVE  /\ Correct(y, Size(byte), NZVC(y, byte, v, c), exact, c)
         /\ y % Size(byte) = low
         /\ y \div Size(byte) = x \div Size(byte)
         /\ NZVC(y, byte, v, c).v = v
  <1> DEFINE size == Size(byte)
  <1>1. size \in Nat /\ size > 0
    BY SizeIsEven
  <1>2. low \in 0 .. size - 1
    BY <1>1, DivMod
  <1>3. x \in Int
    BY Sizes DEF Words
  <1>4. x \div size \in Int /\ x = (x \div size) * size + (x % size)
    BY <1>1, <1>3, DivMod
  <1>5. y = (x \div size) * size + low
    <2>1. CASE byte
      <3>1. High(x, byte) = x - (x % size)
        BY <2>1 DEF High, Low
      <3> HIDE DEF size
      <3> QED  BY <1>1, <1>2, <1>3, <1>4, <3>1, DivMod
    <2>2. CASE ~byte
      <3>1. x = 0 * size + x /\ x \in 0 .. size - 1
        BY <2>2, Sizes DEF Words, Size
      <3>2. x \div size = 0
        <4> HIDE DEF size
        <4> QED  BY <1>1, <3>1, DivModUnique
      <3>3. High(x, byte) = 0
        BY <2>2 DEF High
      <3> HIDE DEF size
      <3> QED  BY <1>1, <1>2, <3>2, <3>3
    <2> QED  BY <2>1, <2>2
  <1>6. y % size = low /\ y \div size = x \div size
    <2> DEFINE q == x \div size
    <2>1. q \in Int /\ y = q * size + low
      BY <1>4, <1>5
    <2>2. y % size = low /\ y \div size = q
      <3> HIDE DEF size, q
      <3> QED  BY <1>1, <1>2, <2>1, DivModUnique
    <2> QED  BY <2>2
  <1>7. NZVC(y, byte, v, c).n = (Signed(y, size) < 0)
    BY <1>1, <1>2, <1>6 DEF NZVC, SIGN, Signed, Top
  <1> QED  BY <1>6, <1>7 DEF Correct, NZVC, IS_0, Low


\* The low part of a result depends on the low part of the operand only.
LEMMA LowOfSum ==
  ASSUME NEW size \in Int, size > 0, NEW x \in Int, NEW d \in Int
  PROVE  (x + d) % size = ((x % size) + d) % size
  <1>1. ASSUME NEW k \in Int, NEW u \in Int, x = k * size + u
        PROVE  (x + d) % size = (u + d) % size
    <2> DEFINE a == u + d
    <2>1. a \in Int /\ x + d = a + k * size
      BY <1>1
    <2>2. (a + k * size) % size = a % size
      <3> HIDE DEF a
      <3> QED  BY <2>1, SameRemainder
    <2> QED  BY <2>1, <2>2
  <1>2. x \div size \in Int /\ x % size \in Int /\ x = (x \div size) * size + (x % size)
    BY DivMod
  <1> QED  BY <1>1, <1>2

LEMMA LowOfDouble ==
  ASSUME NEW size \in Int, size > 0, NEW x \in Int, NEW d \in Int
  PROVE  (2 * x + d) % size = (2 * (x % size) + d) % size
  <1>1. ASSUME NEW k \in Int, NEW u \in Int, x = k * size + u
        PROVE  (2 * x + d) % size = (2 * u + d) % size
    <2> DEFINE a == 2 * u + d
    <2>1. a \in Int /\ 2 * x + d = a + (2 * k) * size /\ 2 * k \in Int
      BY <1>1
    <2>2. (a + (2 * k) * size) % size = a % size
      <3> HIDE DEF a
      <3> QED  BY <2>1, SameRemainder
    <2> QED  BY <2>1, <2>2
  <1>2. x \div size \in Int /\ x % size \in Int /\ x = (x \div size) * size + (x % size)
    BY DivMod
  <1> QED  BY <1>1, <1>2

LEMMA LowOfNegative ==
  ASSUME NEW size \in Int, size > 0, NEW x \in Int
  PROVE  (-x) % size = (-(x % size)) % size
  <1>1. ASSUME NEW k \in Int, NEW u \in Int, x = k * size + u
        PROVE  (-x) % size = (-u) % size
    <2> DEFINE a == -u
    <2>1. a \in Int /\ -x = a + (-k) * size /\ -k \in Int
      BY <1>1
    <2>2. (a + (-k) * size) % size = a % size
      <3> HIDE DEF a
      <3> QED  BY <2>1, SameRemainder
    <2> QED  BY <2>1, <2>2
  <1>2. x \div size \in Int /\ x % size \in Int /\ x = (x \div size) * size + (x % size)
    BY DivMod
  <1> QED  BY <1>1, <1>2

LEMMA SignedValue ==
  ASSUME NEW size \in Nat, NEW h \in Nat, h >= 1, size = 2 * h, NEW u \in 0 .. size - 1
  PROVE  Signed(u, size) = IF u < h THEN u ELSE u - size
  <1>1. u % size = u
    BY Wrapped
  <1>2. size \div 2 = h
    OBVIOUS
  <1> QED  BY <1>1, <1>2 DEF Signed, Top


\* The operand of a single operand instruction, as the proofs below see it: of
\* x only the low part u plays a part, which is s as a signed number.
OperandIs(x, size, h, u, s) ==
  /\ h >= 1 /\ size = 2 * h /\ u \in 0 .. size - 1 /\ u = x % size
  /\ s = IF u < h THEN u ELSE u - size

IsBit(c) == c \in {0, 1}

LEMMA OperandOf ==
  ASSUME NEW x \in Words, NEW byte \in BOOLEAN, NEW size, NEW h, NEW u, NEW s,
         size = Size(byte), h = size \div 2, u = x % size, s = Signed(u, size)
  PROVE  /\ x \in Int /\ size \in Nat /\ h \in Nat /\ u \in Nat /\ s \in Int
         /\ u = u % size
         /\ OperandIs(x, size, h, u, s)
  <1>1. x \in Int /\ size \in Nat /\ h \in Nat /\ h >= 1 /\ size = 2 * h
    BY SizeIsEven, Sizes DEF Words
  <1>2. u \in 0 .. size - 1
    BY <1>1, DivMod
  <1>3. u % size = u
    BY ONLY <1>1, <1>2, Wrapped
  <1>4. Signed(u, size) = IF u < h THEN u ELSE u - size
    BY ONLY <1>1, <1>2, SignedValue
  <1> QED
    BY <1>1, <1>2, <1>3, <1>4 DEF OperandIs

\* One more, one less, or the same.
Near(x, size, u, s) ==
  /\ (x + 1) % size = (IF u + 1 = size THEN 0 ELSE u + 1) /\ (s + 1) % size = (x + 1) % size
  /\ (x - 1) % size = (IF u = 0 THEN size - 1 ELSE u - 1) /\ (s - 1) % size = (x - 1) % size
  /\ x % size = u /\ s % size = u

LEMMA NearLow ==
  ASSUME NEW x \in Int, NEW size \in Nat, NEW h \in Nat, NEW u \in Nat, NEW s \in Int,
         OperandIs(x, size, h, u, s)
  PROVE  Near(x, size, u, s)
  <1>1. ASSUME NEW d \in {-1, 0, 1}
        PROVE  /\ (x + d) % size = IF u + d < 0 THEN size - 1
                                   ELSE IF u + d = size THEN 0 ELSE u + d
               /\ (s + d) % size = (x + d) % size
    <2>1. (x + d) % size = (u + d) % size
      <3>1. size \in Int /\ size > 0 /\ u = x % size
        BY DEF OperandIs
      <3>2. \A e \in Int : (x + e) % size = ((x % size) + e) % size
        BY ONLY <3>1, LowOfSum, x \in Int
      <3> QED  BY <3>1, <3>2
    <2>2. (u + d) % size = IF u + d < 0 THEN u + d + size
                           ELSE IF u + d < size THEN u + d ELSE u + d - size
      BY Wrapped DEF OperandIs
    <2>3. (s + d) % size = IF s + d < 0 THEN s + d + size
                           ELSE IF s + d < size THEN s + d ELSE s + d - size
      BY Wrapped DEF OperandIs
    <2> QED  BY <2>1, <2>2, <2>3 DEF OperandIs
  <1>2. (x + 1) % size = (IF u + 1 = size THEN 0 ELSE u + 1) /\ (s + 1) % size = (x + 1) % size
    BY <1>1 DEF OperandIs
  <1>3. /\ (x + (-1)) % size = (IF u = 0 THEN size - 1 ELSE u - 1)
        /\ (s + (-1)) % size = (x + (-1)) % size
    BY <1>1 DEF OperandIs
  <1>4. (x + 0) % size = u /\ (s + 0) % size = u
    BY <1>1 DEF OperandIs
  <1>5. /\ x + (-1) = x - 1 /\ s + (-1) = s - 1 /\ x + 0 = x /\ s + 0 = s
    OBVIOUS
  <1> QED  BY <1>2, <1>3, <1>4, <1>5 DEF Near

LEMMA IncLow ==
  ASSUME NEW x \in Int, NEW size \in Nat, NEW h \in Nat, NEW u \in Nat, NEW s \in Int,
         OperandIs(x, size, h, u, s)
  PROVE  /\ (x + 1) % size = (s + 1) % size
         /\ ((x + 1) % size = h <=> ~InRange(s + 1, size))
  <1>1. Near(x, size, u, s)
    BY NearLow
  <1>2. size \div 2 = h
    BY DEF OperandIs
  <1> QED  BY <1>1, <1>2 DEF InRange, OperandIs, Near

LEMMA DecLow ==
  ASSUME NEW x \in Int, NEW size \in Nat, NEW h \in Nat, NEW u \in Nat, NEW s \in Int,
         OperandIs(x, size, h, u, s)
  PROVE  /\ (x - 1) % size = (s - 1) % size
         /\ ((x - 1) % size = h - 1 <=> ~InRange(s - 1, size))
  <1>1. Near(x, size, u, s)
    BY NearLow
  <1>2. size \div 2 = h
    BY DEF OperandIs
  <1> QED  BY <1>1, <1>2 DEF InRange, OperandIs, Near

LEMMA AdcLow ==
  ASSUME NEW x \in Int, NEW size \in Nat, NEW h \in Nat, NEW u \in Nat, NEW s \in Int,
         OperandIs(x, size, h, u, s), NEW c \in Int, IsBit(c)
  PROVE  /\ (x + c) % size = (s + c) % size
         /\ (u = h - 1 /\ c = 1 <=> ~InRange(s + c, size))
         /\ (u = size - 1 /\ c = 1 <=> u + c >= size)
  <1>1. Near(x, size, u, s)
    BY NearLow
  <1>2. (x + c) % size = (s + c) % size
    <2>1. CASE c = 0
      <3>1. x + c = x /\ s + c = s
        BY <2>1
      <3> QED  BY <1>1, <3>1 DEF Near
    <2>2. CASE c = 1
      BY <1>1, <2>2 DEF Near
    <2> QED  BY <2>1, <2>2 DEF IsBit
  <1>3. size \div 2 = h
    BY DEF OperandIs
  <1> QED  BY <1>2, <1>3 DEF InRange, OperandIs, IsBit, Near

LEMMA SbcLow ==
  ASSUME NEW x \in Int, NEW size \in Nat, NEW h \in Nat, NEW u \in Nat, NEW s \in Int,
         OperandIs(x, size, h, u, s), NEW c \in Int, IsBit(c)
  PROVE  /\ (x - c) % size = (s - c) % size
         /\ (u = h /\ c = 1 <=> ~InRange(s - c, size))
         /\ (u = 0 /\ c = 1 <=> u - c < 0)
  <1>1. Near(x, size, u, s)
    BY NearLow
  <1>2. (x - c) % size = (s - c) % size
    <2>1. CASE c = 0
      <3>1. x - c = x /\ s - c = s
        BY <2>1
      <3> QED  BY <1>1, <3>1 DEF Near
    <2>2. CASE c = 1
      BY <1>1, <2>2 DEF Near
    <2> QED  BY <2>1, <2>2 DEF IsBit
  <1>3. size \div 2 = h
    BY DEF OperandIs
  <1> QED  BY <1>2, <1>3 DEF InRange, OperandIs, IsBit, Near

LEMMA NegLow ==
  ASSUME NEW x \in Int, NEW size \in Nat, NEW h \in Nat, NEW u \in Nat, NEW s \in Int,
         OperandIs(x, size, h, u, s)
  PROVE  /\ (-x) % size = (-s) % size
         /\ ((-x) % size = h <=> ~InRange(-s, size))
         /\ ((-x) % size = 0 <=> u = 0)
  <1>1. (-x) % size = (-u) % size
    <2>1. size \in Int /\ size > 0 /\ u = x % size
      BY DEF OperandIs
    <2> QED  BY <2>1, LowOfNegative
  <1>2. (-u) % size = IF -u < 0 THEN -u + size ELSE IF -u < size THEN -u ELSE -u - size
    BY Wrapped DEF OperandIs
  <1>3. (-s) % size = IF -s < 0 THEN -s + size ELSE IF -s < size THEN -s ELSE -s - size
    BY Wrapped DEF OperandIs
  <1>4. size \div 2 = h
    BY DEF OperandIs
  <1> QED  BY <1>1, <1>2, <1>3, <1>4 DEF InRange, OperandIs, IsBit

LEMMA ComLow ==
  ASSUME NEW x \in Int, NEW size \in Nat, NEW h \in Nat, NEW u \in Nat, NEW s \in Int,
         OperandIs(x, size, h, u, s)
  PROVE  /\ size - 1 - u = (-1 - s) % size
         /\ InRange(-1 - s, size)
  <1>1. (-1 - s) % size = IF -1 - s < 0 THEN -1 - s + size
                          ELSE IF -1 - s < size THEN -1 - s ELSE -1 - s - size
    BY Wrapped DEF OperandIs
  <1>2. size \div 2 = h
    BY DEF OperandIs
  <1> QED  BY <1>1, <1>2 DEF InRange, OperandIs, IsBit

LEMMA TstLow ==
  ASSUME NEW x \in Int, NEW size \in Nat, NEW h \in Nat, NEW u \in Nat, NEW s \in Int,
         OperandIs(x, size, h, u, s)
  PROVE  /\ u = s % size /\ InRange(s, size)
         /\ 0 = 0 % size /\ InRange(0, size)
         /\ size - 1 = (-1) % size /\ InRange(-1, size)
  <1>1. s % size = IF s < 0 THEN s + size ELSE IF s < size THEN s ELSE s - size
    BY Wrapped DEF OperandIs
  <1>2. 0 % size = 0 /\ (-1) % size = -1 + size
    BY Wrapped DEF OperandIs
  <1>3. size \div 2 = h
    BY DEF OperandIs
  <1> QED  BY <1>1, <1>2, <1>3 DEF InRange, OperandIs, IsBit

\* Twice the operand, with c shifted in.
LEMMA LeftLow ==
  ASSUME NEW x \in Int, NEW size \in Nat, NEW h \in Nat, NEW u \in Nat, NEW s \in Int,
         OperandIs(x, size, h, u, s), NEW c \in Int, IsBit(c)
  PROVE  /\ (2 * x + c) % size = (2 * s + c) % size
         /\ (((2 * x + c) % size >= h) # (u >= h) <=> ~InRange(2 * s + c, size))
         /\ (u >= h <=> 2 * u >= size)
  <1>1. (2 * x + c) % size = (2 * u + c) % size
    <2>1. size \in Int /\ size > 0 /\ u = x % size
      BY DEF OperandIs, IsBit
    <2>2. \A e \in Int : (2 * x + e) % size = (2 * (x % size) + e) % size
      BY ONLY <2>1, LowOfDouble, x \in Int
    <2> QED  BY <2>1, <2>2
  <1>2. (2 * u + c) % size = IF 2 * u + c < 0 THEN 2 * u + c + size
                             ELSE IF 2 * u + c < size THEN 2 * u + c ELSE 2 * u + c - size
    BY Wrapped DEF OperandIs, IsBit
  <1>3. (2 * s + c) % size = IF 2 * s + c < 0 THEN 2 * s + c + size
                             ELSE IF 2 * s + c < size THEN 2 * s + c ELSE 2 * s + c - size
    <2> DEFINE e == 2 * s + c
    <2>1. e \in -size .. 2 * size - 1 /\ size > 0
      BY DEF OperandIs, IsBit
    <2>2. e % size = IF e < 0 THEN e + size ELSE IF e < size THEN e ELSE e - size
      <3> HIDE DEF e
      <3> QED  BY ONLY <2>1, Wrapped, size \in Nat
    <2> QED  BY <2>2
  <1>4. size \div 2 = h
    BY DEF OperandIs, IsBit
  <1> QED  BY <1>1, <1>2, <1>3, <1>4 DEF InRange, OperandIs, IsBit

\* Half of it, with the sign or c shifted in.
Halved(x, size, h, u, s, c) ==
  /\ (u \div 2) + (IF u >= h THEN h ELSE 0) = (s \div 2) % size
  /\ (u \div 2) + c * h = ((u \div 2) - c * h) % size
  /\ x % 2 = u % 2

LEMMA RightLow ==
  ASSUME NEW x \in Int, NEW size \in Nat, NEW h \in Nat, NEW u \in Nat, NEW s \in Int,
         OperandIs(x, size, h, u, s), NEW c \in Int, IsBit(c)
  PROVE  Halved(x, size, h, u, s, c)
  <1>1. (s \div 2) % size = IF s \div 2 < 0 THEN (s \div 2) + size
                            ELSE IF s \div 2 < size THEN s \div 2 ELSE (s \div 2) - size
    <2>1. s \div 2 \in -size .. 2 * size - 1
      BY DEF OperandIs, IsBit
    <2> QED  BY <2>1, Wrapped DEF OperandIs, IsBit
  <1> DEFINE e == (u \div 2) - c * h
  <1>2. e \in -size .. 2 * size - 1 /\ (c = 0 => e = u \div 2) /\ (c = 1 => e = (u \div 2) - h)
    BY DEF OperandIs, IsBit
  <1>3. e % size = IF e < 0 THEN e + size ELSE IF e < size THEN e ELSE e - size
    <2> HIDE DEF e
    <2> QED  BY <1>2, Wrapped DEF OperandIs, IsBit
  <1>4. (u \div 2) + c * h = e % size
    BY <1>2, <1>3 DEF OperandIs, IsBit
  <1>5. x % 2 = u % 2
    <2>1. x \div size \in Int /\ x = (x \div size) * size + (x % size)
      BY DivMod DEF OperandIs, IsBit
    <2>2. ASSUME NEW k \in Int, x = k * (2 * h) + u PROVE x % 2 = u % 2
      <3>1. x = u + (k * h) * 2 /\ k * h \in Int
        BY <2>2
      <3> QED  BY <3>1, SameRemainder
    <2> QED  BY <2>1, <2>2 DEF OperandIs, IsBit
  <1>6. (u \div 2) + (IF u >= h THEN h ELSE 0) = (s \div 2) % size
    <2>1. s \div 2 = IF u < h THEN u \div 2 ELSE (u \div 2) - h
      BY DEF OperandIs, IsBit
    <2> QED  BY <1>1, <2>1 DEF OperandIs, IsBit
  <1> QED  BY <1>4, <1>5, <1>6 DEF Halved


LEMMA IncIsExact ==
  ASSUME NEW x \in Words, NEW byte \in BOOLEAN, NEW f \in Flags
  PROVE  SingleCorrect([unit |-> "single", op |-> "INC", x |-> x, byte |-> byte, f |-> f,
                        r |-> Inc(x, byte, f)])
  <1> DEFINE size == Size(byte)
             h == size \div 2
             u == x % size
             s == Signed(u, size)
             low == (x + 1) % size
             y == High(x, byte) + low
  <1>1. /\ x \in Int /\ size \in Nat /\ h \in Nat /\ u \in Nat /\ s \in Int
        /\ OperandIs(x, size, h, u, s)
    BY OperandOf
  <1>2. low = (s + 1) % size /\ s + 1 \in Int /\ (low = h <=> ~InRange(s + 1, size))
    <2> HIDE DEF h, u, s, size
    <2> QED  BY <1>1, IncLow
  <1>3. /\ Correct(y, size, NZVC(y, byte, low = h, f.c), s + 1, f.c)
        /\ y % size = low /\ y \div size = x \div size
        /\ NZVC(y, byte, low = h, f.c).v = (low = h)
    <2> HIDE DEF low, s
    <2> QED  BY <1>2, Stored
  <1> QED
    BY <1>1, <1>2, <1>3
       DEF SingleCorrect, Inc, Result, Low, ExactSingle, CarrySingle

LEMMA DecIsExact ==
  ASSUME NEW x \in Words, NEW byte \in BOOLEAN, NEW f \in Flags
  PROVE  SingleCorrect([unit |-> "single", op |-> "DEC", x |-> x, byte |-> byte, f |-> f,
                        r |-> Dec(x, byte, f)])
  <1> DEFINE size == Size(byte)
             h == size \div 2
             u == x % size
             s == Signed(u, size)
             low == (x - 1) % size
             y == High(x, byte) + low
  <1>1. /\ x \in Int /\ size \in Nat /\ h \in Nat /\ u \in Nat /\ s \in Int
        /\ OperandIs(x, size, h, u, s)
    BY OperandOf
  <1>2. low = (s - 1) % size /\ s - 1 \in Int /\ (low = h - 1 <=> ~InRange(s - 1, size))
    <2> HIDE DEF h, u, s, size
    <2> QED  BY <1>1, DecLow
  <1>3. /\ Correct(y, size, NZVC(y, byte, low = h - 1, f.c), s - 1, f.c)
        /\ y % size = low /\ y \div size = x \div size
        /\ NZVC(y, byte, low = h - 1, f.c).v = (low = h - 1)
    <2> HIDE DEF low, s
    <2> QED  BY <1>2, Stored
  <1> QED
    BY <1>1, <1>2, <1>3
       DEF SingleCorrect, Dec, Result, Low, ExactSingle, CarrySingle

LEMMA NegIsExact ==
  ASSUME NEW x \in Words, NEW byte \in BOOLEAN, NEW f \in Flags
  PROVE  SingleCorrect([unit |-> "single", op |-> "NEG", x |-> x, byte |-> byte, f |-> f,
                        r |-> Neg(x, byte)])
  <1> DEFINE size == Size(byte)
             h == size \div 2
             u == x % size
             s == Signed(u, size)
             low == (-x) % size
             y == High(x, byte) + low
  <1>1. /\ x \in Int /\ size \in Nat /\ h \in Nat /\ u \in Nat /\ s \in Int
        /\ OperandIs(x, size, h, u, s)
    BY OperandOf
  <1>2. low = (-s) % size /\ -s \in Int /\ (low = h <=> ~InRange(-s, size)) /\ (low = 0 <=> u = 0)
    <2> HIDE DEF h, u, s, size
    <2> QED  BY <1>1, NegLow
  <1>3. /\ Correct(y, size, NZVC(y, byte, low = h, low # 0), -s, low # 0)
        /\ y % size = low /\ y \div size = x \div size
        /\ NZVC(y, byte, low = h, low # 0).v = (low = h)
    <2> HIDE DEF low, s
    <2> QED  BY <1>2, Stored
  <1> QED
    BY <1>1, <1>2, <1>3
       DEF SingleCorrect, Neg, Result, Low, ExactSingle, CarrySingle, IS_0

LEMMA ComIsExact ==
  ASSUME NEW x \in Words, NEW byte \in BOOLEAN, NEW f \in Flags
  PROVE  SingleCorrect([unit |-> "single", op |-> "COM", x |-> x, byte |-> byte, f |-> f,
                        r |-> Com(x, byte)])
  <1> DEFINE size == Size(byte)
             h == size \div 2
             u == x % size
             s == Signed(u, size)
             v == FALSE
             carry == TRUE
             low == size - 1 - u
             y == High(x, byte) + low
  <1>1. /\ x \in Int /\ size \in Nat /\ h \in Nat /\ u \in Nat /\ s \in Int
        /\ OperandIs(x, size, h, u, s)
    BY OperandOf
  <1>2. low = (-1 - s) % size /\ -1 - s \in Int /\ InRange(-1 - s, size)
    <2> HIDE DEF h, u, s, size
    <2> QED  BY <1>1, ComLow
  <1>3. /\ Correct(y, size, NZVC(y, byte, v, carry), -1 - s, carry)
        /\ y % size = low /\ y \div size = x \div size
        /\ NZVC(y, byte, v, carry).v = (v)
    <2> HIDE DEF low, s, v, carry
    <2> QED  BY <1>2, Stored
  <1> QED
    BY <1>1, <1>2, <1>3
       DEF SingleCorrect, Com, Result, Low, ExactSingle, CarrySingle

LEMMA ClrIsExact ==
  ASSUME NEW x \in Words, NEW byte \in BOOLEAN, NEW f \in Flags
  PROVE  SingleCorrect([unit |-> "single", op |-> "CLR", x |-> x, byte |-> byte, f |-> f,
                        r |-> Clr(x, byte)])
  <1> DEFINE size == Size(byte)
             h == size \div 2
             u == x % size
             s == Signed(u, size)
             v == FALSE
             carry == FALSE
             low == 0
             y == High(x, byte) + low
  <1>1. /\ x \in Int /\ size \in Nat /\ h \in Nat /\ u \in Nat /\ s \in Int
        /\ OperandIs(x, size, h, u, s)
    BY OperandOf
  <1>2. low = (0) % size /\ 0 \in Int /\ InRange(0, size)
    <2> HIDE DEF h, u, s, size
    <2> QED  BY <1>1, TstLow
  <1>3. /\ Correct(y, size, NZVC(y, byte, v, carry), 0, carry)
        /\ y % size = low /\ y \div size = x \div size
        /\ NZVC(y, byte, v, carry).v = (v)
    <2> HIDE DEF low, s, v, carry
    <2> QED  BY <1>2, Stored
  <1>4. y = High(x, byte)
    BY <1>1 DEF High, Low, OperandIs
  <1>5. LET Y == High(x, byte)
        IN  Y % size = 0 /\ Y \div size = x \div size /\ Signed(Y, size) = 0
    <2> HIDE DEF y
    <2> QED  BY <1>1, <1>3, <1>4 DEF Signed, Top, OperandIs
  <1>6. Correct(High(x, byte), size, [n |-> FALSE, z |-> TRUE, v |-> FALSE, c |-> FALSE], 0, FALSE)
    <2> DEFINE Y == High(x, byte)
    <2>1. Y % size = 0 % size
      BY <1>2, <1>5
    <2>2. FALSE = (Signed(Y, size) < 0)
      BY <1>5
    <2>3. TRUE = (Y % size = 0)
      BY <1>5
    <2> HIDE DEF size
    <2> QED  BY <2>1, <2>2, <2>3 DEF Correct
  <1> QED
    BY <1>2, <1>5, <1>6
       DEF SingleCorrect, Clr, Result, Low, ExactSingle, CarrySingle

LEMMA TstIsExact ==
  ASSUME NEW x \in Words, NEW byte \in BOOLEAN, NEW f \in Flags
  PROVE  SingleCorrect([unit |-> "single", op |-> "TST", x |-> x, byte |-> byte, f |-> f,
                        r |-> Tst(x, byte)])
  <1> DEFINE size == Size(byte)
             h == size \div 2
             u == x % size
             s == Signed(u, size)
             v == FALSE
             carry == FALSE
             low == u
             y == High(x, byte) + low
  <1>1. /\ x \in Int /\ size \in Nat /\ h \in Nat /\ u \in Nat /\ s \in Int
        /\ OperandIs(x, size, h, u, s)
    BY OperandOf
  <1>2. low = (s) % size /\ s \in Int /\ InRange(s, size)
    <2> HIDE DEF h, u, s, size
    <2> QED  BY <1>1, TstLow
  <1>3. /\ Correct(y, size, NZVC(y, byte, v, carry), s, carry)
        /\ y % size = low /\ y \div size = x \div size
        /\ NZVC(y, byte, v, carry).v = (v)
    <2> HIDE DEF low, s, v, carry
    <2> QED  BY <1>2, Stored
  <1>4. y = x
    <2>1. CASE byte
      <3>1. High(x, byte) = x - u
        BY <2>1 DEF High, Low
      <3> HIDE DEF u
      <3> QED  BY <1>1, <3>1
    <2>2. CASE ~byte
      <3>1. x \in 0 .. size - 1 /\ High(x, byte) = 0
        BY <2>2 DEF Words, Size, High
      <3>2. x % size = x
        <4> HIDE DEF size
        <4> QED  BY <1>1, <3>1, Wrapped
      <3> QED  BY <1>1, <3>1, <3>2
    <2> QED  BY <2>1, <2>2
  <1> QED
    BY <1>1, <1>2, <1>3, <1>4
       DEF SingleCorrect, Tst, Result, Low, ExactSingle, CarrySingle

LEMMA AdcIsExact ==
  ASSUME NEW x \in Words, NEW byte \in BOOLEAN, NEW f \in Flags
  PROVE  SingleCorrect([unit |-> "single", op |-> "ADC", x |-> x, byte |-> byte, f |-> f,
                        r |-> Adc(x, byte, f)])
  <1> DEFINE size == Size(byte)
             h == size \div 2
             u == x % size
             s == Signed(u, size)
             c == Bit(f.c)
             low == (x + c) % size
             y == High(x, byte) + low
  <1>1. /\ x \in Int /\ size \in Nat /\ h \in Nat /\ u \in Nat /\ s \in Int
        /\ OperandIs(x, size, h, u, s)
    BY OperandOf
  <1>0. IsBit(c) /\ c \in {0, 1} /\ (f.c <=> c = 1) /\ f.c \in BOOLEAN
    BY DEF Bit, Flags, IsBit
  <1>2. low = (s + c) % size /\ s + c \in Int
        /\ (u = h - 1 /\ f.c <=> ~InRange(s + c, size))
        /\ (u = size - 1 /\ f.c <=> u + c >= size)
    <2> HIDE DEF h, u, s, size, c
    <2>1. /\ (x + c) % size = (s + c) % size
          /\ (u = h - 1 /\ c = 1 <=> ~InRange(s + c, size))
          /\ (u = size - 1 /\ c = 1 <=> u + c >= size)
      BY <1>0, <1>1, AdcLow
    <2> QED  BY <1>0, <1>1, <2>1
  <1>3. /\ Correct(y, size, NZVC(y, byte, u = h - 1 /\ f.c, u = size - 1 /\ f.c),
           s + c, u = size - 1 /\ f.c)
        /\ y % size = low /\ y \div size = x \div size
        /\ NZVC(y, byte, u = h - 1 /\ f.c, u = size - 1 /\ f.c).v = (u = h - 1 /\ f.c)
    <2> HIDE DEF low, s, c
    <2> QED  BY <1>2, Stored
  <1> QED
    BY <1>1, <1>2, <1>3, <1>0
       DEF SingleCorrect, Adc, Result, Low, ExactSingle, CarrySingle

LEMMA SbcIsExact ==
  ASSUME NEW x \in Words, NEW byte \in BOOLEAN, NEW f \in Flags
  PROVE  SingleCorrect([unit |-> "single", op |-> "SBC", x |-> x, byte |-> byte, f |-> f,
                        r |-> Sbc(x, byte, f)])
  <1> DEFINE size == Size(byte)
             h == size \div 2
             u == x % size
             s == Signed(u, size)
             c == Bit(f.c)
             low == (x - c) % size
             y == High(x, byte) + low
  <1>1. /\ x \in Int /\ size \in Nat /\ h \in Nat /\ u \in Nat /\ s \in Int
        /\ OperandIs(x, size, h, u, s)
    BY OperandOf
  <1>0. IsBit(c) /\ c \in {0, 1} /\ (f.c <=> c = 1) /\ f.c \in BOOLEAN
    BY DEF Bit, Flags, IsBit
  <1>2. low = (s - c) % size /\ s - c \in Int
        /\ (u = h /\ f.c <=> ~InRange(s - c, size))
        /\ (u = 0 /\ f.c <=> u - c < 0)
    <2> HIDE DEF h, u, s, size, c
    <2>1. /\ (x - c) % size = (s - c) % size
          /\ (u = h /\ c = 1 <=> ~InRange(s - c, size))
          /\ (u = 0 /\ c = 1 <=> u - c < 0)
      BY <1>0, <1>1, SbcLow
    <2> QED  BY <1>0, <1>1, <2>1
  <1>3. /\ Correct(y, size, NZVC(y, byte, u = h /\ f.c, u = 0 /\ f.c), s - c, u = 0 /\ f.c)
        /\ y % size = low /\ y \div size = x \div size
        /\ NZVC(y, byte, u = h /\ f.c, u = 0 /\ f.c).v = (u = h /\ f.c)
    <2> HIDE DEF low, s, c
    <2> QED  BY <1>2, Stored
  <1> QED
    BY <1>1, <1>2, <1>3, <1>0
       DEF SingleCorrect, Sbc, Result, Low, ExactSingle, CarrySingle, IS_0

LEMMA RolIsExact ==
  ASSUME NEW x \in Words, NEW byte \in BOOLEAN, NEW f \in Flags
  PROVE  SingleCorrect([unit |-> "single", op |-> "ROL", x |-> x, byte |-> byte, f |-> f,
                        r |-> Rol(x, byte, f)])
  <1> DEFINE size == Size(byte)
             h == size \div 2
             u == x % size
             s == Signed(u, size)
             c == Bit(f.c)
             low == (2 * x + c) % size
             y == High(x, byte) + low
  <1>1. /\ x \in Int /\ size \in Nat /\ h \in Nat /\ u \in Nat /\ s \in Int
        /\ OperandIs(x, size, h, u, s)
    BY OperandOf
  <1>0. IsBit(c) /\ c \in {0, 1} /\ (f.c <=> c = 1) /\ f.c \in BOOLEAN
    BY DEF Bit, Flags, IsBit
  <1>2. low = (2 * s + c) % size /\ 2 * s + c \in Int
        /\ ((low >= h) # (u >= h) <=> ~InRange(2 * s + c, size))
        /\ (u >= h <=> 2 * u >= size)
    <2> HIDE DEF h, u, s, size, c
    <2>1. /\ (2 * x + c) % size = (2 * s + c) % size
          /\ (((2 * x + c) % size >= h) # (u >= h) <=> ~InRange(2 * s + c, size))
          /\ (u >= h <=> 2 * u >= size)
      BY <1>0, <1>1, LeftLow
    <2> QED  BY <1>0, <1>1, <2>1
  <1>3. /\ Correct(y, size, NZVC(y, byte, (low >= h) # (u >= h), u >= h), 2 * s + c, u >= h)
        /\ y % size = low /\ y \div size = x \div size
        /\ NZVC(y, byte, (low >= h) # (u >= h), u >= h).v = ((low >= h) # (u >= h))
    <2> HIDE DEF low, s, c
    <2> QED  BY <1>2, Stored
  <1> QED
    BY <1>1, <1>2, <1>3, <1>0
       DEF SingleCorrect, Rol, Result, Low, ExactSingle, CarrySingle, Rotated, SIGN, Top

LEMMA AslIsExact ==
  ASSUME NEW x \in Words, NEW byte \in BOOLEAN, NEW f \in Flags
  PROVE  SingleCorrect([unit |-> "single", op |-> "ASL", x |-> x, byte |-> byte, f |-> f,
                        r |-> Asl(x, byte)])
  <1> DEFINE size == Size(byte)
             h == size \div 2
             u == x % size
             s == Signed(u, size)
             c == 0
             low == (2 * x) % size
             y == High(x, byte) + low
  <1>1. /\ x \in Int /\ size \in Nat /\ h \in Nat /\ u \in Nat /\ s \in Int
        /\ OperandIs(x, size, h, u, s)
    BY OperandOf
  <1>0. IsBit(c) /\ c = 0 /\ c \in Int
    BY DEF IsBit
  <1>2. low = (2 * s) % size /\ 2 * s \in Int
        /\ ((low >= h) # (u >= h) <=> ~InRange(2 * s, size))
        /\ (u >= h <=> 2 * u >= size)
    <2> HIDE DEF h, u, s, size, c
    <2>1. /\ (2 * x + c) % size = (2 * s + c) % size
          /\ (((2 * x + c) % size >= h) # (u >= h) <=> ~InRange(2 * s + c, size))
          /\ (u >= h <=> 2 * u >= size)
      BY <1>0, <1>1, LeftLow
    <2> QED  BY <1>0, <1>1, <2>1
  <1>3. /\ Correct(y, size, NZVC(y, byte, (low >= h) # (u >= h), u >= h), 2 * s, u >= h)
        /\ y % size = low /\ y \div size = x \div size
        /\ NZVC(y, byte, (low >= h) # (u >= h), u >= h).v = ((low >= h) # (u >= h))
    <2> HIDE DEF low, s, c
    <2> QED  BY <1>2, Stored
  <1> QED
    BY <1>1, <1>2, <1>3, <1>0
       DEF SingleCorrect, Asl, Result, Low, ExactSingle, CarrySingle, Rotated, SIGN, Top

LEMMA RorIsExact ==
  ASSUME NEW x \in Words, NEW byte \in BOOLEAN, NEW f \in Flags
  PROVE  SingleCorrect([unit |-> "single", op |-> "ROR", x |-> x, byte |-> byte, f |-> f,
                        r |-> Ror(x, byte, f)])
  <1> DEFINE size == Size(byte)
             h == size \div 2
             u == x % size
             s == Signed(u, size)
             c == Bit(f.c)
             low == (u \div 2) + c * h
             y == High(x, byte) + low
  <1>1. /\ x \in Int /\ size \in Nat /\ h \in Nat /\ u \in Nat /\ s \in Int
        /\ OperandIs(x, size, h, u, s)
    BY OperandOf
  <1>0. IsBit(c) /\ c \in {0, 1} /\ (f.c <=> c = 1) /\ f.c \in BOOLEAN
    BY DEF Bit, Flags, IsBit
  <1>2. low = ((u \div 2) - c * h) % size /\ (u \div 2) - c * h \in Int
        /\ low \in Int /\ x % 2 = u % 2
    <2> HIDE DEF h, u, s, size, c
    <2>1. Halved(x, size, h, u, s, c)
      BY <1>0, <1>1, RightLow
    <2> QED  BY <1>0, <1>1, <2>1 DEF Halved
  <1>3. /\ Correct(y, size, NZVC(y, byte, (low >= h) # (x % 2 = 1), x % 2 = 1),
           (u \div 2) - c * h, x % 2 = 1)
        /\ y % size = low /\ y \div size = x \div size
        /\ NZVC(y, byte, (low >= h) # (x % 2 = 1), x % 2 = 1).v = ((low >= h) # (x % 2 = 1))
    <2> HIDE DEF low, s, c
    <2> QED  BY <1>2, Stored
  <1>4. High(x, byte) + (u \div 2) + c * h = y
    <2>1. High(x, byte) \in Int
      BY <1>1 DEF High, Low
    <2> HIDE DEF u, c, h
    <2> QED  BY <1>0, <1>1, <2>1
  <1>5. Ror(x, byte, f) = Result(y, NZVC(y, byte, (low >= h) # (x % 2 = 1), x % 2 = 1))
    <2>1. Ror(x, byte, f) = Result(y, Rotated(y, byte, x % 2 = 1))
      BY <1>4 DEF Ror, Low
    <2>2. SIGN(y, byte) = (low >= h)
      BY <1>3 DEF SIGN, Top
    <2> QED  BY <2>1, <2>2 DEF Rotated
  <1>6. NZVC(y, byte, (low >= h) # (x % 2 = 1), x % 2 = 1).n = (low >= h)
    BY <1>3 DEF NZVC, SIGN, Top
  <1>7. NZVC(y, byte, (low >= h) # (x % 2 = 1), x % 2 = 1).c = (x % 2 = 1)
    BY DEF NZVC
  <1> HIDE DEF y, low, h
  <1> QED
    BY <1>2, <1>3, <1>5, <1>6, <1>7, <1>0
       DEF SingleCorrect, Result, ExactSingle, CarrySingle, h

LEMMA AsrIsExact ==
  ASSUME NEW x \in Words, NEW byte \in BOOLEAN, NEW f \in Flags
  PROVE  SingleCorrect([unit |-> "single", op |-> "ASR", x |-> x, byte |-> byte, f |-> f,
                        r |-> Asr(x, byte)])
  <1> DEFINE size == Size(byte)
             h == size \div 2
             u == x % size
             s == Signed(u, size)
             c == 0
             b == IF u >= h THEN h ELSE 0
             low == (u \div 2) + b
             y == High(x, byte) + low
  <1>1. /\ x \in Int /\ size \in Nat /\ h \in Nat /\ u \in Nat /\ s \in Int
        /\ OperandIs(x, size, h, u, s)
    BY OperandOf
  <1>0. IsBit(c) /\ c = 0 /\ c \in Int
    BY DEF IsBit
  <1>2. low = (s \div 2) % size /\ s \div 2 \in Int
        /\ low \in Int /\ x % 2 = u % 2
    <2> HIDE DEF h, u, s, size, c
    <2>1. Halved(x, size, h, u, s, c)
      BY <1>0, <1>1, RightLow
    <2> QED  BY <1>0, <1>1, <2>1 DEF Halved
  <1>3. /\ Correct(y, size, NZVC(y, byte, (low >= h) # (x % 2 = 1), x % 2 = 1), s \div 2, x % 2 = 1)
        /\ y % size = low /\ y \div size = x \div size
        /\ NZVC(y, byte, (low >= h) # (x % 2 = 1), x % 2 = 1).v = ((low >= h) # (x % 2 = 1))
    <2> HIDE DEF low, s, c
    <2> QED  BY <1>2, Stored
  <1>4. High(x, byte) + (u \div 2) + Bit(SIGN(x, byte)) * h = y
    <2>1. High(x, byte) \in Int
      BY <1>1 DEF High, Low
    <2>2. Bit(SIGN(x, byte)) * h = b
      <3>1. SIGN(x, byte) <=> u >= h
        BY DEF SIGN, Top
      <3> HIDE DEF u, h
      <3> QED  BY <1>1, <3>1 DEF Bit, b
    <2>3. b \in Int
      BY <1>1
    <2> HIDE DEF u, c, h, b
    <2> QED  BY <1>0, <1>1, <2>1, <2>2, <2>3
  <1>5. Asr(x, byte) = Result(y, NZVC(y, byte, (low >= h) # (x % 2 = 1), x % 2 = 1))
    <2>1. Asr(x, byte) = Result(y, Rotated(y, byte, x % 2 = 1))
      BY <1>4 DEF Asr, Low
    <2>2. SIGN(y, byte) = (low >= h)
      BY <1>3 DEF SIGN, Top
    <2> QED  BY <2>1, <2>2 DEF Rotated
  <1>6. NZVC(y, byte, (low >= h) # (x % 2 = 1), x % 2 = 1).n = (low >= h)
    BY <1>3 DEF NZVC, SIGN, Top
  <1>7. NZVC(y, byte, (low >= h) # (x % 2 = 1), x % 2 = 1).c = (x % 2 = 1)
    BY DEF NZVC
  <1> HIDE DEF y, low, h
  <1> QED
    BY <1>2, <1>3, <1>5, <1>6, <1>7
       DEF SingleCorrect, Result, ExactSingle, CarrySingle, h

LEMMA SxtIsExact ==
  ASSUME NEW x \in Words, NEW byte \in BOOLEAN, ~byte, NEW f \in Flags
  PROVE  SingleCorrect([unit |-> "single", op |-> "SXT", x |-> x, byte |-> byte, f |-> f,
                        r |-> Sxt(f)])
  <1> DEFINE size == Size(byte)
             h == size \div 2
             y == IF f.n THEN size - 1 ELSE 0
             exact == IF f.n THEN -1 ELSE 0
             flags == [n |-> f.n, z |-> ~f.n, v |-> FALSE, c |-> f.c]
  <1>1. f.n \in BOOLEAN /\ f.c \in BOOLEAN
    BY DEF Flags
  <1>2. size \in Nat /\ h \in Nat /\ h >= 1 /\ size = 2 * h /\ size > 0
    BY SizeIsEven
  <1>3. y % size = y /\ exact % size = y /\ x % size = x /\ x \in 0 .. size - 1 /\ x \in Int
    <2>1. x \in 0 .. size - 1 /\ x \in Int
      BY Sizes DEF Words, Size
    <2>2. y \in 0 .. size - 1 /\ exact \in {-1, 0} /\ y = IF exact < 0 THEN exact + size ELSE exact
      BY <1>1, <1>2
    <2> HIDE DEF size, y, exact
    <2> QED  BY <1>2, <2>1, <2>2, Wrapped
  <1>4. y \div size = x \div size
    <2>1. y \in 0 .. size - 1
      BY <1>1, <1>2
    <2>2. \A v \in 0 .. size - 1 : v \div size = 0
      <3> HIDE DEF size
      <3> QED  BY <1>2
    <2> HIDE DEF size, y
    <2> QED  BY <1>3, <2>1, <2>2
  <1>5. Correct(y, size, flags, exact, f.c)
    <2>1. Signed(y, size) = exact
      <3>1. y \in 0 .. size - 1
        BY <1>1, <1>2
      <3>2. Signed(y, size) = IF y < h THEN y ELSE y - size
        <4> HIDE DEF size, h, y
        <4> QED  BY <1>2, <3>1, SignedValue
      <3> QED  BY <1>1, <1>2, <3>2
    <2>2. f.n = (exact < 0) /\ (~f.n) = (y = 0)
      BY <1>1, <1>2
    <2> HIDE DEF size, y, exact
    <2> QED  BY <1>1, <1>3, <2>1, <2>2 DEF Correct
  <1>6. InRange(exact, size)
    BY <1>1, <1>2 DEF InRange
  <1>7. Sxt(f) = Result(y, flags)
    BY DEF Sxt, Size
  <1>8. ExactSingle("SXT", x % size, size, f) = exact /\ CarrySingle("SXT", x % size, size, f) = f.c
    BY DEF ExactSingle, CarrySingle
  <1>9. flags.v = FALSE
    OBVIOUS
  <1> DEFINE t == [unit |-> "single", op |-> "SXT", x |-> x, byte |-> byte, f |-> f, r |-> Sxt(f)]
  <1> HIDE DEF y, exact, flags
  <1>10. t.r.value = y /\ t.r.flags = flags
    BY <1>7 DEF Result
  <1> QED
    <2>1. t.op = "SXT" /\ t.x = x /\ t.byte = byte /\ t.f = f
      OBVIOUS
    <2> HIDE DEF t
    <2>2. SingleCorrect(t)
      BY <1>4, <1>5, <1>6, <1>8, <1>9, <1>10, <2>1 DEF SingleCorrect
    <2> QED  BY <2>2 DEF t

\* The bits of a word of two halves of b values: the low half has the bits
\* below, the high half those from b on.
Splits(b, p, q) == p > 0 /\ q > 0 /\ b = 2 * p * q
TwoHalves(b, p, hi, lo) ==
  /\ ((hi * b + lo) \div p) % 2 = (lo \div p) % 2
  /\ (hi * b + lo) \div (b * p) = hi \div p

LEMMA BitsOfHalves ==
  ASSUME NEW b \in Int, NEW p \in Int, NEW q \in Int, Splits(b, p, q),
         NEW hi \in Int, NEW lo \in 0 .. b - 1
  PROVE  TwoHalves(b, p, hi, lo)
  <1>0. p > 0 /\ q > 0 /\ b = 2 * p * q
    BY DEF Splits
  <1>1. p \in Int /\ b > 0
    BY <1>0
  <1> DEFINE k == lo \div p
             r == lo % p
             y == hi * b + lo
  <1>2. k \in Int /\ r \in 0 .. p - 1 /\ lo = k * p + r
    BY <1>0, DivMod
  <1>3. y = (2 * hi * q + k) * p + r
    <2>1. hi * b = (2 * hi * q) * p
      BY <1>0
    <2> HIDE DEF k, r
    <2> QED  BY <1>2, <2>1
  <1>4. y \div p = k + (hi * q) * 2
    <2> DEFINE m == 2 * hi * q + k
    <2>1. m \in Int
      BY <1>2
    <2>2. (m * p + r) \div p = m
      <3> HIDE DEF m, k, r
      <3> QED  BY <1>0, <1>2, <2>1, DivModUnique
    <2> HIDE DEF k, r, y
    <2> QED  BY <1>2, <1>3, <2>2
  <1>5. (k + (hi * q) * 2) % 2 = k % 2
    <2> HIDE DEF k
    <2> QED  BY <1>2, SameRemainder
  <1>6. y \div b = hi
    BY <1>1, DivModUnique
  <1>7. y \div (b * p) = hi \div p
    <2>1. y \in Int
      OBVIOUS
    <2>2. (y \div b) \div p = y \div (b * p)
      <3> HIDE DEF y
      <3> QED  BY ONLY <1>1, <2>1, b \in Int, <1>0, DivDiv
    <2> QED  BY <1>6, <2>2
  <1> QED  BY <1>4, <1>5, <1>7 DEF TwoHalves

LEMMA PowerFactors ==
  ASSUME NEW n \in 1..8, NEW j \in 0 .. n - 1
  PROVE  \E p, q \in Nat \ {0} :
           Power(j) = p /\ Power(n) = 2 * p * q /\ Power(n + j) = Power(n) * p
  <1> DEFINE m == n - 1 - j
             i == j + 1
  <1>1. m \in 0..8 /\ i \in 0..8 /\ i + m = n /\ n \in 0..8 /\ j \in 0..8 /\ 1 \in 0..8
    OBVIOUS
  <1>2. Power(i + m) = Power(i) * Power(m)
    <2> HIDE DEF i, m
    <2> QED  BY <1>1, PowerOfSum
  <1>3. Power(j + 1) = Power(j) * Power(1) /\ Power(n + j) = Power(n) * Power(j)
    BY ONLY <1>1, PowerOfSum
  <1>4. Power(j) \in Nat \ {0} /\ Power(m) \in Nat \ {0} /\ Power(1) = 2
    <2> HIDE DEF m
    <2> QED  BY <1>1, PowerIsPositive, Powers
  <1>5. Power(n) = 2 * Power(j) * Power(m)
    BY <1>1, <1>2, <1>3, <1>4
  <1> QED  BY <1>3, <1>4, <1>5

LEMMA SwabIsExact ==
  ASSUME NEW x \in Words, NEW byte \in BOOLEAN, ~byte, NEW f \in Flags
  PROVE  SingleCorrect([unit |-> "single", op |-> "SWAB", x |-> x, byte |-> byte, f |-> f,
                        r |-> Swab(x)])
  <1>1. PICK n \in 1..8 : WordBits = 2 * n
    BY WordBitsAssumption
  <1> DEFINE b == ByteSize
             hi == x \div b
             lo == x % b
             y == lo * b + hi
             flags == NZVC(y, TRUE, FALSE, FALSE)
             t == [unit |-> "single", op |-> "SWAB", x |-> x, byte |-> byte, f |-> f,
                   r |-> Swab(x)]
  <1>2. b = Power(n)
    BY <1>1 DEF ByteSize, Power
  <1>3. hi \in 0 .. b - 1 /\ lo \in 0 .. b - 1 /\ x = hi * b + lo /\ b \in Nat /\ b > 0
    BY Sizes DEF Words
  <1>4. \A z \in Int, k \in 0 .. 15 : BitOf(z, k) = (z \div Power(k)) % 2
    BY DEF BitOf, Power
  <1>5. ASSUME NEW j \in 0 .. n - 1
        PROVE  BitOf(y, j) = BitOf(x, n + j) /\ BitOf(y, n + j) = BitOf(x, j)
    <2>1. PICK p \in Nat \ {0}, q \in Nat \ {0} :
            Power(j) = p /\ Power(n) = 2 * p * q /\ Power(n + j) = Power(n) * p
      BY PowerFactors
    <2>2. /\ (x \div p) % 2 = (lo \div p) % 2 /\ x \div (b * p) = hi \div p
          /\ (y \div p) % 2 = (hi \div p) % 2 /\ y \div (b * p) = lo \div p
      <3>1. b = 2 * p * q /\ p > 0 /\ q > 0 /\ p \in Int /\ q \in Int /\ b \in Int
        BY <1>2, <1>3, <2>1
      <3> HIDE DEF b, hi, lo
      <3>2. hi \in Int /\ lo \in Int /\ hi \in 0 .. b - 1 /\ lo \in 0 .. b - 1
        BY <1>3, <3>1
      <3>3. Splits(b, p, q)
        BY <3>1 DEF Splits
      <3>4. TwoHalves(b, p, hi, lo) /\ TwoHalves(b, p, lo, hi)
        BY ONLY <3>1, <3>2, <3>3, BitsOfHalves
      <3>5. x = hi * b + lo
        BY <1>3
      <3> DEFINE z == hi * b + lo
      <3>6. (z \div p) % 2 = (lo \div p) % 2 /\ z \div (b * p) = hi \div p /\ x = z
        BY <3>4, <3>5 DEF TwoHalves
      <3>7. (x \div p) % 2 = (lo \div p) % 2 /\ x \div (b * p) = hi \div p
        <4> HIDE DEF z
        <4> QED  BY <3>6
      <3> QED  BY <3>4, <3>7 DEF TwoHalves
    <2>3. y \in Int /\ x \in Int /\ j \in 0 .. 15 /\ n + j \in 0 .. 15
      BY <1>3
    <2> HIDE DEF b, hi, lo, y
    <2> QED  BY <1>2, <1>4, <2>1, <2>2, <2>3
  <1>6. \A k \in 0 .. WordBits - 1 :
          BitOf(y, k) = BitOf(x, (k + WordBits \div 2) % WordBits)
    <2> SUFFICES ASSUME NEW k \in 0 .. 2 * n - 1
                 PROVE  BitOf(y, k) = BitOf(x, (k + n) % (2 * n))
      <3>1. WordBits \div 2 = n
        BY <1>1
      <3> HIDE DEF y
      <3> QED  BY <1>1, <3>1
    <2> HIDE DEF y
    <2>1. CASE k < n
      <3>1. (k + n) % (2 * n) = n + k /\ k \in 0 .. n - 1
        BY <2>1
      <3> QED  BY <1>5, <3>1
    <2>2. CASE k >= n
      <3> DEFINE j == k - n
      <3>1. j \in 0 .. n - 1 /\ n + j = k
        BY <2>2
      <3>2. (k + n) % (2 * n) = j
        BY <2>2
      <3> HIDE DEF j
      <3> QED  BY <1>5, <3>1, <3>2
    <2> QED  BY <2>1, <2>2
  <1>7. flags = [n |-> Signed(y, ByteSize) < 0, z |-> y % ByteSize = 0,
                 v |-> FALSE, c |-> FALSE]
    <2>1. (y % ByteSize >= ByteSize \div 2) = (Signed(y, ByteSize) < 0)
      <3>1. y % b \in 0 .. b - 1
        <4>1. y \in Int
          BY <1>3
        <4> HIDE DEF y, b
        <4> QED  BY <1>3, <4>1, DivMod
      <3> HIDE DEF y
      <3> QED  BY <1>3, <3>1 DEF Signed, Top
    <2>2. Size(TRUE) = ByteSize
      BY DEF Size
    <2> HIDE DEF y
    <2> QED  BY <2>1, <2>2 DEF NZVC, SIGN, Top, IS_0, Low
  <1>8. t.r.value = y /\ t.r.flags = flags
    <2> HIDE DEF flags
    <2> QED  BY DEF Swab, Result, flags
  <1>9. t.op = "SWAB" /\ t.x = x
    BY DEF t
  <1> HIDE DEF t, y, flags
  <1>10. SingleCorrect(t)
    BY <1>6, <1>7, <1>8, <1>9 DEF SingleCorrect
  <1> QED  BY <1>10 DEF t

\* Single operand instructions compute what they should, for every operand.
LEMMA SingleIsExact ==
  ASSUME NEW op \in SingleOps, NEW x \in Words, NEW byte \in BOOLEAN, NEW f \in Flags,
         byte => op \notin WordOnly
  PROVE  SingleCorrect([unit |-> "single", op |-> op, x |-> x, byte |-> byte, f |-> f,
                        r |-> single_operand_instructions(op, x, byte, f)])
  <1> USE DEF single_operand_instructions
  <1>1. CASE op = "SWAB"  BY <1>1, SwabIsExact DEF WordOnly
  <1>2. CASE op = "CLR"   BY <1>2, ClrIsExact
  <1>3. CASE op = "COM"   BY <1>3, ComIsExact
  <1>4. CASE op = "INC"   BY <1>4, IncIsExact
  <1>5. CASE op = "DEC"   BY <1>5, DecIsExact
  <1>6. CASE op = "NEG"   BY <1>6, NegIsExact
  <1>7. CASE op = "ADC"   BY <1>7, AdcIsExact
  <1>8. CASE op = "SBC"   BY <1>8, SbcIsExact
  <1>9. CASE op = "TST"   BY <1>9, TstIsExact
  <1>10. CASE op = "ROR"  BY <1>10, RorIsExact
  <1>11. CASE op = "ROL"  BY <1>11, RolIsExact
  <1>12. CASE op = "ASR"  BY <1>12, AsrIsExact
  <1>13. CASE op = "ASL"  BY <1>13, AslIsExact
  <1>14. CASE op = "SXT"  BY <1>14, SxtIsExact DEF WordOnly
  <1> QED
    BY <1>1, <1>2, <1>3, <1>4, <1>5, <1>6, <1>7, <1>8, <1>9, <1>10, <1>11, <1>12, <1>13, <1>14
       DEF SingleOps

\* Two operands: s is of the size given, and u the low part of the destination.
PairIs(size, h, s, u, ss, su) ==
  /\ h >= 1 /\ size = 2 * h /\ s \in 0 .. size - 1 /\ u \in 0 .. size - 1
  /\ ss = (IF s < h THEN s ELSE s - size) /\ su = (IF u < h THEN u ELSE u - size)

Difference(size, h, s, u, ss, su, t) ==
  /\ t \in 0 .. size - 1 /\ t = (ss - su) % size
  /\ ((s >= h) # (u >= h) /\ ((u >= h) <=> (t >= h)) <=> ~InRange(ss - su, size))

LEMMA DifferenceLow ==
  ASSUME NEW size \in Nat, NEW h \in Nat, NEW s \in Nat, NEW u \in Nat, NEW ss \in Int,
         NEW su \in Int, PairIs(size, h, s, u, ss, su)
  PROVE  Difference(size, h, s, u, ss, su, (s - u) % size)
  <1> DEFINE v == s - u
             w == ss - su
             t == v % size
  <1>1. v \in -size .. 2 * size - 1 /\ w \in -size .. 2 * size - 1 /\ size > 0
    BY DEF PairIs
  <1>2. /\ v % size = IF v < 0 THEN v + size ELSE IF v < size THEN v ELSE v - size
        /\ w % size = IF w < 0 THEN w + size ELSE IF w < size THEN w ELSE w - size
    <2> HIDE DEF v, w
    <2> QED  BY <1>1, Wrapped
  <1>3. t = IF s < u THEN s - u + size ELSE s - u
    BY <1>2 DEF PairIs
  <1>4. t \in 0 .. size - 1 /\ t = w % size
    <2> HIDE DEF t
    <2> QED  BY <1>2, <1>3 DEF PairIs
  <1>5. InRange(w, size) <=> -h <= w /\ w < h
    BY DEF PairIs, InRange
  <1>6. (s >= h) # (u >= h) /\ ((u >= h) <=> (t >= h)) <=> ~(-h <= w /\ w < h)
    <2> HIDE DEF t
    <2> QED  BY <1>3 DEF PairIs
  <1> QED  BY <1>4, <1>5, <1>6 DEF Difference

Total(size, h, s, u, ss, su, t) ==
  /\ t \in 0 .. size - 1 /\ t = (su + ss) % size
  /\ (((s >= h) <=> (u >= h)) /\ (s >= h) # (t >= h) <=> ~InRange(su + ss, size))
  /\ (t < s <=> s + u >= size)

LEMMA TotalLow ==
  ASSUME NEW size \in Nat, NEW h \in Nat, NEW s \in Nat, NEW u \in Nat, NEW ss \in Int,
         NEW su \in Int, PairIs(size, h, s, u, ss, su)
  PROVE  Total(size, h, s, u, ss, su, (u + s) % size)
  <1> DEFINE v == u + s
             w == su + ss
             t == v % size
  <1>1. v \in -size .. 2 * size - 1 /\ w \in -size .. 2 * size - 1 /\ size > 0
    BY DEF PairIs
  <1>2. /\ v % size = IF v < 0 THEN v + size ELSE IF v < size THEN v ELSE v - size
        /\ w % size = IF w < 0 THEN w + size ELSE IF w < size THEN w ELSE w - size
    <2> HIDE DEF v, w
    <2> QED  BY <1>1, Wrapped
  <1>3. t = IF s + u >= size THEN s + u - size ELSE s + u
    BY <1>2 DEF PairIs
  <1>4. t \in 0 .. size - 1 /\ t = w % size /\ (t < s <=> s + u >= size)
    <2> HIDE DEF t
    <2> QED  BY <1>2, <1>3 DEF PairIs
  <1>5. InRange(w, size) <=> -h <= w /\ w < h
    BY DEF PairIs, InRange
  <1>6. ((s >= h) <=> (u >= h)) /\ (s >= h) # (t >= h) <=> ~(-h <= w /\ w < h)
    <2> HIDE DEF t
    <2> QED  BY <1>3 DEF PairIs
  <1> QED  BY <1>4, <1>5, <1>6 DEF Total

LEMMA PairOf ==
  ASSUME NEW byte \in BOOLEAN, NEW s \in Words, NEW d \in Words, byte => s < ByteSize,
         NEW size, NEW h, NEW u, size = Size(byte), h = size \div 2, u = d % size
  PROVE  /\ size \in Nat /\ h \in Nat /\ u \in Nat /\ s \in Nat /\ size > 0
         /\ Signed(s, size) \in Int /\ Signed(u, size) \in Int
         /\ PairIs(size, h, s, u, Signed(s, size), Signed(u, size))
         /\ s % size = s /\ u % size = u
  <1>1. size \in Nat /\ h \in Nat /\ h >= 1 /\ size = 2 * h /\ d \in Int /\ size > 0
    BY SizeIsEven, Sizes DEF Words
  <1>2. s \in 0 .. size - 1
    BY Sizes DEF Words, Size
  <1>3. u \in 0 .. size - 1
    BY <1>1, DivMod
  <1>4. /\ Signed(s, size) = IF s < h THEN s ELSE s - size
        /\ Signed(u, size) = IF u < h THEN u ELSE u - size
    BY ONLY <1>1, <1>2, <1>3, SignedValue
  <1>5. s % size = s /\ u % size = u
    BY ONLY <1>1, <1>2, <1>3, Wrapped
  <1>6. Signed(s, size) \in Int /\ Signed(u, size) \in Int /\ s \in Nat /\ u \in Nat
    BY ONLY <1>1, <1>2, <1>3, <1>4
  <1> QED  BY ONLY <1>1, <1>2, <1>3, <1>4, <1>5, <1>6 DEF PairIs

\* The flags N and Z are those of every number with the same remainder.
LEMMA FlagsTell ==
  ASSUME NEW byte \in BOOLEAN, NEW t \in Int, NEW z \in Int, NEW v, NEW c,
         t \in 0 .. Size(byte) - 1, z % Size(byte) = t
  PROVE  /\ Correct(z, Size(byte), NZVC(t, byte, v, c), z, c)
         /\ NZVC(t, byte, v, c).v = v
  <1>1. t % Size(byte) = t /\ Size(byte) \in Nat /\ Size(byte) > 0 /\ Size(byte) \div 2 >= 1
    BY SizeIsEven, Wrapped
  <1>2. Top(t, Size(byte)) = (Signed(z, Size(byte)) < 0)
    BY <1>1 DEF Signed, Top
  <1> QED  BY <1>1, <1>2 DEF Correct, NZVC, SIGN, IS_0, Low

LEMMA CmpIsExact ==
  ASSUME NEW s \in Words, NEW d \in Words, NEW byte \in BOOLEAN, NEW register \in BOOLEAN,
         NEW f \in SomeFlags, byte => s < ByteSize
  PROVE  DoubleCorrect([unit |-> "double", op |-> "CMP", s |-> s, d |-> d, byte |-> byte,
                        register |-> register, f |-> f, r |-> Cmp(s, d, byte)])
  <1> DEFINE size == Size(byte)
             h == size \div 2
             u == d % size
             ss == Signed(s, size)
             su == Signed(u, size)
             t == (s - u) % size
             v == (s >= h) # (u >= h) /\ ((u >= h) <=> (t >= h))
             c == s < u
             flags == NZVC(t, byte, v, c)
             e == [unit |-> "double", op |-> "CMP", s |-> s, d |-> d, byte |-> byte,
                   register |-> register, f |-> f, r |-> Cmp(s, d, byte)]
  <1>1. /\ size \in Nat /\ h \in Nat /\ u \in Nat /\ s \in Nat /\ size > 0
        /\ ss \in Int /\ su \in Int /\ PairIs(size, h, s, u, ss, su)
        /\ s % size = s /\ u % size = u
    BY PairOf
  <1>2. Difference(size, h, s, u, ss, su, t)
    <2> HIDE DEF size, h, u, ss, su
    <2> QED  BY <1>1, DifferenceLow
  <1>3. /\ t \in 0 .. size - 1 /\ t \in Int /\ t = (ss - su) % size /\ ss - su \in Int
        /\ t % size = t
        /\ (v <=> ~InRange(ss - su, size))
    <2>1. t \in 0 .. size - 1 /\ t = (ss - su) % size /\ (v <=> ~InRange(ss - su, size))
      <3> HIDE DEF size, h, u, ss, su, t
      <3> QED  BY <1>2 DEF Difference
    <2> HIDE DEF size, h, u, ss, su, t, v
    <2> QED  BY <1>1, <2>1, Wrapped
  <1>4. Correct(ss - su, size, flags, ss - su, c) /\ flags.v = v
    <2> HIDE DEF ss, su, t, v, c
    <2> QED  BY <1>3, FlagsTell
  <1>5. Cmp(s, d, byte) = Result(d, flags)
    <2>1. SIGN(s, byte) = (s >= h) /\ SIGN(u, byte) = (u >= h) /\ SIGN(t, byte) = (t >= h)
      <3> HIDE DEF u, t
      <3> QED  BY <1>1, <1>3 DEF SIGN, Top
    <2>2. Low(d, byte) = u /\ Low(s - u, byte) = t
      BY DEF Low
    <2> HIDE DEF u, t
    <2> QED  BY <2>1, <2>2 DEF Cmp
  <1>6. /\ e.op = "CMP" /\ e.s = s /\ e.d = d /\ e.byte = byte /\ e.f = f
        /\ e.r.value = d /\ e.r.flags = flags
    <2> HIDE DEF flags
    <2> QED  BY <1>5 DEF Result
  <1>7. flags.v = ~InRange(ss - su, size)
    <2> HIDE DEF flags, ss, su
    <2> QED  BY <1>3, <1>4
  <1> HIDE DEF e, flags
  <1>8. DoubleCorrect(e)
    <2>1. ExactDouble(e.op, ss, su) = ss - su /\ CarryDouble(e.op, s, u, size, f) = c
      BY <1>6 DEF ExactDouble, CarryDouble
    <2> HIDE DEF ss, su, c
    <2> QED  BY <1>4, <1>6, <1>7, <2>1 DEF DoubleCorrect, ss, su
  <1> QED  BY <1>8 DEF e

LEMMA SubIsExact ==
  ASSUME NEW s \in Words, NEW d \in Words, NEW byte \in BOOLEAN, ~byte,
         NEW register \in BOOLEAN, NEW f \in SomeFlags
  PROVE  DoubleCorrect([unit |-> "double", op |-> "SUB", s |-> s, d |-> d, byte |-> byte,
                        register |-> register, f |-> f, r |-> Sub(s, d)])
  <1> DEFINE size == Size(byte)
             h == size \div 2
             u == d % size
             ss == Signed(s, size)
             su == Signed(u, size)
             t == (u - s) % size
             v == (u >= h) # (s >= h) /\ ((s >= h) <=> (t >= h))
             c == u < s
             flags == NZVC(t, byte, v, c)
             e == [unit |-> "double", op |-> "SUB", s |-> s, d |-> d, byte |-> byte,
                   register |-> register, f |-> f, r |-> Sub(s, d)]
  <1>1. /\ size \in Nat /\ h \in Nat /\ u \in Nat /\ s \in Nat /\ size > 0
        /\ ss \in Int /\ su \in Int /\ PairIs(size, h, s, u, ss, su)
        /\ s % size = s /\ u % size = u
    BY PairOf
  <1>2. d = u /\ size = WordSize
    <2>1. d \in 0 .. size - 1
      BY Sizes DEF Words, Size
    <2>2. size = WordSize
      BY DEF Size
    <2>3. d % size = d
      <3> HIDE DEF size
      <3> QED  BY ONLY <1>1, <2>1, Wrapped
    <2> QED  BY <2>2, <2>3
  <1>3. Difference(size, h, u, s, su, ss, t)
    <2>1. PairIs(size, h, u, s, su, ss)
      <3> HIDE DEF size, h, u, ss, su
      <3> QED  BY <1>1 DEF PairIs
    <2> HIDE DEF size, h, u, ss, su
    <2> QED  BY <1>1, <2>1, DifferenceLow
  <1>4. /\ t \in 0 .. size - 1 /\ t \in Int /\ t = (su - ss) % size /\ su - ss \in Int
        /\ t % size = t
        /\ (v <=> ~InRange(su - ss, size))
        /\ (c <=> CarryDouble("SUB", s, u, size, f))
    <2>1. /\ t \in 0 .. size - 1 /\ t = (su - ss) % size /\ (v <=> ~InRange(su - ss, size))
          /\ (c <=> CarryDouble("SUB", s, u, size, f))
      <3> HIDE DEF size, h, u, ss, su, t
      <3> QED  BY <1>3 DEF Difference, CarryDouble
    <2> HIDE DEF size, h, u, ss, su, t, v, c
    <2> QED  BY <1>1, <2>1, Wrapped
  <1>5. Correct(t, size, flags, su - ss, c) /\ flags.v = v
    <2>1. Correct(t, size, flags, t, c) /\ flags.v = v
      <3> HIDE DEF ss, su, t, v, c
      <3> QED  BY <1>4, FlagsTell
    <2> HIDE DEF ss, su, t, v, c, flags
    <2> QED  BY <1>4, <2>1 DEF Correct
  <1>6. Sub(s, d) = Result(t, flags)
    <2> DEFINE half == WordSize \div 2
               Big(n) == n % WordSize >= half
    <2>1. Sub(s, d) = Result((d - s) % WordSize,
            [n |-> Big((d - s) % WordSize), z |-> ((d - s) % WordSize) % WordSize = 0,
             v |-> Big(d) # Big(s) /\ Big(s) = Big((d - s) % WordSize), c |-> d < s])
      BY DEF Sub, NZVC, SIGN, Top, IS_0, Low, Size
    <2>2. flags = [n |-> t % size >= h, z |-> t % size = 0, v |-> v, c |-> c]
      <3> HIDE DEF t, v, c
      <3> QED  BY DEF NZVC, SIGN, Top, IS_0, Low, flags
    <2>3. s % WordSize = s /\ d % WordSize = d /\ d = u /\ size = WordSize /\ h = half
      BY <1>1, <1>2
    <2>4. (d - s) % WordSize = t /\ t % WordSize = t
      BY <1>2, <1>4
    <2> HIDE DEF size, h, u, t, flags
    <2> QED  BY <2>1, <2>2, <2>3, <2>4
  <1>7. /\ e.op = "SUB" /\ e.s = s /\ e.d = d /\ e.byte = byte /\ e.f = f
        /\ e.r.value = t /\ e.r.flags = flags
    <2> HIDE DEF flags
    <2> QED  BY <1>6 DEF Result
  <1>8. flags.v = ~InRange(su - ss, size)
    <2> HIDE DEF flags, ss, su
    <2> QED  BY <1>4, <1>5
  <1> HIDE DEF e, flags
  <1>9. DoubleCorrect(e)
    <2>1. ExactDouble(e.op, ss, su) = su - ss
      BY <1>7 DEF ExactDouble
    <2>2. CarryDouble(e.op, s, u, size, f) = c
      BY <1>4, <1>7 DEF CarryDouble
    <2> HIDE DEF ss, su, c, t
    <2> QED  BY <1>2, <1>4, <1>5, <1>7, <1>8, <2>1, <2>2 DEF DoubleCorrect, ss, su
  <1> QED  BY <1>9 DEF e

LEMMA AddIsExact ==
  ASSUME NEW s \in Words, NEW d \in Words, NEW byte \in BOOLEAN, ~byte,
         NEW register \in BOOLEAN, NEW f \in SomeFlags
  PROVE  DoubleCorrect([unit |-> "double", op |-> "ADD", s |-> s, d |-> d, byte |-> byte,
                        register |-> register, f |-> f, r |-> Add(s, d)])
  <1> DEFINE size == Size(byte)
             h == size \div 2
             u == d % size
             ss == Signed(s, size)
             su == Signed(u, size)
             t == (u + s) % size
             v == ((s >= h) <=> (u >= h)) /\ (s >= h) # (t >= h)
             c == t < s
             flags == NZVC(t, byte, v, c)
             e == [unit |-> "double", op |-> "ADD", s |-> s, d |-> d, byte |-> byte,
                   register |-> register, f |-> f, r |-> Add(s, d)]
  <1>1. /\ size \in Nat /\ h \in Nat /\ u \in Nat /\ s \in Nat /\ size > 0
        /\ ss \in Int /\ su \in Int /\ PairIs(size, h, s, u, ss, su)
        /\ s % size = s /\ u % size = u
    BY PairOf
  <1>2. d = u /\ size = WordSize
    <2>1. d \in 0 .. size - 1
      BY Sizes DEF Words, Size
    <2>2. size = WordSize
      BY DEF Size
    <2>3. d % size = d
      <3> HIDE DEF size
      <3> QED  BY ONLY <1>1, <2>1, Wrapped
    <2> QED  BY <2>2, <2>3
  <1>3. Total(size, h, s, u, ss, su, t)
    <2>1. PairIs(size, h, s, u, ss, su)
      <3> HIDE DEF size, h, u, ss, su
      <3> QED  BY <1>1 DEF PairIs
    <2> HIDE DEF size, h, u, ss, su
    <2> QED  BY <1>1, <2>1, TotalLow
  <1>4. /\ t \in 0 .. size - 1 /\ t \in Int /\ t = (su + ss) % size /\ su + ss \in Int
        /\ t % size = t
        /\ (v <=> ~InRange(su + ss, size))
        /\ (c <=> CarryDouble("ADD", s, u, size, f))
    <2>1. /\ t \in 0 .. size - 1 /\ t = (su + ss) % size /\ (v <=> ~InRange(su + ss, size))
          /\ (c <=> CarryDouble("ADD", s, u, size, f))
      <3> HIDE DEF size, h, u, ss, su, t
      <3> QED  BY <1>3 DEF Total, CarryDouble
    <2> HIDE DEF size, h, u, ss, su, t, v, c
    <2> QED  BY <1>1, <2>1, Wrapped
  <1>5. Correct(t, size, flags, su + ss, c) /\ flags.v = v
    <2>1. Correct(t, size, flags, t, c) /\ flags.v = v
      <3> HIDE DEF ss, su, t, v, c
      <3> QED  BY <1>4, FlagsTell
    <2> HIDE DEF ss, su, t, v, c, flags
    <2> QED  BY <1>4, <2>1 DEF Correct
  <1>6. Add(s, d) = Result(t, flags)
    <2> DEFINE half == WordSize \div 2
               Big(n) == n % WordSize >= half
    <2>1. Add(s, d) = Result((d + s) % WordSize,
            [n |-> Big((d + s) % WordSize), z |-> ((d + s) % WordSize) % WordSize = 0,
             v |-> Big(s) = Big(d) /\ Big(s) # Big((d + s) % WordSize),
               c |-> ((d + s) % WordSize) < s])
      BY DEF Add, NZVC, SIGN, Top, IS_0, Low, Size
    <2>2. flags = [n |-> t % size >= h, z |-> t % size = 0, v |-> v, c |-> c]
      <3> HIDE DEF t, v, c
      <3> QED  BY DEF NZVC, SIGN, Top, IS_0, Low, flags
    <2>3. s % WordSize = s /\ d % WordSize = d /\ d = u /\ size = WordSize /\ h = half
      BY <1>1, <1>2
    <2>4. (d + s) % WordSize = t /\ t % WordSize = t
      BY <1>2, <1>4
    <2> HIDE DEF size, h, u, t, flags
    <2> QED  BY <2>1, <2>2, <2>3, <2>4
  <1>7. /\ e.op = "ADD" /\ e.s = s /\ e.d = d /\ e.byte = byte /\ e.f = f
        /\ e.r.value = t /\ e.r.flags = flags
    <2> HIDE DEF flags
    <2> QED  BY <1>6 DEF Result
  <1>8. flags.v = ~InRange(su + ss, size)
    <2> HIDE DEF flags, ss, su
    <2> QED  BY <1>4, <1>5
  <1> HIDE DEF e, flags
  <1>9. DoubleCorrect(e)
    <2>1. ExactDouble(e.op, ss, su) = su + ss
      BY <1>7 DEF ExactDouble
    <2>2. CarryDouble(e.op, s, u, size, f) = c
      BY <1>4, <1>7 DEF CarryDouble
    <2> HIDE DEF ss, su, c, t
    <2> QED  BY <1>2, <1>4, <1>5, <1>7, <1>8, <2>1, <2>2 DEF DoubleCorrect, ss, su
  <1> QED  BY <1>9 DEF e

LEMMA MovIsExact ==
  ASSUME NEW s \in Words, NEW d \in Words, NEW byte \in BOOLEAN, NEW register \in BOOLEAN,
         NEW f \in SomeFlags, byte => s < ByteSize
  PROVE  DoubleCorrect([unit |-> "double", op |-> "MOV", s |-> s, d |-> d, byte |-> byte,
                        register |-> register, f |-> f, r |-> Mov(s, byte, register, f)])
  <1> DEFINE size == Size(byte)
             h == size \div 2
             u == d % size
             ss == Signed(s, size)
             su == Signed(u, size)
             y == IF byte /\ register /\ s >= h THEN s + WordSize - ByteSize ELSE s
             v == InRange(ss, size)
             w == FALSE
             flags == NZVC(s, byte, w, f.c)
             e == [unit |-> "double", op |-> "MOV", s |-> s, d |-> d, byte |-> byte,
                   register |-> register, f |-> f, r |-> Mov(s, byte, register, f)]
  <1>1. /\ size \in Nat /\ h \in Nat /\ u \in Nat /\ s \in Nat /\ size > 0
        /\ ss \in Int /\ su \in Int /\ PairIs(size, h, s, u, ss, su)
        /\ s % size = s /\ u % size = u
    BY PairOf
  <1>2. f.c \in BOOLEAN
    BY DEF SomeFlags, AllFlags
  <1>3. v
    <2> HIDE DEF size, h, u, ss, su
    <2> QED  BY <1>1, h = size \div 2 DEF PairIs, InRange, h
  <1>4. ss % size = s /\ s \in 0 .. size - 1
    <2>1. ss % size = IF ss < 0 THEN ss + size ELSE IF ss < size THEN ss ELSE ss - size
      <3>1. ss \in -size .. 2 * size - 1 /\ size \in Nat /\ size > 0
        <4> HIDE DEF size, h, u, ss, su
        <4> QED  BY <1>1 DEF PairIs
      <3> HIDE DEF size, ss
      <3> QED  BY <3>1, Wrapped
    <2> HIDE DEF size, h, u, ss, su
    <2> QED  BY <1>1, <2>1 DEF PairIs
  <1>5. y \in Int /\ y % size = s
    <2>1. CASE byte /\ register /\ s >= h
      <3>1. size = ByteSize /\ y = s + (ByteSize - 1) * ByteSize /\ ByteSize \in Int
        BY <1>1, <2>1, Sizes DEF Size
      <3>2. ByteSize - 1 \in Int /\ ByteSize > 0 /\ s \in Int
        BY <1>1, <3>1
      <3>3. \A k \in Int : (s + k * ByteSize) % ByteSize = s % ByteSize
        BY ONLY <3>1, <3>2, SameRemainder
      <3> HIDE DEF y
      <3>4. (s + (ByteSize - 1) * ByteSize) % ByteSize = s % ByteSize
        BY <3>2, <3>3
      <3> QED  BY <1>1, <3>1, <3>2, <3>4
    <2>2. CASE ~(byte /\ register /\ s >= h)
      <3>1. y = s
        BY <2>2
      <3> HIDE DEF y, size
      <3> QED  BY <1>1, <3>1
    <2> QED  BY <2>1, <2>2
  <1>6. y = IF byte /\ ~register THEN s ELSE ss % WordSize
    <2>1. CASE byte /\ register
      <3>1. size = ByteSize /\ ByteSize >= 2
            /\ ByteSize \in Int /\ WordSize \in Nat /\ WordSize > ByteSize
        BY <2>1, Sizes DEF Size
      <3>2. ss \in -WordSize .. 2 * WordSize - 1 /\ ss < WordSize
            /\ ss = (IF s < h THEN s ELSE s - size)
        <4> HIDE DEF size, h, u, ss, su
        <4> QED  BY <1>1, <3>1 DEF PairIs
      <3>3. ss % WordSize = IF ss < 0 THEN ss + WordSize
            ELSE IF ss < WordSize THEN ss ELSE ss - WordSize
        <4> HIDE DEF ss
        <4> QED  BY <3>1, <3>2, Wrapped
      <3>4. y = IF s >= h THEN s + WordSize - ByteSize ELSE s
        BY <2>1
      <3>5. s \in 0 .. size - 1
        BY <1>4
      <3> HIDE DEF size, h, u, ss, su, y
      <3> QED  BY <1>1, <2>1, <3>1, <3>2, <3>3, <3>4, <3>5
    <2>2. CASE ~byte
      <3>1. size = WordSize /\ y = s
        BY <2>2 DEF Size
      <3> HIDE DEF size, y, ss
      <3> QED  BY <1>4, <2>2, <3>1
    <2>3. CASE byte /\ ~register
      BY <2>3
    <2> QED  BY <2>1, <2>2, <2>3
  <1>7. Correct(y, size, flags, ss, f.c) /\ flags.v = w
    <2>1. Correct(y, size, flags, y, f.c) /\ flags.v = w
      <3> HIDE DEF ss, y, w
      <3> QED  BY <1>1, <1>4, <1>5, FlagsTell
    <2> HIDE DEF ss, y, w, flags
    <2> QED  BY <1>4, <1>5, <2>1 DEF Correct
  <1>8. Mov(s, byte, register, f) = Result(y, flags)
    <2>1. byte => (SIGN(s, TRUE) <=> s >= h)
      <3>1. byte => size = ByteSize /\ Size(TRUE) = ByteSize
        BY DEF Size
      <3>2. SIGN(s, TRUE) <=> s % Size(TRUE) >= Size(TRUE) \div 2
        BY DEF SIGN, Top
      <3>3. s % size = s
        BY <1>1
      <3> HIDE DEF size
      <3> QED  BY <3>1, <3>2, <3>3
    <2>2. setPSW_flags_nzv(f, s, byte) = flags
      BY DEF setPSW_flags_nzv, w
    <2>3. (IF byte /\ register /\ SIGN(s, TRUE) THEN s + WordSize - ByteSize ELSE s) = y
      BY <2>1
    <2> HIDE DEF y, flags
    <2> QED  BY <2>2, <2>3 DEF Mov
  <1>9. /\ e.op = "MOV" /\ e.s = s /\ e.d = d /\ e.byte = byte /\ e.f = f /\ e.register = register
        /\ e.r.value = y /\ e.r.flags = flags
    <2> HIDE DEF flags, y
    <2> QED  BY <1>8 DEF Result
  <1> HIDE DEF e, flags
  <1>10. DoubleCorrect(e)
    <2>1. ExactDouble(e.op, ss, su) = ss /\ CarryDouble(e.op, s, u, size, f) = f.c
      BY <1>9 DEF ExactDouble, CarryDouble
    <2>2. e.r.value = (CASE e.op = "CMP" -> e.d
                       [] e.op = "MOV" /\ e.byte /\ ~e.register -> e.s
                       [] OTHER -> ss % WordSize)
      <3> HIDE DEF ss, y
      <3> QED  BY <1>6, <1>9
    <2>3. flags.v = ~InRange(ss, size)
      <3>1. w = ~v
        BY <1>3
      <3> HIDE DEF v, w
      <3> QED  BY <1>7, <3>1 DEF v
    <2> HIDE DEF ss, su, y, w, v
    <2> QED  BY <1>7, <1>9, <2>3, <2>1, <2>2 DEF DoubleCorrect, ss, su
  <1> QED  BY <1>10 DEF e

\* Double operand instructions that compute with numbers: likewise.
LEMMA DoubleIsExact ==
  ASSUME NEW op \in ArithmeticOps, NEW s \in Words, NEW d \in Words, NEW byte \in BOOLEAN,
         NEW register \in BOOLEAN, NEW f \in SomeFlags,
         byte => op \notin WholeWordOps /\ s < ByteSize
  PROVE  DoubleCorrect([unit |-> "double", op |-> op, s |-> s, d |-> d, byte |-> byte,
                        register |-> register, f |-> f,
                        r |-> double_arithmetic(op, s, d, byte, register, f)])
  <1> USE DEF double_arithmetic
  <1>1. CASE op = "MOV"  BY <1>1, MovIsExact
  <1>2. CASE op = "CMP"  BY <1>2, CmpIsExact
  <1>3. CASE op = "ADD"  BY <1>3, AddIsExact DEF WholeWordOps
  <1>4. CASE op = "SUB"  BY <1>4, SubIsExact DEF WholeWordOps
  <1> QED  BY <1>1, <1>2, <1>3, <1>4 DEF ArithmeticOps

\* A number that has room in size values is the signed reading of its remainder.
LEMMA SignedOfRemainder ==
  ASSUME NEW size \in Nat, NEW h \in Nat, h >= 1, size = 2 * h, NEW n \in -h .. h - 1
  PROVE  Signed(n % size, size) = n /\ n % size \in 0 .. size - 1
  <1>1. n % size = IF n < 0 THEN n + size ELSE n
    <2>1. n % size = IF n < 0 THEN n + size ELSE IF n < size THEN n ELSE n - size
      <3>1. n \in -size .. 2 * size - 1 /\ size > 0
        OBVIOUS
      <3> QED  BY ONLY <3>1, size \in Nat, Wrapped
    <2> QED  BY <2>1
  <1> DEFINE u == n % size
  <1>2. u \in 0 .. size - 1
    BY <1>1
  <1>3. Signed(u, size) = IF u < h THEN u ELSE u - size
    <2> HIDE DEF u
    <2> QED  BY <1>2, SignedValue
  <1> QED  BY <1>1, <1>2, <1>3

\* A word, its half h, and what a word x is as a signed number.
LEMMA SignedWord ==
  ASSUME NEW x \in Words, NEW h, h = WordSize \div 2
  PROVE  /\ h \in Nat /\ h >= 1 /\ WordSize = 2 * h
         /\ Signed(x, WordSize) \in -h .. h - 1 /\ x % WordSize = x /\ x \in 0 .. WordSize - 1
         /\ Signed(x, WordSize) = IF x < h THEN x ELSE x - WordSize
  <1>1. h \in Nat /\ h >= 1 /\ WordSize = 2 * h /\ WordSize \in Nat /\ x \in 0 .. WordSize - 1
    BY Sizes DEF Words
  <1>2. Signed(x, WordSize) = IF x < h THEN x ELSE x - WordSize
    BY ONLY <1>1, SignedValue
  <1>3. x % WordSize = x
    BY ONLY <1>1, Wrapped
  <1> QED  BY ONLY <1>1, <1>2, <1>3

LEMMA ProductHasRoom ==
  ASSUME NEW h \in Nat, h >= 1, NEW a \in -h .. h - 1, NEW b \in -h .. h - 1
  PROVE  a * b \in -(2 * h * h) .. 2 * h * h - 1
  <1>1. \A m \in 0 .. h, n \in 0 .. h : m * n \in 0 .. h * h
    <2> SUFFICES ASSUME NEW m \in 0 .. h, NEW n \in 0 .. h  PROVE m * n >= 0 /\ m * n <= h * h
      OBVIOUS
    <2>1. m * n >= 0
      OBVIOUS
    <2>2. m * n <= h * n
      <3>1. (h - m) * n >= 0
        OBVIOUS
      <3> QED  BY <3>1
    <2>3. h * n <= h * h
      <3>1. h * (h - n) >= 0
        OBVIOUS
      <3> QED  BY <3>1
    <2> QED  BY <2>1, <2>2, <2>3
  <1>2. h * h >= 1
    OBVIOUS
  <1>3. \E m \in 0 .. h, n \in 0 .. h : a * b = m * n \/ a * b = -(m * n)
    <2>1. CASE a >= 0 /\ b >= 0  BY <2>1
    <2>2. CASE a < 0 /\ b >= 0
      <3>1. -a \in 0 .. h /\ b \in 0 .. h /\ a * b = -((-a) * b)
        BY <2>2
      <3> QED  BY <3>1
    <2>3. CASE a >= 0 /\ b < 0
      <3>1. a \in 0 .. h /\ -b \in 0 .. h /\ a * b = -(a * (-b))
        BY <2>3
      <3> QED  BY <3>1
    <2>4. CASE a < 0 /\ b < 0
      <3>1. -a \in 0 .. h /\ -b \in 0 .. h /\ a * b = (-a) * (-b)
        BY <2>4
      <3> QED  BY <3>1
    <2> QED  BY <2>1, <2>2, <2>3, <2>4
  <1>4. PICK m \in 0 .. h, n \in 0 .. h : a * b = m * n \/ a * b = -(m * n)
    BY <1>3
  <1>5. m * n \in 0 .. h * h
    BY <1>1
  <1> DEFINE p == a * b
             q == m * n
             g == h * h
  <1>6. p \in Int /\ q \in 0 .. g /\ (p = q \/ p = -q) /\ g >= 1 /\ g \in Int /\ 2 * h * h = 2 * g
    BY <1>2, <1>4, <1>5
  <1>7. p \in -(2 * g) .. 2 * g - 1
    <2> HIDE DEF p, q, g
    <2> QED  BY <1>6
  <1> QED  BY <1>6, <1>7

\* A long number is the pair of its two words.
LEMMA LongOfWords ==
  ASSUME NEW p \in Int
  PROVE  /\ Long((p % LongSize) \div WordSize, p % WordSize) = p % LongSize
         /\ LongSize \in Nat /\ LongSize > 0 /\ WordSize \in Nat /\ WordSize > 0
  <1>1. WordSize \in Nat /\ WordSize > 0 /\ LongSize = WordSize * WordSize
    BY Sizes DEF LongSize
  <1>2. LongSize \in Nat /\ LongSize > 0
    BY <1>1
  <1> DEFINE k == p \div LongSize
             r == p % LongSize
  <1>3. k \in Int /\ r \in Int /\ p = k * LongSize + r
    BY <1>2, DivMod
  <1>4. p % WordSize = r % WordSize
    <2> DEFINE j == k * WordSize
    <2>1. j \in Int /\ p = r + j * WordSize
      <3> HIDE DEF k, r
      <3> QED  BY <1>1, <1>3
    <2>2. (r + j * WordSize) % WordSize = r % WordSize
      <3>1. WordSize \in Int /\ WordSize > 0 /\ r \in Int /\ j \in Int
        BY <1>1, <1>3, <2>1
      <3> HIDE DEF j, r
      <3> QED  BY ONLY <3>1, SameRemainder
    <2> HIDE DEF j, r
    <2> QED  BY <2>1, <2>2
  <1>5. r = (r \div WordSize) * WordSize + (r % WordSize)
    <2>1. WordSize \in Int /\ WordSize > 0 /\ r \in Int
      BY <1>1, <1>3
    <2> HIDE DEF r
    <2> QED  BY ONLY <2>1, DivMod
  <1>6. (r \div WordSize) * WordSize + (p % WordSize) = r
    <2> HIDE DEF r
    <2> QED  BY <1>4, <1>5
  <1> QED  BY <1>1, <1>2, <1>6 DEF Long

\* MUL leaves the product, as a long number.
LEMMA MulIsExact ==
  ASSUME NEW hi \in Words, NEW x \in Words
  PROVE  MulCorrect([unit |-> "mul", hi |-> hi, x |-> x, r |-> Mul(hi, x)])
  <1> DEFINE h == WordSize \div 2
             a == Signed(hi, WordSize)
             b == Signed(x, WordSize)
             p == a * b
             flags == [n |-> p < 0, z |-> p = 0, v |-> FALSE, c |-> ~Fits(p)]
             t == [unit |-> "mul", hi |-> hi, x |-> x, r |-> Mul(hi, x)]
  <1>1. h \in Nat /\ h >= 1 /\ WordSize = 2 * h /\ a \in -h .. h - 1 /\ b \in -h .. h - 1
    BY SignedWord
  <1>2. p \in -(2 * h * h) .. 2 * h * h - 1 /\ p \in Int
    <2> HIDE DEF h, a, b
    <2> QED  BY <1>1, ProductHasRoom
  <1>3. Signed(p % LongSize, LongSize) = p
    <2> DEFINE g == 2 * h * h
    <2>1. g \in Nat /\ g >= 1 /\ LongSize = 2 * g /\ LongSize \in Nat /\ p \in -g .. g - 1
      <3> HIDE DEF h, p
      <3> QED  BY <1>1, <1>2 DEF LongSize
    <2> HIDE DEF g, p
    <2> QED  BY <2>1, SignedOfRemainder
  <1>4. Long((p % LongSize) \div WordSize, p % WordSize) = p % LongSize
    <2> HIDE DEF p
    <2> QED  BY <1>2, LongOfWords
  <1>5. t.hi = hi /\ t.x = x /\ t.r.hi = (p % LongSize) \div WordSize /\ t.r.lo = p % WordSize
        /\ t.r.flags = flags
    <2>1. Mul(hi, x) = Pair((p % LongSize) \div WordSize, p % WordSize, flags)
      BY DEF Mul
    <2> HIDE DEF p, flags
    <2> QED  BY <2>1 DEF Pair
  <1>6. flags = [n |-> p < 0, z |-> p = 0, v |-> FALSE, c |-> ~InRange(p, WordSize)]
    <2> HIDE DEF p
    <2>1. Fits(p) = InRange(p, WordSize)
      BY DEF Fits, InRange
    <2> QED  BY <2>1
  <1> HIDE DEF t, flags
  <1>7. MulCorrect(t)
    <2>1. Signed(Long(t.r.hi, t.r.lo), LongSize) = p
      <3> HIDE DEF p
      <3> QED  BY <1>3, <1>4, <1>5
    <2> QED  BY <1>5, <1>6, <2>1 DEF MulCorrect
  <1> QED  BY <1>7 DEF t

\* n is the quotient of a and b that rounds towards zero.
IsQuotient(a, b, n) ==
  Abs(a - n * b) < Abs(b) /\ (a - n * b # 0 => (a - n * b < 0) = (a < 0))

LEMMA SmallMultiple ==
  ASSUME NEW b \in Int, NEW k \in Int, -Abs(b) < k * b, k * b < Abs(b)
  PROVE  k = 0
  <1>1. CASE k >= 1
    <2>1. CASE b >= 0
      <3>1. (k - 1) * b >= 0  BY <1>1, <2>1
      <3> QED  BY <2>1, <3>1 DEF Abs
    <2>2. CASE b < 0
      <3>1. (k - 1) * (-b) >= 0  BY <1>1, <2>2
      <3> QED  BY <2>2, <3>1 DEF Abs
    <2> QED  BY <2>1, <2>2
  <1>2. CASE k <= -1
    <2>1. CASE b >= 0
      <3>1. (-k - 1) * b >= 0  BY <1>2, <2>1
      <3> QED  BY <2>1, <3>1 DEF Abs
    <2>2. CASE b < 0
      <3>1. (-k - 1) * (-b) >= 0  BY <1>2, <2>2
      <3> QED  BY <2>2, <3>1 DEF Abs
    <2> QED  BY <2>1, <2>2
  <1> QED  BY <1>1, <1>2

LEMMA QuotientTruncates ==
  ASSUME NEW a \in Int, NEW b \in Int, b # 0
  PROVE  Quotient(a, b) \in Int /\ IsQuotient(a, b, Quotient(a, b))
  <1> DEFINE m == Abs(a)
             n == Abs(b)
             k == m \div n
             r == m % n
             q == Quotient(a, b)
  <1>1. m \in Nat /\ n \in Nat /\ n > 0
        /\ m = (IF a < 0 THEN -a ELSE a) /\ n = (IF b < 0 THEN -b ELSE b)
    BY DEF Abs
  <1>2. k \in Int /\ r \in 0 .. n - 1 /\ m = k * n + r
    <2>1. m \in Int /\ n \in Int /\ n > 0
      BY <1>1
    <2> HIDE DEF m, n
    <2> QED  BY ONLY <2>1, DivMod
  <1>3. q = IF (a < 0) = (b < 0) THEN k ELSE -k
    BY DEF Quotient
  <1>4. q \in Int /\ a - q * b = IF a < 0 THEN -r ELSE r
    <2> HIDE DEF m, n, k, r, q
    <2>1. CASE a < 0 /\ b < 0
      <3>1. q = k /\ a = -(k * n + r) /\ b = -n  BY <1>1, <1>2, <1>3, <2>1
      <3> QED  BY <1>1, <1>2, <2>1, <3>1
    <2>2. CASE a < 0 /\ b >= 0
      <3>1. q = -k /\ a = -(k * n + r) /\ b = n  BY <1>1, <1>2, <1>3, <2>2
      <3> QED  BY <1>1, <1>2, <2>2, <3>1
    <2>3. CASE a >= 0 /\ b < 0
      <3>1. q = -k /\ a = k * n + r /\ b = -n  BY <1>1, <1>2, <1>3, <2>3
      <3> QED  BY <1>1, <1>2, <2>3, <3>1
    <2>4. CASE a >= 0 /\ b >= 0
      <3>1. q = k /\ a = k * n + r /\ b = n  BY <1>1, <1>2, <1>3, <2>4
      <3> QED  BY <1>1, <1>2, <2>4, <3>1
    <2> QED  BY <2>1, <2>2, <2>3, <2>4
  <1> DEFINE z == a - q * b
  <1>5. z = (IF a < 0 THEN -r ELSE r) /\ r \in 0 .. n - 1 /\ n \in Nat
    BY <1>1, <1>2, <1>4
  <1>6. Abs(z) < n /\ (z # 0 => (z < 0) = (a < 0))
    <2> HIDE DEF z, r, n
    <2> QED  BY <1>5 DEF Abs
  <1>7. q \in Int /\ IsQuotient(a, b, q)
    <2> HIDE DEF q
    <2> QED  BY <1>4, <1>6 DEF IsQuotient
  <1> QED  BY <1>7

LEMMA QuotientIsUnique ==
  ASSUME NEW a \in Int, NEW b \in Int, b # 0, NEW q \in Int, NEW n \in Int,
         IsQuotient(a, b, q), IsQuotient(a, b, n)
  PROVE  n = q
  <1> DEFINE k == n - q
             y == a - q * b
             z == a - n * b
             m == Abs(b)
  <1>1. y \in Int /\ z \in Int /\ m \in Int
    BY DEF Abs
  <1>2. /\ Abs(y) < m /\ (y # 0 => (y < 0) = (a < 0))
        /\ Abs(z) < m /\ (z # 0 => (z < 0) = (a < 0))
    BY DEF IsQuotient
  <1>3. -m < y - z /\ y - z < m
    <2> HIDE DEF y, z, m
    <2> QED  BY <1>1, <1>2 DEF Abs
  <1>4. k \in Int /\ k * b = y - z
    OBVIOUS
  <1>5. k = 0
    <2>1. -Abs(b) < k * b /\ k * b < Abs(b)
      BY <1>3, <1>4
    <2> HIDE DEF k
    <2> QED  BY <1>4, <2>1, SmallMultiple
  <1> QED  BY <1>5

LEMMA DivIsExact ==
  ASSUME NEW hi \in Words, NEW lo \in Words, NEW x \in Words
  PROVE  DivCorrect([unit |-> "div", hi |-> hi, lo |-> lo, x |-> x, r |-> Div(hi, lo, x)])
  <1> DEFINE h == WordSize \div 2
             a == Signed(Long(hi, lo), LongSize)
             b == Signed(x, WordSize)
             q == Quotient(a, b)
             flags == Div(hi, lo, x).flags
             t == [unit |-> "div", hi |-> hi, lo |-> lo, x |-> x, r |-> Div(hi, lo, x)]
             Room == \E n \in -h .. h - 1 : IsQuotient(a, b, n)
  <1>1. /\ h \in Nat /\ h >= 1 /\ WordSize = 2 * h /\ WordSize \in Nat /\ b \in -h .. h - 1
        /\ b \in Int
    <2>1. h \in Nat /\ h >= 1 /\ WordSize = 2 * h /\ WordSize \in Nat /\ b \in -h .. h - 1
      BY SignedWord
    <2> HIDE DEF h, b
    <2> QED  BY <2>1
  <1>2. a \in Int /\ LongSize \div 2 = 2 * h * h
    <2>1. Long(hi, lo) \in Int /\ LongSize \in Nat /\ LongSize > 0
      BY Sizes DEF Words, Long, LongSize
    <2>2. a \in Int
      BY <2>1 DEF Signed
    <2>3. LongSize = 2 * (2 * h * h)
      <3> HIDE DEF h
      <3> QED  BY <1>1 DEF LongSize
    <2> QED  BY <1>1, <2>2, <2>3
  <1>3. b # 0 => q \in Int /\ IsQuotient(a, b, q)
    <2> HIDE DEF a, b
    <2> QED  BY <1>1, <1>2, QuotientTruncates
  <1>4. b # 0 => (Room <=> q \in -h .. h - 1)
    <2> HIDE DEF a, b, q, h
    <2>1. b # 0 /\ Room => q \in -h .. h - 1
      <3> SUFFICES ASSUME b # 0, NEW n \in -h .. h - 1, IsQuotient(a, b, n)
                   PROVE  q \in -h .. h - 1
        BY DEF Room
      <3>1. n = q
        BY <1>1, <1>2, <1>3, QuotientIsUnique
      <3> QED  BY <3>1
    <2>2. b # 0 /\ q \in -h .. h - 1 => Room
      BY <1>3
    <2> QED  BY <2>1, <2>2
  <1>5. Fits(q) <=> -h <= q /\ q < h
    BY DEF Fits
  <1>6. b = 0 => ~Room
    <2> HIDE DEF h, a, b
    <2> QED  BY <1>1, <1>2 DEF IsQuotient, Abs
  <1>7. ASSUME b = 0  PROVE t.r.hi = hi /\ t.r.lo = lo /\ t.r.flags.v = TRUE /\ t.r.flags.c = TRUE
    <2>1. Div(hi, lo, x) = Pair(hi, lo, [n |-> FALSE, z |-> TRUE, v |-> TRUE, c |-> TRUE])
      BY <1>7 DEF Div
    <2> QED  BY <2>1 DEF Pair
  <1>8. ASSUME b = -1, a = -(LongSize \div 2)
        PROVE  /\ t.r.hi = hi /\ t.r.lo = lo /\ t.r.flags.v = TRUE /\ t.r.flags.c = FALSE
               /\ b # 0 /\ ~Room
    <2>1. Div(hi, lo, x) = Pair(hi, lo, [n |-> FALSE, z |-> FALSE, v |-> TRUE, c |-> FALSE])
      BY <1>8 DEF Div
    <2>2. ~(q \in -h .. h - 1)
      <3> HIDE DEF a, b, q, h
      <3>1. Abs(a - q * b) < 1 /\ q \in Int
        BY <1>3, <1>8 DEF IsQuotient, Abs
      <3>2. a - q * b = a + q
        BY <1>2, <1>8, <3>1
      <3>3. q = -a
        BY <1>2, <3>1, <3>2 DEF Abs
      <3>4. 2 * h * h >= h
        BY <1>1
      <3> QED  BY <1>1, <1>2, <1>8, <3>3, <3>4
    <2>3. t.r.hi = hi /\ t.r.lo = lo /\ t.r.flags.v = TRUE /\ t.r.flags.c = FALSE
      BY <2>1 DEF Pair
    <2>4. b # 0
      <3> HIDE DEF b
      <3> QED  BY <1>8
    <2> HIDE DEF a, b, q, h, t, Room
    <2> QED  BY <1>4, <2>2, <2>3, <2>4
  <1> DEFINE Divides == b # 0 /\ ~(b = -1 /\ a = -(LongSize \div 2))
             f == [n |-> q < 0, z |-> q = 0, v |-> ~Fits(q), c |-> FALSE]
             rest == a - q * b
  <1>9. ASSUME Divides
        PROVE  Div(hi, lo, x) = IF Fits(q) THEN Pair(q % WordSize, rest % WordSize, f)
                                           ELSE Pair(hi, lo, f)
    <2>1. Div(hi, lo, x) = IF b = 0
        THEN Pair(hi, lo, [n |-> FALSE, z |-> TRUE, v |-> TRUE, c |-> TRUE])
      ELSE IF b = -1 /\ a = -(LongSize \div 2)
        THEN Pair(hi, lo, [n |-> FALSE, z |-> FALSE, v |-> TRUE, c |-> FALSE])
      ELSE IF Fits(q) THEN Pair(q % WordSize, rest % WordSize, f) ELSE Pair(hi, lo, f)
      BY DEF Div
    <2> HIDE DEF a, b, q, rest, f
    <2> QED  BY <1>9, <2>1
  <1>10. ASSUME Divides, ~Fits(q)
         PROVE  t.r.hi = hi /\ t.r.lo = lo /\ t.r.flags.v = TRUE /\ t.r.flags.c = FALSE /\ ~Room
    <2>1. ~Room
      <3> HIDE DEF a, b, q, h, Room
      <3> QED  BY <1>1, <1>3, <1>4, <1>5, <1>10
    <2>2. Div(hi, lo, x) = Pair(hi, lo, f)
      <3> HIDE DEF a, b, q, h, Room, rest, f
      <3> QED  BY <1>9, <1>10
    <2>3. f.v = TRUE /\ f.c = FALSE
      <3> HIDE DEF q
      <3> QED  BY <1>10
    <2> HIDE DEF f, q, a, b, Room
    <2> QED  BY <2>1, <2>2, <2>3 DEF Pair
  <1>11. ASSUME Divides, Fits(q)
         PROVE  /\ Room /\ Signed(t.r.hi, WordSize) = q /\ Signed(t.r.lo, WordSize) = rest
                /\ t.r.flags = [n |-> q < 0, z |-> q = 0, v |-> FALSE, c |-> FALSE]
                /\ a = q * b + rest /\ Abs(rest) < Abs(b) /\ (rest # 0 => (rest < 0) = (a < 0))
    <2>1. q \in -h .. h - 1 /\ Room
      <3> HIDE DEF a, b, q, h, Room
      <3> QED  BY <1>1, <1>3, <1>4, <1>5, <1>11
    <2>2. a = q * b + rest /\ Abs(rest) < Abs(b)
          /\ (rest # 0 => (rest < 0) = (a < 0)) /\ rest \in Int
      <3>1. IsQuotient(a, b, q)
        <4> HIDE DEF a, b, q
        <4> QED  BY <1>3, <1>11
      <3>2. a \in Int /\ b \in Int /\ q \in Int
        <4> HIDE DEF a, b, q
        <4> QED  BY <1>1, <1>2, <2>1
      <3> HIDE DEF a, b, q
      <3> QED  BY <3>1, <3>2 DEF IsQuotient
    <2>3. rest \in -h .. h - 1
      <3> HIDE DEF a, b, q, h, rest
      <3> QED  BY <1>1, <2>2 DEF Abs
    <2>4. Signed(q % WordSize, WordSize) = q /\ Signed(rest % WordSize, WordSize) = rest
      <3> HIDE DEF a, b, q, h, rest
      <3> QED  BY ONLY <1>1, <2>1, <2>3, SignedOfRemainder
    <2>5. Div(hi, lo, x) = Pair(q % WordSize, rest % WordSize, f)
      <3> HIDE DEF a, b, q, h, Room, rest, f
      <3> QED  BY <1>9, <1>11
    <2>6. f = [n |-> q < 0, z |-> q = 0, v |-> FALSE, c |-> FALSE]
      <3>1. (~Fits(q)) = FALSE
        <4> HIDE DEF q
        <4> QED  BY <1>11
      <3> HIDE DEF q
      <3> QED  BY <3>1
    <2>7. t.r.hi = q % WordSize /\ t.r.lo = rest % WordSize /\ t.r.flags = f
      <3> HIDE DEF q, rest, f
      <3> QED  BY <2>5 DEF Pair
    <2> HIDE DEF a, b, q, h, Room, rest, f, t
    <2> QED  BY <2>1, <2>2, <2>4, <2>6, <2>7
  <1>12. t.hi = hi /\ t.lo = lo /\ t.x = x
    BY DEF t
  <1> DEFINE q2 == Signed(t.r.hi, WordSize)
             rest2 == Signed(t.r.lo, WordSize)
  <1>13. IF Room
         THEN /\ a = q2 * b + rest2 /\ Abs(rest2) < Abs(b)
              /\ rest2 # 0 => (rest2 < 0) = (a < 0)
              /\ t.r.flags = [n |-> q2 < 0, z |-> q2 = 0, v |-> FALSE, c |-> FALSE]
         ELSE /\ t.r.hi = hi /\ t.r.lo = lo
              /\ t.r.flags.v /\ t.r.flags.c = (b = 0)
    <2>1. CASE b = 0
      <3> HIDE DEF a, b, q, h, Room, rest, f, t
      <3> QED  BY <1>6, <1>7, <2>1
    <2>2. CASE b = -1 /\ a = -(LongSize \div 2)
      <3> HIDE DEF a, b, q, h, Room, rest, f, t
      <3> QED  BY <1>8, <2>2
    <2>3. CASE Divides /\ ~Fits(q)
      <3> HIDE DEF a, b, q, h, Room, rest, f, t
      <3> QED  BY <1>10, <2>3
    <2>4. CASE Divides /\ Fits(q)
      <3> HIDE DEF a, b, q, h, Room, rest, f, t
      <3> QED  BY <1>11, <2>4
    <2> HIDE DEF a, b, q, h, Room, rest, f, t
    <2> QED  BY <2>1, <2>2, <2>3, <2>4
  <1>14. DivCorrect(t)
    <2>1. Room = (\E n \in -(WordSize \div 2) .. WordSize \div 2 - 1 :
                    LET r == a - n * b
                    IN  Abs(r) < Abs(b) /\ (r # 0 => (r < 0) = (a < 0)))
      <3> HIDE DEF a, b
      <3> QED  BY DEF IsQuotient
    <2> HIDE DEF t, Room
    <2> QED  BY <1>12, <1>13, <2>1 DEF DivCorrect
  <1> QED  BY <1>14 DEF t

\* The branches after CMP: what the flags of a difference tell of the order.
Ordered(size, h, s, u, ss, su, t) ==
  /\ t \in Int /\ (t = 0 <=> ss = su) /\ (t = 0 <=> s = u)
  /\ (((t >= h) <=> ~InRange(ss - su, size)) <=> ss >= su)

LEMMA OrderLow ==
  ASSUME NEW size \in Nat, NEW h \in Nat, NEW s \in Nat, NEW u \in Nat, NEW ss \in Int,
         NEW su \in Int, PairIs(size, h, s, u, ss, su)
  PROVE  Ordered(size, h, s, u, ss, su, (s - u) % size)
  <1>1. (s - u) % size = IF s < u THEN s - u + size ELSE s - u
    <2> DEFINE w == s - u
    <2>1. w \in -size .. 2 * size - 1 /\ size > 0
      BY DEF PairIs
    <2>2. w % size = IF w < 0 THEN w + size ELSE IF w < size THEN w ELSE w - size
      <3> HIDE DEF w
      <3> QED  BY <2>1, Wrapped
    <2> QED  BY <2>2 DEF PairIs
  <1>2. InRange(ss - su, size) <=> -h <= ss - su /\ ss - su < h
    BY DEF PairIs, InRange
  <1> QED  BY <1>1, <1>2 DEF PairIs, Ordered

LEMMA FlagsOfCmp ==
  ASSUME NEW s \in Words, NEW d \in Words, NEW byte \in BOOLEAN, ~byte,
         NEW ss, ss = Signed(s, WordSize), NEW sd, sd = Signed(d, WordSize),
         NEW f, f = Cmp(s, d, byte).flags
  PROVE  /\ (f.z <=> ss = sd) /\ (f.z <=> s = d) /\ (f.c <=> s < d)
         /\ (f.v <=> ~InRange(ss - sd, WordSize)) /\ ((f.n <=> f.v) <=> ss >= sd)
         /\ f.n \in BOOLEAN /\ f.v \in BOOLEAN /\ f.c \in BOOLEAN /\ f.z \in BOOLEAN
         /\ s \in Int /\ d \in Int /\ ss \in Int /\ sd \in Int
  <1> DEFINE size == Size(byte)
             h == size \div 2
             u == d % size
             t == (s - u) % size
             v == (s >= h) # (u >= h) /\ ((u >= h) <=> (t >= h))
             c == s < u
             e == [n |-> t >= h, z |-> t = 0, v |-> v, c |-> c]
  <1>1. /\ size \in Nat /\ h \in Nat /\ u \in Nat /\ s \in Nat /\ size > 0 /\ size = WordSize
        /\ ss \in Int /\ sd \in Int /\ PairIs(size, h, s, u, ss, sd)
        /\ s % size = s /\ u % size = u /\ d = u
    <2>1. size = WordSize
      BY DEF Size
    <2>2. d % WordSize = d
      BY SignedWord
    <2>3. d = u
      BY <2>1, <2>2
    <2>4. /\ size \in Nat /\ h \in Nat /\ u \in Nat /\ s \in Nat /\ size > 0
          /\ Signed(s, size) \in Int /\ Signed(u, size) \in Int
          /\ PairIs(size, h, s, u, Signed(s, size), Signed(u, size))
          /\ s % size = s /\ u % size = u
      BY PairOf
    <2> HIDE DEF size, h, u
    <2> QED  BY <2>1, <2>3, <2>4
  <1>2. /\ t \in 0 .. size - 1 /\ t \in Int /\ t % size = t
        /\ (v <=> ~InRange(ss - sd, size))
    <2>1. Difference(size, h, s, u, ss, sd, t)
      <3> HIDE DEF size, h, u
      <3> QED  BY <1>1, DifferenceLow
    <2>2. t \in 0 .. size - 1 /\ (v <=> ~InRange(ss - sd, size))
      <3> HIDE DEF size, h, u, t
      <3> QED  BY <2>1 DEF Difference
    <2> HIDE DEF size, h, u, t, v
    <2> QED  BY <1>1, <2>2, Wrapped
  <1>3. /\ t \in Int /\ (t = 0 <=> ss = sd) /\ (t = 0 <=> s = u)
        /\ (((t >= h) <=> ~InRange(ss - sd, size)) <=> ss >= sd)
    <2>1. Ordered(size, h, s, u, ss, sd, t)
      <3> HIDE DEF size, h, u
      <3> QED  BY <1>1, OrderLow
    <2> HIDE DEF size, h, u, t
    <2> QED  BY <2>1 DEF Ordered
  <1>4. Cmp(s, d, byte) = Result(d, e)
    <2>1. SIGN(s, byte) = (s >= h) /\ SIGN(u, byte) = (u >= h) /\ SIGN(t, byte) = (t >= h)
      <3> HIDE DEF u, t
      <3> QED  BY <1>1, <1>2 DEF SIGN, Top
    <2>2. Low(d, byte) = u /\ Low(s - u, byte) = t /\ Low(t, byte) = t
      <3>1. Low(d, byte) = u /\ Low(s - u, byte) = t /\ Low(t, byte) = t % size
        BY DEF Low
      <3> HIDE DEF t, u
      <3> QED  BY <1>2, <3>1
    <2> HIDE DEF u, t, h
    <2> QED  BY <2>1, <2>2 DEF Cmp, NZVC, IS_0
  <1>5. f = e
    <2> HIDE DEF e
    <2> QED  BY <1>4 DEF Result
  <1> DEFINE high == t >= h
             null == t = 0
  <1>6. high \in BOOLEAN /\ null \in BOOLEAN /\ v \in BOOLEAN /\ c \in BOOLEAN
    OBVIOUS
  <1>7. /\ (f.n <=> high) /\ (f.z <=> null) /\ (f.v <=> v) /\ (f.c <=> c)
        /\ f.n \in BOOLEAN /\ f.v \in BOOLEAN /\ f.c \in BOOLEAN /\ f.z \in BOOLEAN
    <2>1. e = [n |-> high, z |-> null, v |-> v, c |-> c]
      OBVIOUS
    <2>2. f.n = high /\ f.z = null /\ f.v = v /\ f.c = c
      <3> HIDE DEF high, null, v, c, e
      <3> QED  BY <1>5, <2>1
    <2> HIDE DEF high, null, v, c, e
    <2> QED  BY <1>6, <2>2, Zenon
  <1>8. /\ (f.v <=> ~InRange(ss - sd, WordSize)) /\ ((f.n <=> f.v) <=> ss >= sd)
    <2> HIDE DEF t, v, h, u, size
    <2> QED  BY <1>1, <1>2, <1>3, <1>7
  <1> HIDE DEF t, v, h, u, size
  <1> QED  BY <1>1, <1>3, <1>7, <1>8

LEMMA BranchIsExact ==
  ASSUME NEW s \in Words, NEW d \in Words
  PROVE  BranchCorrect([unit |-> "branch", s |-> s, d |-> d,
           taken |-> {op \in Branches :
                        conditional_branch_instructions_evaluate(op, Cmp(s, d, FALSE).flags)}])
  <1> DEFINE byte == FALSE
             ss == Signed(s, WordSize)
             sd == Signed(d, WordSize)
             f == Cmp(s, d, byte).flags
             w == InRange(ss - sd, WordSize)
             taken == {op \in Branches : conditional_branch_instructions_evaluate(op, f)}
             t == [unit |-> "branch", s |-> s, d |-> d, taken |-> taken]
             Holds == [BR |-> TRUE, BNE |-> ss # sd, BEQ |-> ss = sd,
                       BGE |-> ss >= sd, BLT |-> ss < sd,
                BGT |-> ss > sd, BLE |-> ss <= sd, BHI |-> s > d, BLOS |-> s <= d,
                BCC |-> s >= d, BCS |-> s < d, BVS |-> ~w, BVC |-> w]
  <1>0. byte \in BOOLEAN /\ ~byte
    OBVIOUS
  <1>1. /\ (f.z <=> ss = sd) /\ (f.z <=> s = d) /\ (f.c <=> s < d)
        /\ (f.v <=> ~w) /\ ((f.n <=> f.v) <=> ss >= sd)
        /\ f.n \in BOOLEAN /\ f.v \in BOOLEAN /\ f.c \in BOOLEAN /\ f.z \in BOOLEAN
        /\ s \in Int /\ d \in Int /\ ss \in Int /\ sd \in Int
    <2>1. /\ (f.z <=> ss = sd) /\ (f.z <=> s = d) /\ (f.c <=> s < d)
          /\ (f.v <=> ~InRange(ss - sd, WordSize)) /\ ((f.n <=> f.v) <=> ss >= sd)
          /\ f.n \in BOOLEAN /\ f.v \in BOOLEAN /\ f.c \in BOOLEAN /\ f.z \in BOOLEAN
          /\ s \in Int /\ d \in Int /\ ss \in Int /\ sd \in Int
      <3> HIDE DEF byte
      <3> QED  BY <1>0, FlagsOfCmp
    <2> QED  BY <2>1
  <1>2. w \in BOOLEAN
    BY DEF InRange
  <1>3. \A op \in DOMAIN Holds : (op \in taken) = Holds[op]
    <2> HIDE DEF f, ss, sd, w
    <2>1. /\ "BR" \in taken /\ ("BNE" \in taken <=> ss # sd) /\ ("BEQ" \in taken <=> ss = sd)
          /\ ("BGE" \in taken <=> ss >= sd) /\ ("BLT" \in taken <=> ss < sd)
          /\ ("BGT" \in taken <=> ss > sd) /\ ("BLE" \in taken <=> ss <= sd)
          /\ ("BHI" \in taken <=> s > d) /\ ("BLOS" \in taken <=> s <= d)
          /\ ("BCC" \in taken <=> s >= d) /\ ("BCS" \in taken <=> s < d)
          /\ ("BVS" \in taken <=> ~w) /\ ("BVC" \in taken <=> w)
      BY <1>1 DEF Branches, conditional_branch_instructions_evaluate
    <2>2. /\ Holds["BR"] = TRUE /\ Holds["BNE"] = (ss # sd) /\ Holds["BEQ"] = (ss = sd)
          /\ Holds["BGE"] = (ss >= sd) /\ Holds["BLT"] = (ss < sd)
          /\ Holds["BGT"] = (ss > sd) /\ Holds["BLE"] = (ss <= sd)
          /\ Holds["BHI"] = (s > d) /\ Holds["BLOS"] = (s <= d)
          /\ Holds["BCC"] = (s >= d) /\ Holds["BCS"] = (s < d)
          /\ Holds["BVS"] = (~w) /\ Holds["BVC"] = w
      OBVIOUS
    <2>3. DOMAIN Holds = {"BR", "BNE", "BEQ", "BGE", "BLT", "BGT", "BLE", "BHI", "BLOS",
                          "BCC", "BCS", "BVS", "BVC"}
      OBVIOUS
    <2> DEFINE Right(op) == (op \in taken) = Holds[op]
    <2>4. /\ Right("BR")
          /\ Right("BNE")
          /\ Right("BEQ")
          /\ Right("BGE")
          /\ Right("BLT")
          /\ Right("BGT")
          /\ Right("BLE")
          /\ Right("BHI")
          /\ Right("BLOS")
          /\ Right("BCC")
          /\ Right("BCS")
          /\ Right("BVS")
          /\ Right("BVC")
      <3>1. Right("BR")
        <4> HIDE DEF taken, Holds
        <4> QED  BY <1>1, <1>2, <2>1, <2>2
      <3>2. Right("BNE")
        <4> HIDE DEF taken, Holds
        <4> QED  BY <1>1, <1>2, <2>1, <2>2
      <3>3. Right("BEQ")
        <4> HIDE DEF taken, Holds
        <4> QED  BY <1>1, <1>2, <2>1, <2>2
      <3>4. Right("BGE")
        <4> HIDE DEF taken, Holds
        <4> QED  BY <1>1, <1>2, <2>1, <2>2
      <3>5. Right("BLT")
        <4> HIDE DEF taken, Holds
        <4> QED  BY <1>1, <1>2, <2>1, <2>2
      <3>6. Right("BGT")
        <4> HIDE DEF taken, Holds
        <4> QED  BY <1>1, <1>2, <2>1, <2>2
      <3>7. Right("BLE")
        <4> HIDE DEF taken, Holds
        <4> QED  BY <1>1, <1>2, <2>1, <2>2
      <3>8. Right("BHI")
        <4> HIDE DEF taken, Holds
        <4> QED  BY <1>1, <1>2, <2>1, <2>2
      <3>9. Right("BLOS")
        <4> HIDE DEF taken, Holds
        <4> QED  BY <1>1, <1>2, <2>1, <2>2
      <3>10. Right("BCC")
        <4> HIDE DEF taken, Holds
        <4> QED  BY <1>1, <1>2, <2>1, <2>2
      <3>11. Right("BCS")
        <4> HIDE DEF taken, Holds
        <4> QED  BY <1>1, <1>2, <2>1, <2>2
      <3>12. Right("BVS")
        <4> HIDE DEF taken, Holds
        <4> QED  BY <1>1, <1>2, <2>1, <2>2
      <3>13. Right("BVC")
        <4> HIDE DEF taken, Holds
        <4> QED  BY <1>1, <1>2, <2>1, <2>2
      <3> HIDE DEF Right
      <3> QED  BY <3>1, <3>2, <3>3, <3>4, <3>5, <3>6, <3>7, <3>8, <3>9, <3>10, <3>11, <3>12, <3>13
    <2>5. \A op \in DOMAIN Holds : Right(op)
      <3> HIDE DEF taken, Holds, Right
      <3> QED  BY <2>3, <2>4
    <2> QED  BY <2>5
  <1>4. t.s = s /\ t.d = d /\ t.taken = taken
    <2> HIDE DEF taken
    <2> QED  BY DEF t
  <1> HIDE DEF t, taken
  <1>5. BranchCorrect(t)
    <2>1. \A op \in DOMAIN Holds : (op \in t.taken) = Holds[op]
      <3> HIDE DEF Holds
      <3> QED  BY <1>3, <1>4
    <2> HIDE DEF ss, sd
    <2> QED  BY <1>4, <2>1 DEF BranchCorrect, ss, sd
  <1> QED  BY <1>5 DEF t, taken

-----------------------------------------------------------------------------
(***************************************************************************)
(* Bits, and the powers of two up to the size of two longs.                *)
(***************************************************************************)
LEMMA LeastOfNaturals ==
  ASSUME NEW T, T \subseteq Nat, T # {}
  PROVE  \E n \in T : \A k \in T : n <= k
  <1>1. PICK n \in T : \A k \in T : <<k, n>> \notin OpToRel(<, Nat)
    BY NatLessThanWellFounded, WFMin
  <1>2. \A k \in T : ~(k < n)
    BY <1>1 DEF OpToRel
  <1> QED  BY <1>2

\* Induction up to m, on a set.
LEMMA Reaches ==
  ASSUME NEW T, NEW m \in Nat, 0 \in T, \A n \in 0 .. m - 1 : n \in T => n + 1 \in T
  PROVE  0 .. m \subseteq T
  <1> DEFINE Missed == {n \in 0 .. m : n \notin T}
  <1>1. ASSUME Missed # {}  PROVE FALSE
    <2>1. Missed \subseteq Nat
      OBVIOUS
    <2>2. PICK n \in Missed : \A k \in Missed : n <= k
      <3> HIDE DEF Missed
      <3> QED  BY <1>1, <2>1, LeastOfNaturals
    <2>3. n \in 0 .. m /\ n \notin T /\ n # 0
      OBVIOUS
    <2>4. n - 1 \in 0 .. m - 1 /\ n - 1 \notin Missed
      BY <2>2, <2>3
    <2>5. n - 1 \in T /\ (n - 1) + 1 = n
      BY <2>3, <2>4
    <2> QED  BY <2>3, <2>4, <2>5
  <1> QED  BY <1>1

LEMMA PowersOn ==
  /\ Power(17) = 131072 /\ Power(18) = 262144 /\ Power(19) = 524288 /\ Power(20) = 1048576
  /\ Power(21) = 2097152 /\ Power(22) = 4194304 /\ Power(23) = 8388608 /\ Power(24) = 16777216
  /\ Power(25) = 33554432 /\ Power(26) = 67108864 /\ Power(27) = 134217728
  /\ Power(28) = 268435456 /\ Power(29) = 536870912 /\ Power(30) = 1073741824
  /\ Power(31) = 2147483648 /\ Power(32) = 4294967296
  BY DEF Power

LEMMA PowerDoubles ==
  ASSUME NEW n \in 0..31
  PROVE  Power(n) \in Nat /\ Power(n) > 0 /\ Power(n + 1) = 2 * Power(n)
  <1>1. CASE n \in 0..7    BY <1>1, Powers
  <1>2. CASE n \in 8..15   BY <1>2, Powers
  <1>3. CASE n = 16        BY <1>3, Powers, PowersOn
  <1>4. CASE n \in 17..23  BY <1>4, PowersOn
  <1>5. CASE n \in 24..31  BY <1>5, PowersOn
  <1> QED  BY <1>1, <1>2, <1>3, <1>4, <1>5

LEMMA PowerIsNatural ==
  ASSUME NEW n \in 0..32
  PROVE  Power(n) \in Nat /\ Power(n) > 0
  BY PowerDoubles, PowersOn

\* A higher power is a multiple of a lower one.
Factors(j, n) == \E q \in Nat : q > 0 /\ Power(n) = Power(j) * q

LEMMA PowerDivides ==
  ASSUME NEW j \in 0..32, NEW n \in 0..32, j <= n
  PROVE  Factors(j, n)
  <1> DEFINE T == {i \in 0..32 : i < j \/ Factors(j, i)}
  <1>1. ASSUME j = 0  PROVE 0 \in T
    BY <1>1, Powers DEF Factors
  <1>2. 0 \in T
    BY <1>1
  <1>3. ASSUME NEW i \in 0..31, i \in T  PROVE i + 1 \in T
    <2>1. CASE i + 1 < j
      BY <2>1
    <2>2. CASE i + 1 = j
      <3>1. Power(j) = Power(j) * 1
        BY PowerIsNatural
      <3> QED  BY <2>2, <3>1 DEF Factors
    <2>3. CASE i >= j
      <3>1. PICK q \in Nat : q > 0 /\ Power(i) = Power(j) * q
        BY <1>3, <2>3 DEF Factors
      <3>2. Power(i + 1) = Power(j) * (2 * q)
        <4>1. Power(j) \in Nat /\ Power(i + 1) = 2 * Power(i)
          BY PowerIsNatural, PowerDoubles
        <4> QED  BY <3>1, <4>1
      <3>3. 2 * q \in Nat /\ 2 * q > 0
        BY <3>1
      <3> QED  BY <3>2, <3>3 DEF Factors
    <2> QED  BY <2>1, <2>2, <2>3
  <1>4. 0 .. 32 \subseteq T
    <2> HIDE DEF T
    <2> QED  BY ONLY <1>2, <1>3, Reaches
  <1> QED  BY <1>4

\* The bit n of y, and what is below it.
LEMMA LowerBits ==
  ASSUME NEW n \in 0..31, NEW y \in Nat
  PROVE  /\ BitOf(y, n) \in {0, 1}
         /\ y % Power(n) \in 0 .. Power(n) - 1
         /\ y % Power(n + 1) = (y % Power(n)) + BitOf(y, n) * Power(n)
  <1> DEFINE p == Power(n)
             q == y \div p
             r == y % p
             b == q % 2
             e == q \div 2
  <1>1. p \in Nat /\ p > 0 /\ Power(n + 1) = 2 * p
    BY PowerDoubles
  <1>2. q \in Int /\ r \in 0 .. p - 1 /\ y = q * p + r
    <2> HIDE DEF p
    <2> QED  BY <1>1, DivMod
  <1>3. b \in {0, 1} /\ e \in Int /\ q = e * 2 + b
    <2> HIDE DEF q
    <2> QED  BY <1>2
  <1>4. BitOf(y, n) = b
    BY DEF BitOf, Power
  <1>5. y % (2 * p) = r + b * p
    <2> DEFINE s == 2 * p
               u == r + b * p
    <2>1. s \in Int /\ s > 0 /\ u \in 0 .. s - 1 /\ y = e * s + u
      <3> HIDE DEF p, q, r, b, e
      <3>1. b = 0 \/ b = 1
        BY <1>3
      <3>2. e * s = (e * 2) * p
        BY <1>1, <1>3
      <3>3. (e * 2 + b) * p = (e * 2) * p + b * p
        BY <1>1, <1>3
      <3>4. b * p = 0 \/ b * p = p
        BY <1>1, <3>1
      <3> QED  BY <1>1, <1>2, <1>3, <3>2, <3>3, <3>4
    <2>2. (e * s + u) % s = u
      <3> HIDE DEF s, u, e
      <3> QED  BY <1>3, <2>1, DivModUnique
    <2>3. y % s = u
      <3> DEFINE z == e * s + u
      <3>1. y = z /\ z % s = u
        BY <2>1, <2>2
      <3> HIDE DEF z, s, u
      <3> QED  BY <3>1
    <2> QED  BY <2>3
  <1> QED  BY <1>1, <1>2, <1>3, <1>4, <1>5


LEMMA ZeroByBits ==
  ASSUME NEW y \in Nat, NEW n \in 0..32
  PROVE  y % Power(n) = 0 <=> \A k \in 0 .. n - 1 : BitOf(y, k) = 0
  <1> DEFINE T == {i \in 0..32 : y % Power(i) = 0 <=> \A k \in 0 .. i - 1 : BitOf(y, k) = 0}
  <1>1. 0 \in T
    BY Powers
  <1>2. ASSUME NEW i \in 0..31, i \in T  PROVE i + 1 \in T
    <2> DEFINE p == Power(i)
               b == BitOf(y, i)
               r == y % p
               s == y % Power(i + 1)
    <2>1. b \in {0, 1} /\ r \in 0 .. p - 1 /\ s = r + b * p /\ p \in Nat /\ p > 0
      BY LowerBits, PowerDoubles
    <2>2. s = 0 <=> r = 0 /\ b = 0
      <3> HIDE DEF p, b, r, s
      <3>1. CASE b = 0  BY <2>1, <3>1
      <3>2. CASE b = 1  BY <2>1, <3>2
      <3> QED  BY <2>1, <3>1, <3>2
    <2>3. r = 0 <=> \A k \in 0 .. i - 1 : BitOf(y, k) = 0
      BY <1>2
    <2>4. 0 .. i = (0 .. i - 1) \cup {i} /\ (i + 1) - 1 = i
      OBVIOUS
    <2>5. s = 0 <=> \A k \in 0 .. i : BitOf(y, k) = 0
      <3> HIDE DEF p, r, s
      <3> QED  BY <2>2, <2>3, <2>4
    <2> QED  BY <2>4, <2>5
  <1>3. 0 .. 32 \subseteq T
    <2> HIDE DEF T
    <2> QED  BY ONLY <1>1, <1>2, Reaches
  <1> QED  BY <1>3

LEMMA TopByBit ==
  ASSUME NEW y \in Nat, NEW n \in 0..31
  PROVE  y % Power(n + 1) >= Power(n) <=> BitOf(y, n) = 1
  <1> DEFINE p == Power(n)
             b == BitOf(y, n)
             r == y % p
             s == y % Power(n + 1)
  <1>1. b \in {0, 1} /\ r \in 0 .. p - 1 /\ s = r + b * p /\ p \in Nat /\ p > 0
    BY LowerBits, PowerDoubles
  <1>2. s >= p <=> b = 1
    <2> HIDE DEF p, b, r, s
    <2>1. CASE b = 0  BY <1>1, <2>1
    <2>2. CASE b = 1  BY <1>1, <2>2
    <2> QED  BY <1>1, <2>1, <2>2
  <1> QED  BY <1>2

\* What is added from bit n on leaves the bits below.
LEMMA HigherBits ==
  ASSUME NEW y \in Nat, NEW b \in Nat, NEW n \in 0..31, NEW k \in 0..31, k < n
  PROVE  BitOf(y + (b * Power(n)), k) = BitOf(y, k)
  <1> DEFINE p == Power(k)
             x == y \div p
  <1>1. PICK q \in Nat : q > 0 /\ Power(n) = Power(k + 1) * q
    BY PowerDivides DEF Factors
  <1>2. p \in Nat /\ p > 0 /\ Power(k + 1) = 2 * p
    BY PowerDoubles
  <1> DEFINE m == b * q
             z == y + (2 * m) * p
  <1>3. y + (b * Power(n)) = z /\ m \in Nat
    <2> HIDE DEF p
    <2> QED  BY <1>1, <1>2
  <1>4. z \div p = x + m * 2
    <2> DEFINE j == x + m * 2
               r == y % p
    <2>1. x \in Int /\ r \in 0 .. p - 1 /\ y = x * p + r
      <3> HIDE DEF p
      <3> QED  BY <1>2, DivMod
    <2>2. z = j * p + r /\ j \in Int
      <3> HIDE DEF p, x, m, r
      <3> QED  BY <1>2, <1>3, <2>1
    <2>3. (j * p + r) \div p = j
      <3> HIDE DEF p, j, r
      <3> QED  BY <1>2, <2>1, <2>2, DivModUnique
    <2> HIDE DEF z, j, p, r
    <2>4. z \div p = j
      BY <2>2, <2>3
    <2> QED  BY <2>4 DEF j
  <1>5. (x + m * 2) % 2 = x % 2
    <2>1. x \in Int /\ m \in Int
      <3> HIDE DEF p
      <3> QED  BY <1>2, <1>3
    <2> HIDE DEF x, m
    <2> QED  BY <2>1, SameRemainder
  <1>6. BitOf(z, k) = (z \div p) % 2 /\ BitOf(y, k) = x % 2
    BY DEF BitOf, Power
  <1> QED
    <2>1. BitOf(z, k) = x % 2
      <3> HIDE DEF x, m, z, p
      <3> QED  BY <1>4, <1>5, <1>6
    <2> HIDE DEF z
    <2> QED  BY <1>3, <1>6, <2>1

\* Every set of bits is that of a number.
HasBits(y, n, set) == \A k \in 0 .. n - 1 : BitOf(y, k) = IF k \in set THEN 1 ELSE 0

LEMMA SomeNumber ==
  ASSUME NEW set, NEW n \in 0..16
  PROVE  \E y \in 0 .. Power(n) - 1 : HasBits(y, n, set)
  <1> DEFINE T == {i \in 0..16 : \E y \in 0 .. Power(i) - 1 : HasBits(y, i, set)}
  <1>1. 0 \in T
    BY Powers DEF HasBits
  <1>2. ASSUME NEW i \in 0..15, i \in T  PROVE i + 1 \in T
    <2>1. PICK y \in 0 .. Power(i) - 1 : HasBits(y, i, set)
      BY <1>2
    <2> DEFINE p == Power(i)
               b == IF i \in set THEN 1 ELSE 0
               z == y + (b * p)
    <2>2. p \in Nat /\ p > 0 /\ Power(i + 1) = 2 * p /\ b \in {0, 1} /\ b \in Nat
          /\ y \in 0 .. p - 1 /\ y \in Nat
      BY PowerDoubles
    <2>3. z \in 0 .. 2 * p - 1 /\ z \in Nat
      <3> HIDE DEF p, b
      <3>1. CASE b = 0  BY <2>2, <3>1
      <3>2. CASE b = 1  BY <2>2, <3>2
      <3> QED  BY <2>2, <3>1, <3>2
    <2>4. BitOf(z, i) = b
      <3>1. z \div p = b
        <4> HIDE DEF p, b
        <4>1. b \in Int /\ y \in 0 .. p - 1 /\ (b * p + y) \div p = b
          BY <2>1, <2>2, DivModUnique DEF p
        <4>2. y + (b * p) = b * p + y
          BY <2>2
        <4> DEFINE u == b * p + y
        <4>3. z = u /\ u \div p = b
          BY <4>1, <4>2
        <4> HIDE DEF u, z
        <4> QED  BY <4>3
      <3>2. BitOf(z, i) = (z \div p) % 2
        BY DEF BitOf, Power
      <3>3. BitOf(z, i) = b % 2
        <4> HIDE DEF z, p, b
        <4> QED  BY <3>1, <3>2
      <3> HIDE DEF z
      <3> QED  BY <3>3
    <2>5. \A k \in 0 .. i - 1 : BitOf(z, k) = IF k \in set THEN 1 ELSE 0
      <3> SUFFICES ASSUME NEW k \in 0 .. i - 1
                   PROVE BitOf(z, k) = IF k \in set THEN 1 ELSE 0
        OBVIOUS
      <3>1. k \in 0..31 /\ i \in 0..31 /\ k < i
        OBVIOUS
      <3>2. BitOf(y + (b * Power(i)), k) = BitOf(y, k)
        <4> HIDE DEF b
        <4> QED  BY ONLY <2>2, <3>1, HigherBits
      <3> HIDE DEF b
      <3> QED  BY <2>1, <3>2 DEF HasBits
    <2>6. HasBits(z, i + 1, set)
      <3> SUFFICES ASSUME NEW k \in 0 .. (i + 1) - 1
                   PROVE BitOf(z, k) = IF k \in set THEN 1 ELSE 0
        BY DEF HasBits
      <3>1. k = i \/ k \in 0 .. i - 1
        OBVIOUS
      <3> HIDE DEF z
      <3> QED  BY <2>4, <2>5, <3>1
    <2> HIDE DEF z, p
    <2> QED  BY <2>2, <2>3, <2>6
  <1>3. 0 .. 16 \subseteq T
    <2> HIDE DEF T
    <2> QED  BY ONLY <1>1, <1>2, Reaches
  <1> QED  BY <1>3

LEMMA BitsOfNumber ==
  ASSUME NEW set, set \subseteq 0 .. WordBits - 1
  PROVE  Number(set) \in Words /\ HasBits(Number(set), WordBits, set)
  <1>1. PICK n \in 1..8 : WordBits = 2 * n
    BY WordBitsAssumption
  <1>2. WordBits \in 0..16 /\ WordSize = Power(WordBits)
    BY <1>1 DEF WordSize, Power
  <1>3. PICK y \in 0 .. Power(WordBits) - 1 : HasBits(y, WordBits, set)
    BY <1>2, SomeNumber
  <1>4. y \in Words
    BY <1>2 DEF Words
  <1>5. Bits(y) = set
    <2>1. \A k \in 0 .. WordBits - 1 : BitOf(y, k) = 1 <=> k \in set
      BY <1>3 DEF HasBits
    <2> QED  BY <2>1 DEF Bits
  <1>6. Number(set) \in Words /\ Bits(Number(set)) = set
    <2>1. \E x \in Words : Bits(x) = set
      BY <1>4, <1>5
    <2> QED  BY <2>1 DEF Number
  <1>7. \A k \in 0 .. WordBits - 1 : BitOf(Number(set), k) \in {0, 1}
    <2> SUFFICES ASSUME NEW k \in 0 .. WordBits - 1  PROVE BitOf(Number(set), k) \in {0, 1}
      OBVIOUS
    <2>1. Number(set) \in Nat /\ k \in 0..31
      BY <1>2, <1>6, Sizes DEF Words
    <2> QED  BY <2>1, LowerBits
  <1>8. \A k \in 0 .. WordBits - 1 : BitOf(Number(set), k) = 1 <=> k \in set
    BY <1>6 DEF Bits
  <1> QED  BY <1>6, <1>7, <1>8 DEF HasBits

-----------------------------------------------------------------------------
(***************************************************************************)
(* The instructions that work on every bit for itself.                     *)
(***************************************************************************)
\* The bits of a byte or a word, and its size.
Width(byte) == IF byte THEN WordBits \div 2 ELSE WordBits

LEMMA WideIs ==
  ASSUME NEW byte \in BOOLEAN
  PROVE  /\ WordBits \in 2..16 /\ Width(byte) \in 1..16 /\ Width(byte) <= WordBits
         /\ Size(byte) = Power(Width(byte)) /\ Size(byte) \div 2 = Power(Width(byte) - 1)
  <1>1. PICK n \in 1..8 : WordBits = 2 * n
    BY WordBitsAssumption
  <1>2. WordBits \in 2..16 /\ WordBits \div 2 = n
    BY <1>1
  <1> DEFINE m == Width(byte)
  <1>3. m \in 1..16 /\ m <= WordBits
    BY <1>2 DEF Width
  <1>4. Size(byte) = Power(m)
    BY DEF Size, ByteSize, WordSize, Power, Width
  <1>5. Power(m) \div 2 = Power(m - 1)
    <2>1. m - 1 \in 0..31 /\ (m - 1) + 1 = m
      BY <1>3
    <2> DEFINE p == Power(m - 1)
               w == Power(m)
    <2>2. p \in Nat /\ w = 2 * p
      <3>1. p \in Nat /\ Power((m - 1) + 1) = 2 * p
        <4> HIDE DEF m
        <4> QED  BY <2>1, PowerDoubles
      <3> HIDE DEF m
      <3> QED  BY <2>1, <3>1
    <2>3. w \div 2 = p
      <3> HIDE DEF p, w
      <3> QED  BY <2>2
    <2> QED  BY <2>3
  <1> QED  BY <1>2, <1>3, <1>4, <1>5

\* The bits of a word are those of its low part.
LEMMA LowKeepsBits ==
  ASSUME NEW x \in Nat, NEW m \in 1..16, NEW k \in 0 .. m - 1
  PROVE  BitOf(x % Power(m), k) = BitOf(x, k) /\ BitOf(x, k) \in {0, 1}
  <1> DEFINE p == Power(m)
             q == x \div p
             r == x % p
  <1>1. p \in Nat /\ p > 0
    BY PowerIsNatural
  <1>2. q \in Nat /\ r \in Nat /\ x = r + (q * p)
    <2> HIDE DEF p
    <2> QED  BY <1>1, DivMod
  <1>3. m \in 0..31 /\ k \in 0..31 /\ k < m
    OBVIOUS
  <1>4. BitOf(r + (q * Power(m)), k) = BitOf(r, k)
    <2> HIDE DEF p, q, r
    <2> QED  BY ONLY <1>2, <1>3, HigherBits
  <1>5. BitOf(x, k) = BitOf(r, k)
    <2> HIDE DEF q, r
    <2> QED  BY <1>2, <1>4
  <1>6. BitOf(x, k) \in {0, 1}
    BY <1>3, LowerBits
  <1> QED  BY <1>5, <1>6

\* The flags tell of the bits.
FlagsAre(flags, set, top, c) ==
  flags = [n |-> top \in set, z |-> \A k \in 0 .. top : k \notin set, v |-> FALSE, c |-> c]

LEMMA FlagsOfBits ==
  ASSUME NEW set, set \subseteq 0 .. WordBits - 1, NEW byte \in BOOLEAN, NEW f, NEW top,
         top = Width(byte) - 1
  PROVE  FlagsAre(setPSW_flags_nzv(f, Number(set), byte), set, top, f.c)
  <1> DEFINE y == Number(set)
             m == Width(byte)
  <1>1. y \in Nat /\ HasBits(y, WordBits, set)
    <2>1. y \in Words /\ HasBits(y, WordBits, set)
      BY BitsOfNumber
    <2> HIDE DEF y
    <2> QED  BY <2>1, Sizes DEF Words
  <1>2. /\ WordBits \in 2..16 /\ m \in 1..16 /\ m <= WordBits
        /\ Size(byte) = Power(m) /\ Size(byte) \div 2 = Power(m - 1)
    BY WideIs
  <1>3. \A k \in 0 .. top : BitOf(y, k) = IF k \in set THEN 1 ELSE 0
    <2> HIDE DEF m, y
    <2> QED  BY <1>1, <1>2 DEF HasBits, m
  <1>4. top \in 0..31 /\ top + 1 = m /\ top = m - 1 /\ m \in 0..32 /\ top \in 0 .. top
    BY <1>2
  <1>5. SIGN(y, byte) <=> top \in set
    <2>1. y % Power(top + 1) >= Power(top) <=> BitOf(y, top) = 1
      <3> HIDE DEF y
      <3> QED  BY ONLY <1>1, <1>4, TopByBit
    <2>2. SIGN(y, byte) <=> y % Power(m) >= Power(m - 1)
      BY <1>2 DEF SIGN, Top
    <2> HIDE DEF y, m
    <2> QED  BY <1>3, <1>4, <2>1, <2>2
  <1>6. IS_0(y, byte) <=> \A k \in 0 .. top : k \notin set
    <2>1. y % Power(m) = 0 <=> \A k \in 0 .. m - 1 : BitOf(y, k) = 0
      <3> HIDE DEF y, m
      <3> QED  BY ONLY <1>1, <1>4, ZeroByBits
    <2>2. IS_0(y, byte) <=> y % Power(m) = 0
      BY <1>2 DEF IS_0, Low
    <2> HIDE DEF y, m
    <2> QED  BY <1>3, <1>4, <2>1, <2>2
  <1> DEFINE n == SIGN(y, byte)
             z == IS_0(y, byte)
             sign == top \in set
             none == \A k \in 0 .. top : k \notin set
  <1>7. n \in BOOLEAN /\ z \in BOOLEAN /\ sign \in BOOLEAN /\ none \in BOOLEAN
    BY DEF SIGN, IS_0, Top
  <1>8. n = sign /\ z = none
    <2>1. (n <=> sign) /\ (z <=> none)
      BY <1>5, <1>6
    <2> HIDE DEF n, z, sign, none
    <2> QED  BY <1>7, <2>1, Zenon
  <1> HIDE DEF y
  <1> QED  BY <1>8 DEF setPSW_flags_nzv, NZVC, FlagsAre, y

\* What an instruction of the bits in set computes, when set has the bits that
\* are wanted: as far as BIT, or as a whole word.
Tells(set, t, known) ==
  \A k \in 0 .. known - 1 :
    LogicBit(t.op, BitOf(t.s, k), BitOf(t.d, k)) = IF k \in set THEN 1 ELSE 0

\* The answer t is computed from the bits of set as double_logical does.
AnswersBy(set, t) ==
  LET known == IF t.op = "BIT" THEN Width(t.byte) ELSE WordBits
  IN /\ set \subseteq 0 .. WordBits - 1
     /\ t.byte \in BOOLEAN
     /\ Tells(set, t, known)
     /\ t.r = Logic(Number(set), IF t.op = "BIT" THEN t.d ELSE Number(set), t.byte, t.f)

\* An answer from the right bits is what the logical instruction should give.
LEMMA LogicalBySet ==
  ASSUME NEW set, NEW t, AnswersBy(set, t)
  PROVE  LogicalCorrect(t)
  <1> DEFINE Wanted(k) == LogicBit(t.op, BitOf(t.s, k), BitOf(t.d, k))
             top == Width(t.byte) - 1
             y == Number(set)
             flags == setPSW_flags_nzv(t.f, y, t.byte)
             known == IF t.op = "BIT" THEN Width(t.byte) ELSE WordBits
  <1>0. /\ set \subseteq 0 .. WordBits - 1
        /\ t.byte \in BOOLEAN
        /\ Tells(set, t, known)
        /\ t.r = Logic(Number(set), IF t.op = "BIT" THEN t.d ELSE Number(set), t.byte, t.f)
    BY DEF AnswersBy
  <1>1. WordBits \in 2..16 /\ Width(t.byte) \in 1..16 /\ Width(t.byte) <= WordBits
    BY <1>0, WideIs
  <1>2. \A k \in 0 .. known - 1 : Wanted(k) = IF k \in set THEN 1 ELSE 0
    BY <1>0 DEF Tells
  <1>3. top \in 0 .. top /\ \A k \in 0 .. top : k \in 0 .. known - 1
    BY <1>1
  <1>4. flags = [n |-> top \in set, z |-> \A k \in 0 .. top : k \notin set,
                 v |-> FALSE, c |-> t.f.c]
    <2> DEFINE byte == t.byte
               f == t.f
    <2>1. byte \in BOOLEAN /\ top = Width(byte) - 1
      BY <1>0
    <2>2. FlagsAre(setPSW_flags_nzv(f, Number(set), byte), set, top, f.c)
      <3> HIDE DEF byte, f, top
      <3> QED  BY <1>0, <2>1, FlagsOfBits
    <2> QED  BY <2>2 DEF FlagsAre
  <1>5. t.r.value = (IF t.op = "BIT" THEN t.d ELSE y) /\ t.r.flags = flags
    BY <1>0 DEF Logic, Result
  <1> HIDE DEF Wanted
  <1>6. (top \in set) = (Wanted(top) = 1)
    BY <1>2, <1>3
  <1>7. (\A k \in 0 .. top : k \notin set) = (\A k \in 0 .. top : Wanted(k) = 0)
    BY <1>2, <1>3
  <1>8. t.r.flags = [n |-> Wanted(top) = 1, z |-> \A k \in 0 .. top : Wanted(k) = 0,
                     v |-> FALSE, c |-> t.f.c]
    <2> HIDE DEF top
    <2> QED  BY <1>4, <1>5, <1>6, <1>7
  <1>9. IF t.op = "BIT" THEN t.r.value = t.d
        ELSE t.r.value \in Words
             /\ \A k \in 0 .. WordBits - 1 : BitOf(t.r.value, k) = Wanted(k)
    <2>1. y \in Words /\ \A k \in 0 .. WordBits - 1 : BitOf(y, k) = IF k \in set THEN 1 ELSE 0
      BY <1>0, BitsOfNumber DEF HasBits
    <2> HIDE DEF y
    <2> QED  BY <1>2, <1>5, <2>1
  <1>10. top = (IF t.byte THEN WordBits \div 2 ELSE WordBits) - 1
    BY DEF Width
  <1> HIDE DEF top
  <1> QED  BY <1>8, <1>9, <1>10 DEF LogicalCorrect, Wanted

LEMMA LogicalIsExact ==
  ASSUME NEW op \in LogicalOps, NEW s \in Words, NEW d \in Words, NEW byte \in BOOLEAN,
         NEW f \in SomeFlags
  PROVE  LogicalCorrect([unit |-> "logical", op |-> op, s |-> s, d |-> d, byte |-> byte,
                         f |-> f, r |-> double_logical(op, s, d, byte, f)])
  <1> DEFINE set == CASE op = "BIT" -> Bits(Low(d, byte)) \cap Bits(s)
                      [] op = "BIC" -> Bits(d) \ Bits(s)
                      [] op = "BIS" -> Bits(d) \cup Bits(s)
                      [] op = "XOR" -> (Bits(d) \ Bits(s)) \cup (Bits(s) \ Bits(d))
             e == [unit |-> "logical", op |-> op, s |-> s, d |-> d, byte |-> byte,
                   f |-> f, r |-> double_logical(op, s, d, byte, f)]
             known == IF op = "BIT" THEN Width(byte) ELSE WordBits
  <1>1. op \in {"BIT", "BIC", "BIS", "XOR"}
    BY DEF LogicalOps
  <1>2. set \subseteq 0 .. WordBits - 1
    BY <1>1 DEF Bits
  <1>3. s \in Nat /\ d \in Nat
    BY Sizes DEF Words
  <1>4. WordBits \in 2..16 /\ Width(byte) \in 1..16 /\ Width(byte) <= WordBits
        /\ Size(byte) = Power(Width(byte))
    BY WideIs
  <1>5. \A k \in 0 .. WordBits - 1 : /\ BitOf(s, k) \in {0, 1} /\ BitOf(d, k) \in {0, 1}
                                     /\ (k \in Bits(s) <=> BitOf(s, k) = 1)
                                     /\ (k \in Bits(d) <=> BitOf(d, k) = 1)
    <2> SUFFICES ASSUME NEW k \in 0 .. WordBits - 1
                 PROVE  BitOf(s, k) \in {0, 1} /\ BitOf(d, k) \in {0, 1}
      BY DEF Bits
    <2>1. k \in 0..31
      BY <1>4
    <2> QED  BY <1>3, <2>1, LowerBits
  <1>6. \A k \in 0 .. Width(byte) - 1 :
          k \in 0 .. WordBits - 1 /\ (k \in Bits(Low(d, byte)) <=> BitOf(d, k) = 1)
    <2> SUFFICES ASSUME NEW k \in 0 .. Width(byte) - 1
                 PROVE  k \in 0 .. WordBits - 1 /\ (k \in Bits(Low(d, byte)) <=> BitOf(d, k) = 1)
      OBVIOUS
    <2>1. k \in 0 .. WordBits - 1
      BY <1>4
    <2>2. Low(d, byte) = d % Power(Width(byte))
      BY <1>4 DEF Low
    <2>3. BitOf(d % Power(Width(byte)), k) = BitOf(d, k)
      BY <1>3, <1>4, LowKeepsBits
    <2> QED  BY <2>1, <2>2, <2>3 DEF Bits
  <1>7. \A k \in 0 .. known - 1 :
          LogicBit(op, BitOf(s, k), BitOf(d, k)) = IF k \in set THEN 1 ELSE 0
    <2>1. CASE op = "BIT"
      <3> SUFFICES ASSUME NEW k \in 0 .. Width(byte) - 1
                   PROVE  LogicBit(op, BitOf(s, k), BitOf(d, k)) = IF k \in set THEN 1 ELSE 0
        BY <2>1
      <3>1. k \in set <=> BitOf(d, k) = 1 /\ BitOf(s, k) = 1
        BY <1>5, <1>6, <2>1
      <3>2. LogicBit(op, BitOf(s, k), BitOf(d, k)) = BitOf(s, k) * BitOf(d, k)
        BY <2>1 DEF LogicBit
      <3>3. BitOf(s, k) \in {0, 1} /\ BitOf(d, k) \in {0, 1}
        BY <1>5, <1>6
      <3> HIDE DEF set
      <3> QED  BY <3>1, <3>2, <3>3
    <2>2. CASE op # "BIT"
      <3> SUFFICES ASSUME NEW k \in 0 .. WordBits - 1
                   PROVE  LogicBit(op, BitOf(s, k), BitOf(d, k)) = IF k \in set THEN 1 ELSE 0
        BY <2>2
      <3> DEFINE a == BitOf(s, k)
                 b == BitOf(d, k)
      <3>1. a \in {0, 1} /\ b \in {0, 1} /\ (k \in Bits(s) <=> a = 1) /\ (k \in Bits(d) <=> b = 1)
        BY <1>5
      <3> HIDE DEF a, b
      <3>2. CASE op = "BIC"
        <4>1. k \in set <=> b = 1 /\ a = 0
          BY <3>1, <3>2
        <4> QED  BY <3>1, <3>2, <4>1 DEF LogicBit, a, b
      <3>3. CASE op = "BIS"
        <4>1. k \in set <=> b = 1 \/ a = 1
          BY <3>1, <3>3
        <4> QED  BY <3>1, <3>3, <4>1 DEF LogicBit, a, b
      <3>4. CASE op = "XOR"
        <4>1. k \in set <=> a # b
          BY <3>1, <3>4
        <4> QED  BY <3>1, <3>4, <4>1 DEF LogicBit, a, b
      <3> QED  BY <1>1, <2>2, <3>2, <3>3, <3>4
    <2> QED  BY <2>1, <2>2
  <1>8. double_logical(op, s, d, byte, f) =
          Logic(Number(set), IF op = "BIT" THEN d ELSE Number(set), byte, f)
    BY DEF double_logical
  <1>9. /\ e.op = op /\ e.s = s /\ e.d = d /\ e.byte = byte /\ e.f = f
        /\ e.r = Logic(Number(set), IF op = "BIT" THEN d ELSE Number(set), byte, f)
    <2> HIDE DEF set
    <2> QED  BY <1>8
  <1>10. LogicalCorrect(e)
    <2>1. AnswersBy(set, e)
      <3> HIDE DEF set, e
      <3> QED  BY <1>2, <1>7, <1>9 DEF Tells, AnswersBy
    <2> HIDE DEF set, e
    <2> QED  BY ONLY <2>1, LogicalBySet
  <1> QED  BY <1>10

-----------------------------------------------------------------------------
(***************************************************************************)
(* The shifts.                                                             *)
(***************************************************************************)
LEMMA RemainderOfRemainder ==
  ASSUME NEW size \in Int, size > 0, NEW k \in Int, k > 0, NEW x \in Int
  PROVE  (x % (size * k)) % size = x % size
  <1> DEFINE long == size * k
             q == x \div long
             r == x % long
  <1>1. long \in Int /\ long > 0
    OBVIOUS
  <1>2. q \in Int /\ r \in 0 .. long - 1 /\ x = q * long + r
    <2> HIDE DEF long
    <2> QED  BY <1>1, DivMod
  <1> DEFINE j == q * k
  <1>3. j \in Int /\ r \in Int /\ x = r + j * size
    <2> HIDE DEF q, r
    <2> QED  BY <1>2
  <1>4. (r + j * size) % size = r % size
    <2> HIDE DEF r, j
    <2> QED  BY <1>3, SameRemainder
  <1> HIDE DEF r, j
  <1> QED  BY <1>3, <1>4 DEF r

\* A number and its signed value have the same multiples, but for the size.
LEMMA SignedMultiple ==
  ASSUME NEW size \in Nat, size > 0, NEW v \in Int, NEW s \in {v, v - size}, NEW p \in Int
  PROVE  (s * p) % size = (v * p) % size
  <1>1. CASE s = v
    BY <1>1
  <1>2. CASE s = v - size
    <2> DEFINE a == v * p
               k == -p
    <2>1. s * p = a + k * size /\ a \in Int /\ k \in Int /\ size \in Int /\ size > 0
      BY <1>2
    <2>2. (a + k * size) % size = a % size
      <3> HIDE DEF a, k
      <3> QED  BY ONLY <2>1, SameRemainder
    <2> HIDE DEF k
    <2> QED  BY <2>1, <2>2
  <1> QED  BY <1>1, <1>2

\* The bit that leaves when a number is doubled.
LEMMA BitThatLeaves ==
  ASSUME NEW size \in Nat, NEW h \in Nat, h >= 1, size = 2 * h, NEW u \in Int
  PROVE  ((2 * u) \div size) % 2 = IF u % size >= h THEN 1 ELSE 0
  <1> DEFINE q == u \div size
             r == u % size
             b == IF r >= h THEN 1 ELSE 0
  <1>1. q \in Int /\ r \in 0 .. size - 1 /\ u = q * size + r
    <2>1. size \in Int /\ size > 0
      OBVIOUS
    <2> QED  BY ONLY <2>1, u \in Int, DivMod
  <1> DEFINE rest == 2 * r - b * size
             k == 2 * q + b
  <1>2. k \in Int /\ rest \in 0 .. size - 1 /\ 2 * u = k * size + rest /\ b \in {0, 1}
    <2> HIDE DEF q, r
    <2>1. CASE r >= h  BY <1>1, <2>1
    <2>2. CASE r < h   BY <1>1, <2>2
    <2> QED  BY <1>1, <2>1, <2>2
  <1>3. (k * size + rest) \div size = k
    <2> HIDE DEF k, rest
    <2> QED  BY <1>2, DivModUnique
  <1>4. k % 2 = b
    <2> HIDE DEF b, q
    <2> QED  BY <1>1, <1>2
  <1> HIDE DEF k, rest, b
  <1> QED  BY <1>2, <1>3, <1>4 DEF b

\* A signed number divided by a power of two; of its size size = 2 * h.
LEMMA QuotientInRange ==
  ASSUME NEW h \in Nat, h >= 1, NEW s \in -h .. h - 1, NEW p \in Nat, p >= 1
  PROVE  s \div p \in -h .. h - 1 /\ (s \div p < 0 <=> s < 0)
  <1> DEFINE q == s \div p
             r == s % p
  <1>1. q \in Int /\ r \in 0 .. p - 1 /\ s = q * p + r
    BY DivMod
  <1> HIDE DEF q, r
  <1>2. CASE s >= 0
    <2>1. q >= 0
      <3> SUFFICES ASSUME q <= -1  PROVE FALSE
        BY <1>1
      <3>1. q * p <= -p
        BY <1>1
      <3> QED  BY <1>1, <1>2, <3>1
    <2>2. q <= q * p
      BY <1>1, <2>1
    <2> QED  BY <1>1, <1>2, <2>1, <2>2 DEF q
  <1>3. CASE s < 0
    <2>1. q < 0
      <3> SUFFICES ASSUME q >= 0  PROVE FALSE
        BY <1>1
      <3>1. q * p >= 0
        BY <1>1
      <3> QED  BY <1>1, <1>3, <3>1
    <2>2. q >= s
      <3> SUFFICES ASSUME q <= s - 1  PROVE FALSE
        BY <1>1
      <3> DEFINE d == s - 1 - q
                 e == -s
                 g == p - 1
      <3>1. d \in Nat /\ e \in Nat /\ g \in Nat /\ q = (-e) - 1 - d /\ s = -e /\ p = g + 1
        BY <1>1, <1>3
      <3> HIDE DEF d, e, g
      <3>2. q * p = (-(e * g)) - e - p - (d * p)
        BY <3>1
      <3>3. e * g >= 0 /\ d * p >= 0 /\ e * g \in Nat /\ d * p \in Nat
        BY <3>1
      <3> DEFINE x == q * p
                 y == e * g
                 z == d * p
      <3>4. x = (-y) - e - p - z /\ y \in Nat /\ z \in Nat /\ s = x + r
        BY <1>1, <3>2, <3>3
      <3> HIDE DEF x, y, z
      <3> QED  BY <1>1, <3>1, <3>4
    <2> QED  BY <1>3, <2>1, <2>2 DEF q
  <1> QED  BY <1>2, <1>3

\* A quotient, when a multiple of the divisor is added to the number.
LEMMA QuotientOfSum ==
  ASSUME NEW p \in Nat, p >= 1, NEW s \in Int, NEW k \in Int
  PROVE  (s + k * p) \div p = (s \div p) + k
  <1> DEFINE q == s \div p
             r == s % p
             j == q + k
  <1>1. q \in Int /\ r \in 0 .. p - 1 /\ s = q * p + r
    BY DivMod
  <1>2. s + k * p = j * p + r /\ j \in Int
    <2> HIDE DEF q, r
    <2> QED  BY <1>1
  <1>3. (j * p + r) \div p = j
    <2> HIDE DEF j, r
    <2> QED  BY <1>1, <1>2, DivModUnique
  <1> HIDE DEF j, r
  <1> QED  BY <1>2, <1>3 DEF j

\* What ShiftCorrect compares with, for a number v of the given size, s when it
\* is signed, and a signed count.
ShiftedBy(s, n) == IF n >= 0 THEN s * Power(n) ELSE s \div Power(-n)
LastLost(v, s, size, count) ==
  IF count > 0 THEN ((v * Power(count)) \div size) % 2
  ELSE IF count < 0 THEN ShiftedBy(s, count + 1) % 2 ELSE 0
SignMoves(s, size, count) ==
  \E n \in 0 .. count : (ShiftedBy(s, n) % size >= size \div 2) # (ShiftedBy(s, 0) < 0)

\* value, c and v are what the shifts leave of v, whose size is one of the two.
ShiftLeaves(v, s, size, count, value, c, o) ==
  /\ value \in Int
  /\ value % size = ShiftedBy(s, count) % size
  /\ c <=> LastLost(v, s, size, count) = 1
  /\ o <=> SignMoves(s, size, count)

LEMMA ShiftIsCorrect ==
  ASSUME NEW t, NEW v, NEW size \in Nat, NEW h \in Nat, h >= 1, size = 2 * h,
         NEW s, NEW count \in Int, NEW value, NEW c \in BOOLEAN, NEW o \in BOOLEAN,
         t.v = v, t.size = size, s = Signed(v, size), count = Signed(t.x, 4 * WordBits),
         t.r = Result(value % size,
                      [n |-> Top(value, size), z |-> value % size = 0, v |-> o, c |-> c]),
         ShiftLeaves(v, s, size, count, value, c, o)
  PROVE  ShiftCorrect(t)
  <1> DEFINE y == value % size
             lost == LastLost(v, s, size, count)
             moves == SignMoves(s, size, count)
             exact == ShiftedBy(s, count)
             f == t.r.flags
  <1>1. value \in Int /\ size \in Int /\ size > 0 /\ y = exact % size
        /\ (c <=> lost = 1) /\ (o <=> moves) /\ size \div 2 = h
    BY DEF ShiftLeaves
  <1>2. y \in 0 .. size - 1
    <2> HIDE DEF lost, moves, exact
    <2> QED  BY ONLY <1>1, DivMod
  <1>3. y % size = y
    <2> HIDE DEF y
    <2> QED  BY ONLY <1>2, size \in Nat, Wrapped, <1>1
  <1>4. t.r.value = y /\ f = [n |-> y >= h, z |-> y = 0, v |-> o, c |-> c]
    <2> HIDE DEF lost, moves, exact
    <2> QED  BY <1>1 DEF Result, Top
  <1>5. Signed(y, size) < 0 <=> y >= h
    <2> HIDE DEF y
    <2> QED  BY <1>1, <1>2, <1>3 DEF Signed, Top
  <1>6. c = (lost = 1) /\ o = moves
    <2> DEFINE a == lost = 1
    <2>1. a \in BOOLEAN /\ moves \in BOOLEAN /\ (c <=> a) /\ (o <=> moves)
      BY <1>1 DEF SignMoves
    <2> HIDE DEF a, moves
    <2>2. c = a /\ o = moves
      BY <2>1, c \in BOOLEAN, o \in BOOLEAN, Zenon
    <2> QED  BY <2>2 DEF a
  <1>7. Correct(t.r.value, size, f, exact, lost = 1)
    <2>1. f.n = (y >= h) /\ f.z = (y = 0) /\ f.c = (lost = 1)
      <3> HIDE DEF y, lost, f
      <3> QED  BY <1>4, <1>6
    <2>2. f.n = (Signed(y, size) < 0)
      <3> DEFINE a == y >= h
                 b == Signed(y, size) < 0
      <3>1. a \in BOOLEAN /\ b \in BOOLEAN /\ (a <=> b) /\ f.n = a
        BY <1>5, <2>1
      <3> HIDE DEF a, b, f
      <3>2. f.n = b
        BY <3>1, Zenon
      <3> QED  BY <3>2 DEF b
    <2> HIDE DEF y, lost, f, exact
    <2> QED  BY <1>1, <1>3, <1>4, <2>1, <2>2 DEF Correct
  <1>8. t.r.value < size /\ f.v = moves
    <2> HIDE DEF moves, y, f
    <2> QED  BY <1>2, <1>4, <1>6
  <1> DEFINE Exact(n) == IF n >= 0 THEN Signed(t.v, t.size) * 2 ^ n
                                   ELSE Signed(t.v, t.size) \div 2 ^ (-n)
             gone == IF count > 0 THEN ((t.v * 2 ^ count) \div t.size) % 2
                     ELSE IF count < 0 THEN Exact(count + 1) % 2 ELSE 0
  <1>9. \A n : Exact(n) = ShiftedBy(s, n)
    BY DEF ShiftedBy, Power
  <1>10. gone = lost
    <2> HIDE DEF Exact
    <2> QED  BY <1>9 DEF LastLost, Power
  <1>11. moves = \E n \in 0 .. count : (Exact(n) % t.size >= t.size \div 2) # (Exact(0) < 0)
    <2> HIDE DEF Exact
    <2> QED  BY <1>9 DEF SignMoves
  <1>12. Exact(count) = exact
    BY <1>9
  <1>13. ShiftCorrect(t) <=>
           /\ Correct(t.r.value, t.size, t.r.flags, Exact(count), gone = 1)
           /\ t.r.value < t.size
           /\ t.r.flags.v = \E n \in 0 .. count :
                              (Exact(n) % t.size >= t.size \div 2) # (Exact(0) < 0)
    BY DEF ShiftCorrect
  <1> HIDE DEF Exact, gone, lost, moves, exact, y
  <1> QED  BY <1>7, <1>8, <1>10, <1>11, <1>12, <1>13 DEF f

LEMMA LongIs ==
  /\ WordBits \in 2..16 /\ WordSize = Power(WordBits) /\ LongSize = Power(2 * WordBits)
  /\ WordSize \in Nat /\ WordSize > 0 /\ LongSize = WordSize * WordSize
  <1>1. PICK n \in 1..8 : WordBits = 2 * n
    BY WordBitsAssumption
  <1>2. WordSize = Power(2 * n) /\ LongSize = WordSize * WordSize
    BY <1>1 DEF WordSize, LongSize, Power
  <1>3. CASE n \in {1, 2, 3}
    BY <1>1, <1>2, <1>3, Powers
  <1>4. CASE n \in {4, 5, 6}
    BY <1>1, <1>2, <1>4, Powers, PowersOn
  <1>5. CASE n \in {7, 8}
    BY <1>1, <1>2, <1>5, Powers, PowersOn
  <1> QED  BY <1>3, <1>4, <1>5

\* A word or a long: its half, how often it is in a long, and what a number v
\* of that size is, when signed.
Shiftable(v, s, size, h, k) ==
  /\ size \in Nat /\ size > 0 /\ h \in Nat /\ h >= 1 /\ size = 2 * h
  /\ k \in Nat /\ k >= 1 /\ LongSize = size * k
  /\ v \in 0 .. size - 1 /\ s \in {v, v - size} /\ s \in -h .. h - 1
  /\ v % size = v /\ (s < 0 <=> v >= h)

LEMMA SignedShiftable ==
  ASSUME NEW size \in {WordSize, LongSize}, NEW v \in 0 .. size - 1, NEW s, s = Signed(v, size)
  PROVE  \E h, k : Shiftable(v, s, size, h, k)
  <1> DEFINE h == size \div 2
             k == IF size = WordSize THEN WordSize ELSE 1
  <1>1. WordSize \in Nat /\ LongSize = WordSize * WordSize /\ WordSize = 2 * (WordSize \div 2)
        /\ WordSize \div 2 \in Nat /\ WordSize \div 2 >= 1
    BY Sizes DEF LongSize
  <1>2. LongSize = 2 * ((WordSize \div 2) * WordSize)
    BY <1>1
  <1>3. size \in Nat /\ size > 0 /\ h \in Nat /\ h >= 1 /\ size = 2 * h
    <2>1. CASE size = WordSize
      BY <1>1, <2>1
    <2>2. CASE size = LongSize
      <3> DEFINE g == (WordSize \div 2) * WordSize
      <3>1. g \in Nat /\ g >= 1
        BY <1>1
      <3>2. size = 2 * g
        BY <1>2, <2>2
      <3> HIDE DEF g
      <3> QED  BY <3>1, <3>2
    <2> QED  BY <2>1, <2>2
  <1>4. k \in Nat /\ k >= 1 /\ LongSize = size * k
    BY <1>1, <1>3
  <1>5. s = (IF v < h THEN v ELSE v - size) /\ v % size = v
    <2> HIDE DEF h
    <2> QED  BY ONLY <1>3, s = Signed(v, size), v \in 0 .. size - 1, SignedValue, Wrapped
  <1> HIDE DEF h, k
  <1>6. Shiftable(v, s, size, h, k)
    BY <1>3, <1>4, <1>5 DEF Shiftable
  <1> QED  BY <1>6

\* A count of zero leaves everything.
LEMMA NoShift ==
  ASSUME NEW v, NEW s, NEW size, NEW h, NEW k, Shiftable(v, s, size, h, k)
  PROVE  ShiftLeaves(v, s, size, 0, v, FALSE, FALSE)
  <1>1. ShiftedBy(s, 0) = s /\ LastLost(v, s, size, 0) = 0
    BY Powers DEF ShiftedBy, LastLost, Shiftable
  <1>2. s % size = v % size
    <2>1. size \in Nat /\ size > 0 /\ v \in Int /\ s \in {v, v - size} /\ 1 \in Int
      BY DEF Shiftable
    <2>2. (s * 1) % size = (v * 1) % size
      BY ONLY <2>1, SignedMultiple
    <2>3. s * 1 = s /\ v * 1 = v
      BY <2>1
    <2> QED  BY <2>2, <2>3
  <1>3. ~SignMoves(s, size, 0)
    <2>1. s % size >= size \div 2 <=> s < 0
      BY <1>2 DEF Shiftable
    <2>2. (s % size >= size \div 2) = (s < 0)
      BY <2>1
    <2>3. ~((ShiftedBy(s, 0) % size >= size \div 2) # (ShiftedBy(s, 0) < 0))
      BY <1>1, <2>2
    <2>4. 0 .. 0 = {0}
      OBVIOUS
    <2> QED  BY <2>3, <2>4 DEF SignMoves
  <1>4. v \in Int
    BY DEF Shiftable
  <1> QED  BY <1>1, <1>2, <1>3, <1>4 DEF ShiftLeaves

\* To the left: every step keeps the remainder of the signed multiple.
LEMMA LeftStep ==
  ASSUME NEW v, NEW s, NEW size, NEW h, NEW k, Shiftable(v, s, size, h, k), NEW n \in 0..32
  PROVE  /\ ShiftedBy(s, n) % size = ((v * Power(n)) % LongSize) % size
         /\ ((v * Power(n)) % LongSize) % size = (v * Power(n)) % size
         /\ (v * Power(n)) % LongSize \in Int /\ v * Power(n) \in Int
  <1> DEFINE p == Power(n)
             a == v * p
  <1>1. p \in Int /\ a \in Int /\ size \in Nat /\ size \in Int /\ size > 0 /\ k \in Int /\ k > 0
        /\ v \in Int /\ s \in {v, v - size} /\ LongSize = size * k /\ LongSize \in Int
        /\ LongSize > 0
    BY PowerIsNatural DEF Shiftable
  <1>2. (s * p) % size = a % size
    <2>1. (s * p) % size = (v * p) % size
      <3> HIDE DEF p
      <3> QED  BY ONLY <1>1, SignedMultiple
    <2> QED  BY <2>1
  <1>3. (a % (size * k)) % size = a % size
    <2> HIDE DEF a
    <2> QED  BY ONLY <1>1, RemainderOfRemainder
  <1>4. ShiftedBy(s, n) = s * p
    BY DEF ShiftedBy
  <1>5. a % LongSize \in Int
    <2> HIDE DEF a
    <2> QED  BY <1>1, DivMod
  <1> HIDE DEF p
  <1> QED  BY <1>1, <1>2, <1>3, <1>4, <1>5 DEF p

LEMMA LeftIsExact ==
  ASSUME NEW v, NEW s, NEW size, NEW h, NEW k, Shiftable(v, s, size, h, k),
         NEW x \in 1 .. 2 * WordBits - 1, NEW r, r = ShiftLeft(v, x, size)
  PROVE  ShiftLeaves(v, s, size, x, r.value, r.c, r.v) /\ r.c \in BOOLEAN /\ r.v \in BOOLEAN
  <1> DEFINE Left(i) == (v * Power(i)) % LongSize
  <1>1. /\ r.value = Left(x) /\ r.c = Top(Left(x - 1), size)
        /\ r.v = \E i \in 1 .. x : Top(Left(i), size) # Top(v, size)
    BY DEF ShiftLeft, Power
  <1>2. x \in 1..32 /\ x - 1 \in 0..31 /\ x \in Int /\ x > 0 /\ x \in 0..32 /\ x - 1 \in 0..32
        /\ (x - 1) + 1 = x
    BY LongIs
  <1>3. ASSUME NEW n \in 0..32
        PROVE  ShiftedBy(s, n) % size = Left(n) % size /\ Left(n) % size = (v * Power(n)) % size
               /\ Left(n) \in Int
    BY LeftStep
  <1>4. size \in Nat /\ h \in Nat /\ h >= 1 /\ size = 2 * h /\ size \div 2 = h
    BY DEF Shiftable
  <1> HIDE DEF Left
  <1>5. r.value \in Int /\ r.value % size = ShiftedBy(s, x) % size
    BY <1>1, <1>2, <1>3
  <1>6. r.c <=> LastLost(v, s, size, x) = 1
    <2> DEFINE u == v * Power(x - 1)
               b == ((2 * u) \div size) % 2
    <2>1. u \in Int /\ v \in Int /\ Power(x) = 2 * Power(x - 1) /\ Power(x - 1) \in Int
      <3>1. Power(x - 1) \in Nat /\ Power((x - 1) + 1) = 2 * Power(x - 1)
        BY ONLY <1>2, PowerDoubles
      <3>2. v \in Int
        BY DEF Shiftable
      <3>3. u \in Int
        BY <3>1, <3>2
      <3> QED  BY <1>2, <3>1, <3>2, <3>3
    <2>2. v * Power(x) = 2 * u
      BY <2>1
    <2>3. b = IF u % size >= h THEN 1 ELSE 0
      <3> HIDE DEF u
      <3> QED  BY ONLY <1>4, <2>1, BitThatLeaves
    <2>4. LastLost(v, s, size, x) = b
      <3> HIDE DEF u
      <3> QED  BY <1>2, <2>2 DEF LastLost
    <2>5. r.c <=> Left(x - 1) % size >= h
      BY <1>1, <1>4 DEF Top
    <2>6. Left(x - 1) % size = u % size
      BY <1>2, <1>3
    <2> HIDE DEF b, u
    <2> QED  BY <2>3, <2>4, <2>5, <2>6
  <1>7. r.v <=> SignMoves(s, size, x)
    <2> DEFINE up == v >= h
               Big(n) == Left(n) % size >= h
    <2>1. up <=> s < 0
      BY DEF Shiftable
    <2>2. ShiftedBy(s, 0) = s
      BY Powers DEF ShiftedBy, Shiftable
    <2>3. SignMoves(s, size, x) <=> \E n \in 0 .. x : ~(Big(n) <=> up)
      <3>1. \A n \in 0 .. x : n \in 0..32
        BY <1>2
      <3>2. \A n \in 0 .. x : (ShiftedBy(s, n) % size >= size \div 2) <=> Big(n)
        BY <1>3, <1>4, <3>1
      <3>3. (ShiftedBy(s, 0) < 0) <=> up
        BY <2>1, <2>2
      <3> HIDE DEF Big, up
      <3> QED  BY <3>2, <3>3 DEF SignMoves
    <2>4. Big(0) <=> up
      <3>1. Left(0) % size = (v * Power(0)) % size
        BY <1>3
      <3>2. v * Power(0) = v /\ v % size = v
        BY Powers DEF Shiftable
      <3> QED  BY <3>1, <3>2
    <2>5. r.v <=> \E i \in 1 .. x : ~(Big(i) <=> up)
      <3>1. Top(v, size) <=> up
        BY <1>4 DEF Top, Shiftable
      <3>2. \A i \in 1 .. x : Top(Left(i), size) <=> Big(i)
        BY <1>4 DEF Top
      <3> HIDE DEF up, Big
      <3>3. \A i \in 1 .. x : Top(Left(i), size) # Top(v, size) <=> ~(Big(i) <=> up)
        BY <3>1, <3>2 DEF Top
      <3> QED  BY <1>1, <3>3
    <2>6. \A n \in 0 .. x : n = 0 \/ n \in 1 .. x
      BY <1>2
    <2>7. \A n \in 1 .. x : n \in 0 .. x
      OBVIOUS
    <2> HIDE DEF Big, up
    <2> QED  BY <2>3, <2>4, <2>5, <2>6, <2>7
  <1>8. r.c \in BOOLEAN /\ r.v \in BOOLEAN
    BY <1>1 DEF Top
  <1> QED  BY <1>5, <1>6, <1>7, <1>8 DEF ShiftLeaves

\* To the right by a long: only the sign is left.
LEMMA OnlySign ==
  ASSUME NEW h \in Nat, h >= 1, NEW s \in -h .. h - 1, NEW p \in Nat, p >= h
  PROVE  s \div p = IF s < 0 THEN -1 ELSE 0
  <1>1. CASE s >= 0
    <2>1. (0 * p + s) \div p = 0
      BY <1>1, DivModUnique
    <2> QED  BY <1>1, <2>1
  <1>2. CASE s < 0
    <2> DEFINE r == s + p
    <2>1. r \in 0 .. p - 1 /\ s = (-1) * p + r /\ p > 0
      BY <1>2
    <2>2. ((-1) * p + r) \div p = -1
      <3> HIDE DEF r
      <3> QED  BY <2>1, DivModUnique
    <2> HIDE DEF r
    <2> QED  BY <1>2, <2>1, <2>2
  <1> QED  BY <1>1, <1>2

LEMMA LongShiftIsExact ==
  ASSUME NEW v, NEW s, NEW size, NEW h, NEW k, Shiftable(v, s, size, h, k),
         NEW sign \in BOOLEAN, sign = Top(v, size)
  PROVE  ShiftLeaves(v, s, size, -(2 * WordBits), IF sign THEN LongSize - 1 ELSE 0, sign, FALSE)
  <1> DEFINE w == 2 * WordBits
             e == IF sign THEN -1 ELSE 0
             value == IF sign THEN LongSize - 1 ELSE 0
  <1>1. w \in 4..32 /\ w \in Int /\ w - 1 \in 0..31 /\ (w - 1) + 1 = w /\ LongSize = Power(w)
    BY LongIs
  <1>2. /\ size \in Nat /\ size > 0 /\ h \in Nat /\ h >= 1 /\ size = 2 * h /\ size \div 2 = h
        /\ k \in Nat /\ k >= 1 /\ LongSize = size * k /\ s \in -h .. h - 1
        /\ (s < 0 <=> sign)
    <2>1. /\ size \in Nat /\ size > 0 /\ h \in Nat /\ h >= 1 /\ size = 2 * h
          /\ k \in Nat /\ k >= 1 /\ LongSize = size * k /\ s \in -h .. h - 1
          /\ v % size = v /\ (s < 0 <=> v >= h)
      BY DEF Shiftable
    <2>2. size \div 2 = h
      BY <2>1
    <2>3. sign <=> v >= h
      BY <2>1, <2>2 DEF Top
    <2> QED  BY <2>1, <2>2, <2>3
  <1>3. /\ Power(w - 1) \in Nat /\ Power(w) = 2 * Power(w - 1)
        /\ Power(w - 1) >= h /\ Power(w) >= h
    <2> DEFINE p == Power(w - 1)
               m == Power(w)
    <2>1. p \in Nat /\ m = 2 * p
      <3>1. Power(w - 1) \in Nat /\ Power((w - 1) + 1) = 2 * Power(w - 1)
        <4> HIDE DEF w
        <4> QED  BY ONLY <1>1, PowerDoubles
      <3> HIDE DEF w
      <3> QED  BY <1>1, <3>1
    <2>2. m = 2 * (h * k) /\ h * k >= h
      <3>1. h * k = h + h * (k - 1) /\ h * (k - 1) >= 0
        BY <1>2
      <3> QED  BY <1>1, <1>2, <3>1
    <2> DEFINE g == h * k
    <2>3. g \in Nat /\ m = 2 * g /\ g >= h
      BY <1>2, <2>2
    <2> HIDE DEF p, m, g
    <2>4. p \in Nat /\ m = 2 * p /\ p >= h /\ m >= h
      BY <1>2, <2>1, <2>3
    <2> QED  BY <2>4 DEF p, m
  <1>4. ShiftedBy(s, -w) = e
    <2>1. -w < 0 /\ -(-w) = w
      BY <1>1
    <2>2. s \div Power(w) = e
      <3>1. Power(w) \in Nat
        BY <1>1, PowerIsNatural
      <3>2. s \div Power(w) = IF s < 0 THEN -1 ELSE 0
        <4> HIDE DEF w
        <4> QED  BY <1>2, <1>3, <3>1, OnlySign
      <3> QED  BY <1>2, <3>2
    <2> HIDE DEF w, e
    <2> QED  BY <1>1, <2>1, <2>2 DEF ShiftedBy
  <1>5. LastLost(v, s, size, -w) = IF sign THEN 1 ELSE 0
    <2>1. -w < 0 /\ ~(-w > 0) /\ -w + 1 < 0 /\ ~(-w + 1 >= 0) /\ -(-w + 1) = w - 1
      BY <1>1
    <2>2. ShiftedBy(s, -w + 1) = s \div Power(w - 1)
      <3> HIDE DEF w
      <3> QED  BY <2>1 DEF ShiftedBy
    <2>3. s \div Power(w - 1) = IF s < 0 THEN -1 ELSE 0
      <3> HIDE DEF w
      <3> QED  BY <1>2, <1>3, OnlySign
    <2>4. e % 2 = IF sign THEN 1 ELSE 0
      OBVIOUS
    <2>5. ShiftedBy(s, -w + 1) = e
      BY <1>2, <2>2, <2>3
    <2> HIDE DEF w, e
    <2> QED  BY <2>1, <2>4, <2>5 DEF LastLost
  <1>6. ~SignMoves(s, size, -w)
    <2>1. 0 .. -w = {}
      BY <1>1
    <2> HIDE DEF w
    <2> QED  BY <2>1 DEF SignMoves
  <1>7. value \in Int /\ value % size = e % size
    <2>1. LongSize \in Int
      BY <1>2
    <2>2. CASE sign
      <3>1. (-1 + k * size) % size = (-1) % size
        BY ONLY <1>2, SameRemainder, -1 \in Int, k \in Int, size \in Int
      <3>2. value = -1 + k * size /\ e = -1
        BY <1>2, <2>2
      <3> QED  BY <2>1, <3>1, <3>2
    <2>3. CASE ~sign
      BY <2>3
    <2> QED  BY <2>2, <2>3
  <1> HIDE DEF w, e, value
  <1>8. ShiftLeaves(v, s, size, -w, value, sign, FALSE)
    BY <1>4, <1>5, <1>6, <1>7 DEF ShiftLeaves
  <1> QED  BY <1>8 DEF w, value

\* The wide register: what it holds is the signed number, and a multiple of the
\* long if that is negative.
LEMMA WideQuotient ==
  ASSUME NEW long \in Nat, long > 0, NEW p \in Nat, p >= 1, NEW q \in Nat, long = p * q,
         NEW e \in Int, NEW b \in {0, 1}
  PROVE  ((e + b * (long * long)) \div p) % long = (e \div p) % long
  <1> DEFINE m == b * (q * long)
             j == b * q
             d == e \div p
  <1>1. e + b * (long * long) = e + m * p /\ m \in Int /\ j \in Int /\ m = j * long
    <2>1. long * long = (q * long) * p
      BY long = p * q
    <2> DEFINE g == q * long
    <2>2. g \in Int /\ long * long = g * p /\ m = b * g
      BY <2>1
    <2>3. b * (g * p) = (b * g) * p
      <3> HIDE DEF g
      <3> QED  BY <2>2
    <2>4. m = j * long
      OBVIOUS
    <2> HIDE DEF g
    <2> QED  BY <2>2, <2>3, <2>4
  <1>2. (e + m * p) \div p = d + m
    <2> HIDE DEF m
    <2> QED  BY <1>1, QuotientOfSum
  <1>3. d \in Int
    BY DivMod
  <1>4. (d + j * long) % long = d % long
    <2> HIDE DEF d, j
    <2> QED  BY ONLY <1>1, <1>3, SameRemainder, long \in Int, long > 0
  <1> HIDE DEF m, j, d
  <1> QED  BY <1>1, <1>2, <1>4 DEF d

LEMMA WideIsSigned ==
  ASSUME NEW v, NEW s, NEW size, NEW h, NEW k, Shiftable(v, s, size, h, k),
         NEW e \in -h .. h - 1, NEW y \in 0 .. LongSize - 1, y % LongSize = e % LongSize
  PROVE  (IF e < 0 THEN Extended(y, size) ELSE y) =
           e + (IF e < 0 THEN 1 ELSE 0) * (LongSize * LongSize)
  <1>1. /\ size \in Nat /\ size \in Int /\ size > 0 /\ h \in Nat /\ h >= 1 /\ size = 2 * h
        /\ k \in Nat /\ k \in Int /\ k > 0 /\ LongSize = size * k
    BY DEF Shiftable
  <1>2. LongSize \in Nat /\ LongSize > 0 /\ LongSize >= size
    <2>1. size * k = size + size * (k - 1) /\ size * (k - 1) >= 0 /\ size * k \in Nat
      BY <1>1
    <2> QED  BY <1>1, <2>1
  <1>3. y % LongSize = y
    BY <1>2, Wrapped
  <1> DEFINE ll == LongSize * LongSize
  <1>4. ll \in Int
    BY <1>2
  <1>5. CASE e < 0
    <2>1. (e % (size * k)) % size = e % size
      BY ONLY <1>1, e \in Int, RemainderOfRemainder
    <2>2. y % size = e % size
      BY <1>1, <1>3, <2>1
    <2>3. e \in -size .. 2 * size - 1
      BY <1>1
    <2>4. e % size = e + size
      BY ONLY <1>1, <1>5, <2>3, Wrapped
    <2>5. Extended(y, size) = (y % size) + (ll - size)
      BY DEF Extended
    <2>6. Extended(y, size) = e + ll
      <3> HIDE DEF ll
      <3> QED  BY <1>1, <1>4, <2>2, <2>4, <2>5
    <2> HIDE DEF ll
    <2>7. 1 * ll = ll
      BY <1>4
    <2> QED  BY <1>5, <2>6, <2>7 DEF ll
  <1>6. CASE ~(e < 0)
    <2>1. e \in -LongSize .. 2 * LongSize - 1 /\ e < LongSize
      BY <1>1, <1>2, <1>6
    <2>2. e % LongSize = e
      BY ONLY <1>2, <1>6, <2>1, Wrapped
    <2>3. 0 * ll = 0
      BY <1>4
    <2> HIDE DEF ll
    <2> QED  BY <1>3, <1>6, <2>2, <2>3 DEF ll
  <1> QED  BY <1>5, <1>6

LEMMA RightIsExact ==
  ASSUME NEW v, NEW s, NEW size, NEW h, NEW k, Shiftable(v, s, size, h, k),
         NEW x \in 2 * WordBits + 1 .. 4 * WordBits - 1, NEW r, r = ShiftRight(v, x, size)
  PROVE  /\ ShiftLeaves(v, s, size, x - 4 * WordBits, r.value, r.c, r.v)
         /\ r.c \in BOOLEAN /\ r.v \in BOOLEAN
  <1> DEFINE n == 4 * WordBits - x
             j == n - 1
             p == Power(j)
             sign == Top(v, size)
             Held(y) == IF sign THEN Extended(y, size) ELSE y
             once == (Held(v) \div p) % LongSize
             all == (Held(once) \div 2) % LongSize
             e == s \div p
             f == e \div 2
             b == IF s < 0 THEN 1 ELSE 0
             ll == LongSize * LongSize
  <1>1. /\ n \in 1..31 /\ j \in 0..31 /\ j \in 0..32 /\ j + 1 = n /\ n \in Int
        /\ j = 4 * WordBits - x - 1
        /\ j <= 2 * WordBits - 1 /\ j + 1 <= 2 * WordBits /\ 2 * WordBits \in 0..32
        /\ LongSize = Power(2 * WordBits) /\ x - 4 * WordBits = -n
    BY LongIs
  <1>2. /\ size \in Nat /\ size \in Int /\ size > 0 /\ h \in Nat /\ h >= 1 /\ size = 2 * h
        /\ size \div 2 = h /\ k \in Nat /\ k \in Int /\ k > 0 /\ LongSize = size * k
        /\ s \in -h .. h - 1 /\ v \in 0 .. size - 1 /\ v % size = v /\ (s < 0 <=> v >= h)
        /\ s \in {v, v - size}
    BY DEF Shiftable
  <1>3. (sign <=> s < 0) /\ sign \in BOOLEAN
    BY <1>2 DEF Top
  <1>4. LongSize \in Nat /\ LongSize \in Int /\ LongSize > 0 /\ LongSize >= size
    <2>1. size * k = size + size * (k - 1) /\ size * (k - 1) >= 0 /\ size * k \in Nat
      BY <1>2
    <2> QED  BY <1>2, <2>1
  <1>5. p \in Nat /\ p >= 1 /\ Power(n) = p * 2 /\ p \in Int /\ p > 0
    <2>1. p \in Nat /\ p > 0 /\ Power(j + 1) = 2 * p
      <3> HIDE DEF j
      <3> QED  BY ONLY <1>1, PowerDoubles DEF p
    <2> HIDE DEF n, j, p
    <2> QED  BY <1>1, <2>1
  <1>6. PICK q \in Nat : LongSize = p * q
    <2>1. Factors(j, 2 * WordBits)
      <3>1. j <= 2 * WordBits
        BY <1>1, LongIs
      <3> HIDE DEF j
      <3> QED  BY ONLY <1>1, <3>1, PowerDivides
    <2> HIDE DEF j
    <2> QED  BY <1>1, <2>1 DEF Factors
  <1> HIDE DEF j, p
  <1>7. e \in -h .. h - 1 /\ (e < 0 <=> s < 0) /\ e \in Int
    <2>1. /\ h \in Nat /\ h >= 1 /\ s \in -h .. h - 1 /\ p \in Nat /\ p >= 1
      BY <1>2, <1>5
    <2>2. s \div p \in -h .. h - 1 /\ (s \div p < 0 <=> s < 0)
      BY ONLY <2>1, QuotientInRange
    <2> QED  BY <2>1, <2>2
  <1>8. f \in -h .. h - 1 /\ (f < 0 <=> e < 0) /\ f \in Int
    <2> HIDE DEF e
    <2>1. 2 \in Nat /\ 2 >= 1
      OBVIOUS
    <2> QED  BY ONLY <1>2, <1>7, <2>1, QuotientInRange
  <1>9. once = e % LongSize
    <2>2. Held(v) = s + b * ll
      <3>1. CASE s < 0
        <4>1. Extended(v, size) = v + (ll - size)
          BY <1>2 DEF Extended
        <4>2. ll \in Int /\ s = v - size
          BY <1>2, <1>4, <3>1
        <4>3. Held(v) = Extended(v, size) /\ b = 1
          BY <1>3, <3>1
        <4> HIDE DEF ll, Held, b
        <4> QED  BY <1>2, <4>1, <4>2, <4>3
      <3>2. CASE ~(s < 0)
        <4>1. s = v /\ Held(v) = v /\ b = 0 /\ ll \in Int
          BY <1>2, <1>3, <1>4, <3>2
        <4> HIDE DEF ll, Held, b
        <4> QED  BY <1>2, <4>1
      <3> QED  BY <3>1, <3>2
    <2>3. ((s + b * ll) \div p) % LongSize = (s \div p) % LongSize
      <3>1. b \in {0, 1} /\ s \in Int
        BY <1>2
      <3> HIDE DEF b
      <3> QED  BY ONLY <1>4, <1>5, <1>6, <3>1, WideQuotient DEF ll
    <2> HIDE DEF Held, b, ll
    <2> QED  BY <2>2, <2>3
  <1>10. once \in 0 .. LongSize - 1 /\ once % LongSize = e % LongSize
    <2>1. e % LongSize \in 0 .. LongSize - 1
      <3> HIDE DEF e
      <3> QED  BY ONLY <1>4, <1>7, DivMod
    <2> DEFINE y == e % LongSize
    <2>2. y % LongSize = y
      <3> HIDE DEF y
      <3> QED  BY <1>4, <2>1, Wrapped DEF y
    <2> HIDE DEF e, once
    <2> QED  BY <1>9, <2>1, <2>2
  <1>11. Held(once) = e + b * ll
    <2>1. (IF e < 0 THEN Extended(once, size) ELSE once) = e + (IF e < 0 THEN 1 ELSE 0) * ll
      <3> HIDE DEF e, once
      <3> QED  BY <1>7, <1>10, WideIsSigned DEF ll
    <2>2. b = (IF e < 0 THEN 1 ELSE 0) /\ (sign <=> e < 0)
      BY <1>3, <1>7
    <2> HIDE DEF e, once, b, ll, sign
    <2> QED  BY <2>1, <2>2
  <1>12. all = f % LongSize
    <2> DEFINE g == h * k
    <2>1. LongSize = 2 * g /\ g \in Nat /\ 2 \in Nat /\ 2 >= 1 /\ b \in {0, 1}
      BY <1>2
    <2>2. ((e + b * ll) \div 2) % LongSize = (e \div 2) % LongSize
      <3> HIDE DEF e, b, g
      <3> QED  BY ONLY <1>4, <1>7, <2>1, WideQuotient DEF ll
    <2> HIDE DEF e, b, ll, Held, once
    <2> QED  BY <1>11, <2>2
  <1>13. once % 2 = e % 2
    <2> DEFINE g == h * k
    <2>1. LongSize = 2 * g /\ g \in Int /\ g > 0 /\ 2 \in Int /\ 2 > 0
      <3>1. h * k \in Int /\ h * k > 0
        <4>1. h * k = h + h * (k - 1) /\ h * (k - 1) >= 0
          BY <1>2
        <4> QED  BY <1>2, <4>1
      <3> QED  BY <1>2, <3>1
    <2>2. (e % (2 * g)) % 2 = e % 2
      <3> HIDE DEF e, g
      <3> QED  BY ONLY <1>7, <2>1, RemainderOfRemainder
    <2> HIDE DEF e, g, once
    <2> QED  BY <1>9, <2>1, <2>2
  <1>14. f = s \div Power(n)
    <2>1. (s \div p) \div 2 = s \div (p * 2)
      BY ONLY <1>2, <1>5, s \in Int, 2 \in Int, 2 > 0, DivDiv
    <2> HIDE DEF n
    <2> QED  BY <1>5, <2>1
  <1>15. all \in Int /\ all % size = f % size
    <2>1. (f % (size * k)) % size = f % size
      <3> HIDE DEF f
      <3> QED  BY ONLY <1>2, <1>8, RemainderOfRemainder
    <2>2. f % LongSize \in Int
      <3> HIDE DEF f
      <3> QED  BY ONLY <1>4, <1>8, DivMod
    <2> HIDE DEF f, all
    <2> QED  BY <1>2, <1>12, <2>1, <2>2
  <1>16. Top(all, size) <=> sign
    <2>1. f % size = IF f < 0 THEN f + size ELSE IF f < size THEN f ELSE f - size
      <3>1. f \in -size .. 2 * size - 1
        <4> HIDE DEF f
        <4> QED  BY <1>2, <1>8
      <3> HIDE DEF f
      <3> QED  BY ONLY <1>2, <3>1, Wrapped
    <2>2. Top(all, size) <=> f % size >= h
      <3> HIDE DEF f, all
      <3> QED  BY <1>2, <1>15 DEF Top
    <2> HIDE DEF f, all, sign, e
    <2> QED  BY <1>2, <1>3, <1>7, <1>8, <2>1, <2>2
  <1>17. r.value = all /\ r.c = (once % 2 = 1) /\ r.v = (Top(all, size) # sign)
    <2>1. p = 2 ^ (4 * WordBits - x - 1)
      BY <1>1 DEF p, Power
    <2> QED  BY <2>1 DEF ShiftRight
  <1>18. ShiftedBy(s, -n) = f
    <2>1. ~(-n >= 0) /\ -(-n) = n
      BY <1>1
    <2> HIDE DEF n, f
    <2> QED  BY <1>14, <2>1 DEF ShiftedBy
  <1>19. LastLost(v, s, size, -n) = e % 2
    <2>1. ~(-n > 0) /\ -n < 0 /\ -n + 1 = -j
      BY <1>1
    <2>2. ShiftedBy(s, -j) = e
      <3>1. CASE j = 0
        <4>1. ShiftedBy(s, -j) = s /\ p = 1
          BY <1>2, <3>1, Powers DEF ShiftedBy, p
        <4>2. s \div 1 = s
          BY <1>2
        <4> QED  BY <4>1, <4>2
      <3>2. CASE j > 0
        <4>1. ~(-j >= 0) /\ -(-j) = j
          BY <1>1, <3>2
        <4> QED  BY <4>1 DEF ShiftedBy, p
      <3> QED  BY <1>1, <3>1, <3>2
    <2> HIDE DEF n, e
    <2> QED  BY <2>1, <2>2 DEF LastLost
  <1>20. ~SignMoves(s, size, -n)
    <2>1. 0 .. -n = {}
      BY <1>1
    <2> HIDE DEF n
    <2> QED  BY <2>1 DEF SignMoves
  <1> HIDE DEF n, sign, once, all, e, f
  <1>21. r.value \in Int /\ r.value % size = f % size /\ (r.c <=> e % 2 = 1) /\ ~r.v
    <2>1. r.value \in Int /\ r.value % size = f % size
      BY <1>15, <1>17
    <2>2. r.c <=> e % 2 = 1
      BY <1>13, <1>17
    <2>3. ~r.v
      <3> DEFINE top == Top(all, size)
      <3>1. top \in BOOLEAN /\ (top <=> sign) /\ r.v = (top # sign)
        BY <1>16, <1>17 DEF Top
      <3> HIDE DEF top
      <3> QED  BY <1>3, <3>1, Zenon
    <2> QED  BY <2>1, <2>2, <2>3
  <1>22. r.c \in BOOLEAN /\ r.v \in BOOLEAN
    BY <1>17
  <1> QED  BY <1>1, <1>18, <1>19, <1>20, <1>21, <1>22 DEF ShiftLeaves

LEMMA ShifterIsExact ==
  ASSUME NEW long \in BOOLEAN, NEW size, size = (IF long THEN LongSize ELSE WordSize),
         NEW v \in 0 .. size - 1, NEW x \in Shifts, NEW t,
         t.v = v, t.size = size, t.x = x, t.r = shifter(v, x, long)
  PROVE  ShiftCorrect(t)
  <1> DEFINE s == Signed(v, size)
             w == 2 * WordBits
             count == Signed(x, 2 * w)
             sign == Top(v, size)
             raw == IF x = 0 THEN [value |-> v, c |-> FALSE, v |-> FALSE]
                    ELSE IF x < w THEN ShiftLeft(v, x, size)
                    ELSE IF x = w
                      THEN [value |-> IF sign THEN LongSize - 1 ELSE 0, c |-> sign, v |-> FALSE]
                    ELSE ShiftRight(v, x, size)
  <1>1. \E h, k : Shiftable(v, s, size, h, k)
    <2>1. size \in {WordSize, LongSize}
      OBVIOUS
    <2> HIDE DEF s
    <2> QED  BY ONLY <2>1, v \in 0 .. size - 1, SignedShiftable DEF s
  <1> HIDE DEF s
  <1>2. PICK h, k : Shiftable(v, s, size, h, k)
    BY <1>1
  <1>3. w \in 4..32 /\ w = 2 * WordBits /\ 2 * w = 4 * WordBits /\ x \in 0 .. 2 * w - 1 /\ x \in Int
    BY LongIs DEF Shifts
  <1>4. count = IF x < w THEN x ELSE x - 2 * w
    <2> DEFINE d == 2 * w
    <2>1. d \in Nat /\ w \in Nat /\ w >= 1 /\ d = 2 * w /\ x \in 0 .. d - 1
      BY <1>3
    <2>2. Signed(x, d) = IF x < w THEN x ELSE x - d
      <3> HIDE DEF d, w
      <3> QED  BY ONLY <2>1, SignedValue
    <2> QED  BY <2>2
  <1>5. t.r = Result(raw.value % size,
                     [n |-> Top(raw.value, size), z |-> raw.value % size = 0,
                      v |-> raw.v, c |-> raw.c])
    <2> HIDE DEF s, count
    <2> QED  BY DEF shifter
  <1> HIDE DEF w, count
  <1>6. sign \in BOOLEAN
    BY DEF Top
  <1>7. ShiftLeaves(v, s, size, count, raw.value, raw.c, raw.v)
        /\ raw.c \in BOOLEAN /\ raw.v \in BOOLEAN
    <2>1. CASE x = 0
      <3>1. count = 0 /\ raw.value = v /\ raw.c = FALSE /\ raw.v = FALSE
        BY <1>3, <1>4, <2>1
      <3>2. ShiftLeaves(v, s, size, 0, v, FALSE, FALSE)
        BY <1>2, NoShift
      <3> HIDE DEF raw
      <3> QED  BY <3>1, <3>2
    <2>2. CASE x \in 1 .. w - 1
      <3>1. count = x /\ raw = ShiftLeft(v, x, size) /\ x \in 1 .. 2 * WordBits - 1
        BY <1>3, <1>4, <2>2
      <3> HIDE DEF raw
      <3> QED  BY <1>2, <3>1, LeftIsExact
    <2>3. CASE x = w
      <3> DEFINE value == IF sign THEN LongSize - 1 ELSE 0
      <3>1. count = -(2 * WordBits) /\ raw.value = value /\ raw.c = sign /\ raw.v = FALSE
        <4>1. count = -(2 * WordBits)
          BY <1>3, <1>4, <2>3
        <4>2. raw = [value |-> value, c |-> sign, v |-> FALSE]
          <5> HIDE DEF value, sign
          <5> QED  BY <1>3, <2>3 DEF value
        <4> HIDE DEF raw, value, sign
        <4> QED  BY <4>1, <4>2
      <3>2. ShiftLeaves(v, s, size, -(2 * WordBits), value, sign, FALSE)
        <4> HIDE DEF sign
        <4> QED  BY <1>2, <1>6, LongShiftIsExact DEF sign
      <3> HIDE DEF raw, value, sign
      <3>3. raw.c \in BOOLEAN /\ raw.v \in BOOLEAN
        BY <1>6, <3>1
      <3>4. ShiftLeaves(v, s, size, count, raw.value, raw.c, raw.v)
        BY <3>1, <3>2, Zenon
      <3> QED  BY <3>3, <3>4
    <2>4. CASE x \in w + 1 .. 2 * w - 1
      <3>1. count = x - 4 * WordBits /\ raw = ShiftRight(v, x, size)
            /\ x \in 2 * WordBits + 1 .. 4 * WordBits - 1
        BY <1>3, <1>4, <2>4
      <3> HIDE DEF raw
      <3> QED  BY <1>2, <3>1, RightIsExact
    <2>5. x = 0 \/ x \in 1 .. w - 1 \/ x = w \/ x \in w + 1 .. 2 * w - 1
      BY <1>3
    <2> HIDE DEF raw
    <2> QED  BY <2>1, <2>2, <2>3, <2>4, <2>5
  <1>8. size \in Nat /\ h \in Nat /\ h >= 1 /\ size = 2 * h
    BY <1>2 DEF Shiftable
  <1>9. count \in Int /\ count = Signed(t.x, 4 * WordBits)
    BY <1>3, <1>4 DEF count
  <1>10. s = Signed(v, size)
    BY DEF s
  <1> DEFINE value == raw.value
             c == raw.c
             o == raw.v
  <1>11. /\ t.v = v /\ t.size = size /\ c \in BOOLEAN /\ o \in BOOLEAN
         /\ ShiftLeaves(v, s, size, count, value, c, o)
         /\ t.r = Result(value % size,
                      [n |-> Top(value, size), z |-> value % size = 0, v |-> o, c |-> c])
    BY <1>5, <1>7
  <1> HIDE DEF raw, value, c, o
  <1> QED  BY <1>8, <1>9, <1>10, <1>11, ShiftIsCorrect

LEMMA AshIsExact ==
  ASSUME NEW hi \in Words, NEW x \in Shifts
  PROVE  ShiftCorrect([unit |-> "shift", v |-> hi, size |-> WordSize, x |-> x, r |-> Ash(hi, x)])
  <1> DEFINE t == [unit |-> "shift", v |-> hi, size |-> WordSize, x |-> x, r |-> Ash(hi, x)]
             w == FALSE
             count == 4 * WordBits
  <1>1. x % count = x
    <2>1. count \in Nat /\ count > 0 /\ x \in 0 .. count - 1
      BY LongIs DEF Shifts
    <2> HIDE DEF count
    <2> QED  BY <2>1, Wrapped
  <1>2. Ash(hi, x) = shifter(hi, x, w)
    BY <1>1 DEF Ash
  <1>3. w \in BOOLEAN /\ WordSize = (IF w THEN LongSize ELSE WordSize)
        /\ hi \in 0 .. WordSize - 1
    BY DEF Words
  <1> HIDE DEF w
  <1>4. t.v = hi /\ t.size = WordSize /\ t.x = x /\ t.r = shifter(hi, x, w)
    BY <1>2
  <1> HIDE DEF t
  <1>5. ShiftCorrect(t)
    BY <1>3, <1>4, ShifterIsExact
  <1> QED  BY <1>5 DEF t

LEMMA AshcIsExact ==
  ASSUME NEW hi \in Words, NEW lo \in Words, NEW x \in Shifts
  PROVE  ShiftCorrect([unit |-> "shift", v |-> Long(hi, lo), size |-> LongSize, x |-> x,
                       r |-> Ashc(hi, lo, x)])
  <1> DEFINE v == Long(hi, lo)
             t == [unit |-> "shift", v |-> v, size |-> LongSize, x |-> x, r |-> Ashc(hi, lo, x)]
             w == TRUE
             count == 4 * WordBits
  <1>1. x % count = x
    <2>1. count \in Nat /\ count > 0 /\ x \in 0 .. count - 1
      BY LongIs DEF Shifts
    <2> HIDE DEF count
    <2> QED  BY <2>1, Wrapped
  <1>2. Ashc(hi, lo, x) = shifter(v, x, w)
    BY <1>1 DEF Ashc
  <1>3. v \in 0 .. LongSize - 1
    <2>1. hi \in 0 .. WordSize - 1 /\ lo \in 0 .. WordSize - 1 /\ WordSize \in Nat
          /\ LongSize = WordSize * WordSize
      BY LongIs DEF Words
    <2> DEFINE a == hi * WordSize
               d == WordSize - 1 - hi
    <2>2. a \in Nat /\ d \in Nat /\ d * WordSize >= 0
          /\ LongSize = a + WordSize + d * WordSize
      BY <2>1
    <2> DEFINE b == d * WordSize
    <2>3. b \in Nat /\ LongSize = a + WordSize + b
      BY <2>1, <2>2
    <2>4. v = a + lo
      BY DEF Long
    <2> HIDE DEF a, b, v
    <2> QED  BY <2>1, <2>2, <2>3, <2>4
  <1>4. w \in BOOLEAN /\ LongSize = (IF w THEN LongSize ELSE WordSize)
    OBVIOUS
  <1> HIDE DEF w, v
  <1>5. t.v = v /\ t.size = LongSize /\ t.x = x /\ t.r = shifter(v, x, w)
    BY <1>2
  <1> HIDE DEF t
  <1>6. ShiftCorrect(t)
    BY <1>3, <1>4, <1>5, ShifterIsExact
  <1> QED  BY <1>6 DEF t, v

-----------------------------------------------------------------------------
(***************************************************************************)
(* All answers of the arithmetic.                                          *)
(***************************************************************************)
LEMMA AnswersAreExact ==
  ASSUME CheckNext
  PROVE  InstructionsCompute'
  <1>1. CASE ExecuteSingle
    <2>1. PICK op \in SingleOps, x \in Words, byte \in BOOLEAN, f \in Flags :
            /\ byte => op \notin WordOnly
            /\ last' = [unit |-> "single", op |-> op, x |-> x, byte |-> byte, f |-> f,
                        r |-> single_operand_instructions(op, x, byte, f)]
      BY <1>1 DEF ExecuteSingle, Answer
    <2>2. SingleCorrect(last')
      BY <2>1, SingleIsExact
    <2>3. last'.unit = "single"
      BY <2>1
    <2> QED  BY <2>2, <2>3 DEF InstructionsCompute
  <1>2. CASE ExecuteDouble
    <2>1. PICK op \in ArithmeticOps, s \in Words, d \in Words, byte \in BOOLEAN,
               register \in BOOLEAN, f \in SomeFlags :
            /\ byte => op \notin WholeWordOps /\ s < ByteSize
            /\ last' = [unit |-> "double", op |-> op, s |-> s, d |-> d, byte |-> byte,
                        register |-> register, f |-> f,
                        r |-> double_arithmetic(op, s, d, byte, register, f)]
      BY <1>2 DEF ExecuteDouble, Answer
    <2>2. DoubleCorrect(last')
      BY <2>1, DoubleIsExact
    <2>3. last'.unit = "double"
      BY <2>1
    <2> QED  BY <2>2, <2>3 DEF InstructionsCompute
  <1>3. CASE ExecuteMul
    <2>1. PICK hi \in Words, x \in Words :
            last' = [unit |-> "mul", hi |-> hi, x |-> x, r |-> Mul(hi, x)]
      BY <1>3 DEF ExecuteMul, Answer
    <2>2. MulCorrect(last')
      BY <2>1, MulIsExact
    <2>3. last'.unit = "mul"
      BY <2>1
    <2> QED  BY <2>2, <2>3 DEF InstructionsCompute
  <1>4. CASE ExecuteDiv
    <2>1. PICK hi \in Words, lo \in Words, x \in Words :
            last' = [unit |-> "div", hi |-> hi, lo |-> lo, x |-> x, r |-> Div(hi, lo, x)]
      BY <1>4 DEF ExecuteDiv, Answer
    <2>2. DivCorrect(last')
      BY <2>1, DivIsExact
    <2>3. last'.unit = "div"
      BY <2>1
    <2> QED  BY <2>2, <2>3 DEF InstructionsCompute
  <1>5. CASE CompareAndBranch
    <2>1. PICK s \in Words, d \in Words :
            last' = [unit |-> "branch", s |-> s, d |-> d,
              taken |-> {op \in Branches :
                conditional_branch_instructions_evaluate(op, Cmp(s, d, FALSE).flags)}]
      BY <1>5 DEF CompareAndBranch, Answer
    <2>2. BranchCorrect(last')
      BY <2>1, BranchIsExact
    <2>3. last'.unit = "branch"
      BY <2>1
    <2> QED  BY <2>2, <2>3 DEF InstructionsCompute
  <1>6. CASE ExecuteLogical
    <2>1. PICK op \in LogicalOps, s \in Words, d \in Words, byte \in BOOLEAN, f \in SomeFlags :
            last' = [unit |-> "logical", op |-> op, s |-> s, d |-> d, byte |-> byte, f |-> f,
                     r |-> double_logical(op, s, d, byte, f)]
      BY <1>6 DEF ExecuteLogical, Answer
    <2>2. LogicalCorrect(last')
      BY <2>1, LogicalIsExact
    <2>3. last'.unit = "logical"
      BY <2>1
    <2> QED  BY <2>2, <2>3 DEF InstructionsCompute
  <1>7. CASE ExecuteAsh
    <2>1. PICK hi \in Words, x \in Shifts :
            last' = [unit |-> "shift", v |-> hi, size |-> WordSize, x |-> x, r |-> Ash(hi, x)]
      BY <1>7 DEF ExecuteAsh, Answer
    <2>2. ShiftCorrect(last')
      BY <2>1, AshIsExact
    <2>3. last'.unit = "shift"
      BY <2>1
    <2> QED  BY <2>2, <2>3 DEF InstructionsCompute
  <1>8. CASE ExecuteAshc
    <2>1. PICK hi \in Words, lo \in Words, x \in Shifts :
            last' = [unit |-> "shift", v |-> Long(hi, lo), size |-> LongSize, x |-> x,
                     r |-> Ashc(hi, lo, x)]
      BY <1>8 DEF ExecuteAshc, Answer
    <2>2. ShiftCorrect(last')
      BY <2>1, AshcIsExact
    <2>3. last'.unit = "shift"
      BY <2>1
    <2> QED  BY <2>2, <2>3 DEF InstructionsCompute
  <1>9. CASE \/ DecodeInstruction \/ TakeOperand \/ AccessIo \/ RequestProgramInterrupt
             \/ TakeSnapshot \/ Forget
    <2>1. DecodeInstruction => last'.unit = "decode"
      BY DEF DecodeInstruction, Answer
    <2>2. TakeOperand => last'.unit = "operand"
      BY DEF TakeOperand, Answer
    <2>3. AccessIo \/ RequestProgramInterrupt \/ Forget => last'.unit \in {"io", "pir", "idle"}
      BY DEF AccessIo, RequestProgramInterrupt, Forget, Answer, Idle
    <2>4. TakeSnapshot => last'.unit = "snapshot"
      <3>1. ASSUME NEW m, Resumed(m)  PROVE last'.unit = "snapshot"
        BY <3>1 DEF Resumed, Answer
      <3> QED  BY <3>1 DEF TakeSnapshot
    <2>5. last'.unit \in {"decode", "operand", "io", "pir", "snapshot", "idle"}
      BY <1>9, <2>1, <2>2, <2>3, <2>4
    <2> QED  BY <2>5 DEF InstructionsCompute
  <1> QED
    BY <1>1, <1>2, <1>3, <1>4, <1>5, <1>6, <1>7, <1>8, <1>9 DEF CheckNext

\* Whatever instruction is executed, of whatever operands and in words of
\* whatever even number of bits: the result and the flags are those of exact
\* arithmetic, or bit by bit those of the logical operation (cpu.cpp, single and
\* double operand instructions, MUL, DIV, ASH, ASHC and the branches).
THEOREM InstructionsAreExact == CheckSpec => []InstructionsCompute
  <1>1. CheckInit => InstructionsCompute
    BY DEF CheckInit, Idle, InstructionsCompute
  <1>2. InstructionsCompute /\ [CheckNext]_last => InstructionsCompute'
    <2>1. CASE CheckNext
      BY <2>1, AnswersAreExact
    <2>2. CASE UNCHANGED last
      BY <2>2 DEF InstructionsCompute
    <2> QED  BY <2>1, <2>2
  <1> QED  BY <1>1, <1>2, PTL DEF CheckSpec

-----------------------------------------------------------------------------
(***************************************************************************)
(* The operands: what is executed, shown and timed.                        *)
(***************************************************************************)
\* A small memory: every even address, however large, is one of its places.
LEMMA PlacesAre ==
  \E n \in 1..8 : /\ Places = {2 * k : k \in 0 .. n - 1} /\ Cardinality(Places) = n
                  /\ \A j \in Int : (2 * j) % (2 * n) \in Places
  <1>1. PICK n \in 1..8 : Places = {2 * k : k \in 0 .. n - 1}
    BY PlacesAssumption
  <1>2. Cardinality(Places) = n
    <2> DEFINE f == [k \in 1..n |-> 2 * (k - 1)]
    <2>1. ExistsBijection(1..n, Places)
      <3>1. f \in [1..n -> Places]
        BY <1>1
      <3>2. \A j, k \in 1..n : f[j] = f[k] => j = k
        OBVIOUS
      <3>3. \A a \in Places : \E k \in 1..n : f[k] = a
        <4> SUFFICES ASSUME NEW j \in 0 .. n - 1  PROVE \E k \in 1..n : f[k] = 2 * j
          BY <1>1
        <4>1. j + 1 \in 1..n /\ f[j + 1] = 2 * j
          OBVIOUS
        <4> QED  BY <4>1
      <3>4. f \in Bijection(1..n, Places)
        <4> HIDE DEF f
        <4> QED  BY <3>1, <3>2, <3>3, Fun_IsBij
      <3> QED  BY <3>4 DEF ExistsBijection
    <2>2. n \in Nat
      OBVIOUS
    <2> QED  BY <2>1, <2>2, FS_CountingElements
  <1>3. \A j \in Int : (2 * j) % (2 * n) \in Places
    <2> SUFFICES ASSUME NEW j \in Int  PROVE (2 * j) % (2 * n) \in Places
      OBVIOUS
    <2>1. \A m \in Int : m > 0 =>
            /\ j \div m \in Int /\ j % m \in 0 .. m - 1 /\ j = (j \div m) * m + (j % m)
      BY DivMod
    <2>2. j \div n \in Int /\ j % n \in 0 .. n - 1 /\ j = (j \div n) * n + (j % n)
      BY <2>1
    <2> DEFINE q == j \div n
               u == j % n
    <2>3. /\ q \in Int /\ u \in 0 .. n - 1
          /\ 2 * j = q * (2 * n) + 2 * u /\ 2 * u \in 0 .. 2 * n - 1
      <3> HIDE DEF q, u
      <3>1. q \in Int /\ u \in 0 .. n - 1 /\ j = q * n + u
        BY <2>2 DEF q, u
      <3> QED  BY <3>1
    <2>4. (2 * j) % (2 * n) = 2 * u
      <3> HIDE DEF q, u
      <3> DEFINE size == 2 * n
                 x == 2 * j
                 low == 2 * u
      <3>1. size \in Int /\ size > 0 /\ x \in Int /\ low \in 0 .. size - 1 /\ x = q * size + low
        BY <2>3
      <3>2. x % size = low
        <4> HIDE DEF size, x, low
        <4> QED  BY <2>3, <3>1, DivModUnique
      <3> QED  BY <3>2
    <2> HIDE DEF u
    <2> QED  BY <1>1, <2>3, <2>4
  <1> QED  BY <1>1, <1>2, <1>3

\* At an even address there is a word or nothing.
LEMMA WordAt ==
  ASSUME NEW mem \in Memories, NEW a \in Int
  PROVE  /\ a % 2 \in {0, 1}
         /\ At(mem["i"], a - (a % 2)) \in Words \cup {NoWord}
         /\ At(mem["i"], a - (a % 2) + 2) \in Words \cup {NoWord}
  <1>1. mem["i"] \in [Places -> Contents \cup {NoWord}]
    BY DEF Memories, d_i_spaces
  <1>2. \A j \in Int : At(mem["i"], 2 * j) \in Words \cup {NoWord}
    <2>1. PICK n \in 1..8 : /\ Cardinality(Places) = n
                            /\ \A j \in Int : (2 * j) % (2 * n) \in Places
      BY PlacesAre
    <2> SUFFICES ASSUME NEW j \in Int  PROVE At(mem["i"], 2 * j) \in Words \cup {NoWord}
      OBVIOUS
    <2>2. (2 * j) % (2 * Cardinality(Places)) \in Places
      BY <2>1
    <2> QED  BY <1>1, <2>2, ContentsAssumption DEF At
  <1>3. /\ a % 2 \in {0, 1}
        /\ \E j \in Int : a - (a % 2) = 2 * j /\ a - (a % 2) + 2 = 2 * (j + 1)
    OBVIOUS
  <1>4. PICK j \in Int : a - (a % 2) = 2 * j /\ a - (a % 2) + 2 = 2 * (j + 1)
    BY <1>3
  <1>5. j + 1 \in Int
    OBVIOUS
  <1> QED  BY <1>2, <1>3, <1>4, <1>5

LEMMA QuotientBound ==
  ASSUME NEW s \in Int, s > 0, NEW h \in Int, NEW w \in 0 .. s * s - 1,
         w % s \in 0 .. s - 1, w = h * s + (w % s)
  PROVE  h \in 0 .. s - 1
  <1>1. \A k \in Int : k >= 0 => k * s >= 0
    OBVIOUS
  <1> DEFINE r == w % s
             p == h * s
             square == s * s
  <1>2. r \in 0 .. s - 1 /\ p + r \in 0 .. square - 1 /\ p \in Int /\ square \in Int
    OBVIOUS
  <1>3. h >= 0
    <2> SUFFICES ASSUME h <= -1  PROVE FALSE
      OBVIOUS
    <2>1. (-1 - h) * s >= 0
      BY <1>1
    <2>2. (-1 - h) * s = -s - p
      OBVIOUS
    <2> HIDE DEF r, p, square
    <2> QED  BY <1>2, <2>1, <2>2
  <1>4. h < s
    <2> SUFFICES ASSUME h >= s  PROVE FALSE
      OBVIOUS
    <2>1. (h - s) * s >= 0
      BY <1>1
    <2>2. (h - s) * s = p - square
      OBVIOUS
    <2> HIDE DEF r, p, square
    <2> QED  BY <1>2, <2>1, <2>2
  <1> QED  BY <1>3, <1>4

\* The two bytes of a word.
LEMMA HighByte ==
  ASSUME NEW w \in Words, NEW b \in Words
  PROVE  /\ w \div ByteSize \in 0 .. ByteSize - 1 /\ w \in Int
         /\ w \div ByteSize + ByteSize * (b % ByteSize) \in Words
         /\ (w \div ByteSize + ByteSize * (b % ByteSize)) % ByteSize = w \div ByteSize
  <1> DEFINE s == ByteSize
             h == w \div s
             l == b % s
  <1>1. s \in Int /\ s > 0 /\ s \in Nat
    BY Sizes
  <1>2. w \in 0 .. s * s - 1 /\ b \in Int /\ w \in Int
    BY Sizes DEF Words
  <1>3. h \in Int /\ w = h * s + (w % s) /\ w % s \in 0 .. s - 1 /\ l \in 0 .. s - 1
    <2> HIDE DEF s
    <2> QED  BY <1>1, <1>2, DivMod
  <1>4. h \in 0 .. s - 1
    <2> HIDE DEF s, h
    <2> QED  BY <1>1, <1>2, <1>3, QuotientBound
  <1> DEFINE v == h + s * l
  <1>5. v \in 0 .. s * s - 1
    <2> HIDE DEF s, h, l
    <2>1. l \in Int /\ l >= 0 /\ l <= s - 1
      BY <1>1, <1>3
    <2>2. s * l >= 0 /\ s * l <= s * (s - 1)
      BY <1>1, <2>1
    <2> QED  BY <1>1, <1>4, <2>1, <2>2
  <1>6. v % s = h
    <2> HIDE DEF s, h, l
    <2>1. v \in Int /\ v = l * s + h /\ l \in Int
      BY <1>1, <1>3, <1>4
    <2> HIDE DEF v
    <2> QED  BY <1>1, <1>4, <2>1, DivModUnique
  <1> QED  BY <1>2, <1>4, <1>5, <1>6, Sizes DEF Words

\* What a read of the instruction space gives is what peek_word shows, cut to size.
LEMMA ReadIsPeek ==
  ASSUME NEW mem \in Memories, NEW space, mem[space] = mem["i"],
         NEW a \in Int, NEW byte \in BOOLEAN, read(mem, space, a, byte) # NoWord
  PROVE  /\ peek_word(mem, a) \in Words
         /\ read(mem, space, a, byte) = peek_word(mem, a) % Size(byte)
  <1> DEFINE w == At(mem["i"], a - (a % 2))
             b == At(mem["i"], a - (a % 2) + 2)
  <1>1. a % 2 \in {0, 1} /\ w \in Words \cup {NoWord} /\ b \in Words \cup {NoWord}
    BY WordAt
  <1>2. read(mem, space, a, byte) =
          IF w = NoWord \/ (a % 2 = 1 /\ ~byte) THEN NoWord
          ELSE IF ~byte THEN w
          ELSE IF a % 2 = 1 THEN w \div ByteSize ELSE w % ByteSize
    BY DEF read
  <1>3. peek_word(mem, a) = IF w = NoWord \/ a % 2 = 0 THEN w
                            ELSE w \div ByteSize + ByteSize * (OrZero(b) % ByteSize)
    BY DEF peek_word
  <1> HIDE DEF w, b
  <1>4. w # NoWord /\ w \in Words /\ OrZero(b) \in Words /\ (a % 2 = 1 => byte)
    BY <1>1, <1>2, Sizes DEF OrZero, Words
  <1>5. CASE a % 2 = 1
    <2>1. /\ peek_word(mem, a) = w \div ByteSize + ByteSize * (OrZero(b) % ByteSize)
          /\ read(mem, space, a, byte) = w \div ByteSize
      BY <1>2, <1>3, <1>4, <1>5
    <2> QED  BY <1>4, <1>5, <2>1, HighByte DEF Size
  <1>6. CASE a % 2 = 0
    <2>1. peek_word(mem, a) = w /\ read(mem, space, a, byte) = IF byte THEN w % ByteSize ELSE w
      BY <1>2, <1>3, <1>4, <1>6
    <2>2. w % WordSize = w
      <3>1. w \in 0 .. WordSize - 1 /\ w = 0 * WordSize + w /\ WordSize \in Int /\ WordSize > 0
        BY <1>4, Sizes DEF Words
      <3> QED  BY <3>1, DivModUnique
    <2> QED  BY <1>4, <2>1, <2>2 DEF Size
  <1> QED  BY <1>1, <1>5, <1>6

\* A pointer, which is a word.
LEMMA PointerIsPeek ==
  ASSUME NEW mem \in Memories, NEW space, mem[space] = mem["i"],
         NEW a \in Int, read(mem, space, a, FALSE) # NoWord
  PROVE  /\ peek_word(mem, a) \in Int /\ peek_word(mem, a) # NoWord
         /\ read(mem, space, a, FALSE) = peek_word(mem, a)
  <1>1. /\ peek_word(mem, a) \in Words
        /\ read(mem, space, a, FALSE) = peek_word(mem, a) % Size(FALSE)
    BY ReadIsPeek
  <1> DEFINE w == peek_word(mem, a)
  <1>2. w \in Words
    BY <1>1
  <1>3. w % WordSize = w /\ w \in Int
    <2> HIDE DEF w
    <2>1. w \in 0 .. WordSize - 1 /\ w = 0 * WordSize + w /\ WordSize \in Int /\ WordSize > 0
      BY <1>2, Sizes DEF Words
    <2> QED  BY <2>1, DivModUnique
  <1> QED  BY <1>1, <1>3, NoWordAssumption DEF Size

\* used, shown and timed are of one number, each cut to a size.
OfOneNumber(used, shown, timed, byte, bit15) ==
  \E n \in Int : used = n % Size(byte) /\ shown = n % Size(bit15) /\ timed = n % Size(bit15)

LEMMA NumberIsShown ==
  ASSUME NEW bit15 \in BOOLEAN, NEW byte \in BOOLEAN, byte => bit15,
         NEW used, NEW shown, NEW timed, OfOneNumber(used, shown, timed, byte, bit15)
  PROVE  shown = used % Size(bit15) /\ (byte = bit15 => timed = used)
  <1>1. PICK n \in Int : used = n % Size(byte) /\ shown = n % Size(bit15) /\ timed = n % Size(bit15)
    BY DEF OfOneNumber
  <1>2. ASSUME NEW k \in Int, k > 0, NEW s \in Int, s > 0
        PROVE  (n % (k * s)) % s = n % s
    <2> DEFINE m == k * s
               q == n \div m
               u == n % m
    <2>1. m \in Int /\ m > 0
      BY <1>2
    <2>2. q \in Int /\ u \in Int /\ n = q * m + u
      <3> HIDE DEF m
      <3> QED  BY <2>1, DivMod
    <2> HIDE DEF q, u
    <2>3. n = u + (q * k) * s /\ q * k \in Int
      BY <1>2, <2>2
    <2>4. \A j \in Int : (u + j * s) % s = u % s
      BY <1>2, <2>2, SameRemainder
    <2>5. n % s = u % s
      BY <2>3, <2>4
    <2> QED  BY <2>5 DEF u, m
  <1>3. ByteSize \in Int /\ ByteSize > 0 /\ WordSize \in Int /\ WordSize > 0
    BY Sizes
  <1>4. (n % WordSize) % WordSize = n % WordSize /\ (n % ByteSize) % ByteSize = n % ByteSize
    <2>1. \A s \in Int : s > 0 => (n % (1 * s)) % s = n % s /\ 1 * s = s
      BY <1>2
    <2> QED  BY <1>3, <2>1
  <1>5. (n % WordSize) % ByteSize = n % ByteSize
    <2>1. (n % (ByteSize * ByteSize)) % ByteSize = n % ByteSize
      BY <1>2, <1>3
    <2> QED  BY <2>1, Sizes
  <1> QED  BY <1>1, <1>4, <1>5 DEF Size

\* What the disassembler shows of an operand is what getGAM uses.
LEMMA OperandIsShown ==
  ASSUME NEW mem \in Memories, NEW form \in Forms, NEW mode \in 0..7, NEW reg \in {0, 6, 7},
         NEW value \in Int, NEW at \in Int,
         NEW byte \in BOOLEAN, byte = (form.bit15 /\ form.name = "other"),
         getGAM(mem, form, mode, reg, value, at) # NoWord, peek_word(mem, at) # NoWord,
         reg # 7 \/ mode \in {2, 3},
         mem["i"] = mem["d"] \/ mode = 0 \/ (reg = 7 /\ mode = 2),
         form.name = "MFP" => mode = 0,
         form.name = "SUB" /\ mode = 4 => reg >= 6
  PROVE  OfOneNumber(getGAM(mem, form, mode, reg, value, at),
                     addressing_to_string(mem, form.bit15, mode, reg, value, at),
                     peek_dst(mem, form.bit15, mode, reg, value, at), byte, form.bit15)
  <1> DEFINE used == getGAM(mem, form, mode, reg, value, at)
             shown == addressing_to_string(mem, form.bit15, mode, reg, value, at)
             timed == peek_dst(mem, form.bit15, mode, reg, value, at)
             space == read_space(mode, reg)
             address == GamAddress(mem, byte, mode, reg, value, at)
             next == peek_word(mem, at)
             Shows(n) == shown = Masked(n, form.bit15) /\ timed = OrZero(Masked(n, form.bit15))
  <1> SUFFICES OfOneNumber(used, shown, timed, byte, form.bit15)
    OBVIOUS
  <1>1. form.bit15 \in BOOLEAN /\ form.name \in {"other", "SUB", "MFP"}
    BY DEF Forms
  <1>2. ASSUME NEW n \in Int, used = n % Size(byte), Shows(n)
        PROVE  OfOneNumber(used, shown, timed, byte, form.bit15)
    <2>1. n # NoWord /\ n % Size(form.bit15) \in Int
      BY <1>1, SizeIsEven, DivMod, NoWordAssumption
    <2>2. n % Size(form.bit15) # NoWord
      BY <2>1, NoWordAssumption
    <2>3. shown = n % Size(form.bit15) /\ timed = n % Size(form.bit15)
      BY <1>2, <2>1, <2>2 DEF Masked, OrZero
    <2> HIDE DEF used, shown, timed
    <2> QED  BY <1>2, <2>3 DEF OfOneNumber
  <1>3. CASE mode = 0
    <2>1. used = value % Size(byte)
      BY <1>3, <1>1 DEF getGAM
    <2>2. Shows(value)
      BY <1>3 DEF addressing_to_string, peek_dst
    <2> HIDE DEF used, shown, timed
    <2> QED  BY <1>2, <2>1, <2>2
  <1>4. ASSUME mode # 0
        PROVE  used = readVia(mem, space, address, byte) /\ address # NoWord
    <2>1. used = readVia(mem, space, address, byte)
      BY <1>4 DEF getGAM
    <2> QED  BY <1>4, <2>1 DEF readVia
  \* A value in memory is shown when its address is that of the word shown.
  <1>5. ASSUME mode # 0, address \in Int, mem[space] = mem["i"], Shows(peek_word(mem, address))
        PROVE  OfOneNumber(used, shown, timed, byte, form.bit15)
    <2>1. used = read(mem, space, address, byte)
      BY <1>4, <1>5 DEF readVia
    <2>2. read(mem, space, address, byte) # NoWord
      BY <2>1
    <2>3. /\ peek_word(mem, address) \in Words
          /\ read(mem, space, address, byte) = peek_word(mem, address) % Size(byte)
      <3> HIDE DEF address, space
      <3> QED  BY <1>5, <2>2, ReadIsPeek
    <2>4. peek_word(mem, address) \in Int
      BY <2>3, Sizes DEF Words
    <2> HIDE DEF used, shown, timed, address, space
    <2> QED  BY <1>2, <1>5, <2>1, <2>3, <2>4
  <1>6. space \in d_i_spaces /\ (mode \notin {0} /\ ~(reg = 7 /\ mode = 2) => mem[space] = mem["i"])
    BY DEF read_space, d_i_spaces
  <1> DEFINE r == IF reg = 7 THEN at ELSE value
             s == IF reg = 7 THEN "i" ELSE "d"
  <1>7. CASE mode = 1
    <2>1. address = value /\ mem[space] = mem["i"]
      BY <1>6, <1>7 DEF GamAddress
    <2>2. Shows(peek_word(mem, value))
      BY <1>7 DEF addressing_to_string, peek_dst
    <2> HIDE DEF used, shown, timed, address, space
    <2> QED  BY <1>5, <1>7, <2>1, <2>2
  <1>8. CASE mode = 2
    <2>1. address = r /\ mem[space] = mem["i"]
      BY <1>6, <1>8 DEF GamAddress, read_space
    <2>2. Shows(peek_word(mem, r))
      BY <1>8 DEF addressing_to_string, peek_dst
    <2> HIDE DEF used, shown, timed, address, space
    <2> QED  BY <1>5, <1>8, <2>1, <2>2
  <1>9. CASE mode = 3
    <2>1. address = read(mem, s, r, FALSE)
      BY <1>9 DEF GamAddress
    <2>0. mode # 0 /\ mem[space] = mem["i"]
      BY <1>6, <1>9
    <2>2. address = peek_word(mem, r) /\ peek_word(mem, r) \in Int /\ peek_word(mem, r) # NoWord
      <3>1. s \in d_i_spaces /\ mem[s] = mem["i"] /\ r \in Int
        BY <1>9 DEF d_i_spaces
      <3> HIDE DEF address, s, r, space, used
      <3>2. read(mem, s, r, FALSE) # NoWord
        BY <1>4, <2>1, <2>0, Zenon
      <3> QED  BY <2>1, <3>1, <3>2, PointerIsPeek
    <2>3. Shows(peekVia(mem, peek_word(mem, r)))
      BY <1>9 DEF addressing_to_string, peek_dst
    <2> HIDE DEF used, shown, timed, address, space, r
    <2>4. peekVia(mem, peek_word(mem, r)) = peek_word(mem, address) /\ address \in Int
      BY <2>2 DEF peekVia
    <2>5. Shows(peek_word(mem, address))
      BY <2>3, <2>4
    <2> QED  BY <1>5, <2>4, <2>5, <2>0
  <1>10. CASE mode = 4
    <2>1. reg # 7 /\ Step(byte, reg) = Step(form.bit15, reg)
      BY <1>1, <1>10 DEF Step
    <2>2. address = value - Step(byte, reg) /\ mem[space] = mem["i"]
      BY <1>6, <1>10, <2>1 DEF GamAddress
    <2>3. address \in Int
      BY <2>2 DEF Step
    <2>4. Shows(peek_word(mem, value - Step(form.bit15, reg)))
      BY <1>10 DEF addressing_to_string, peek_dst
    <2> HIDE DEF used, shown, timed, address, space
    <2> QED  BY <1>5, <1>10, <2>1, <2>2, <2>3, <2>4
  <1>11. CASE mode = 5
    <2>1. address = read(mem, "d", value - 2, FALSE)
      BY <1>11 DEF GamAddress
    <2>0. mode # 0 /\ mem[space] = mem["i"] /\ mem["d"] = mem["i"]
      BY <1>6, <1>11
    <2>2. address = peek_word(mem, value - 2) /\ address \in Int /\ address # NoWord
      <3>1. "d" \in d_i_spaces /\ value - 2 \in Int
        BY DEF d_i_spaces
      <3> HIDE DEF address, space, used
      <3>2. read(mem, "d", value - 2, FALSE) # NoWord
        BY <1>4, <2>1, <2>0, Zenon
      <3> QED  BY <2>1, <2>0, <3>1, <3>2, PointerIsPeek
    <2>3. Shows(peekVia(mem, peek_word(mem, value - 2)))
      BY <1>11 DEF addressing_to_string, peek_dst
    <2> HIDE DEF used, shown, timed, address, space
    <2>4. peekVia(mem, peek_word(mem, value - 2)) = peek_word(mem, address) /\ address \in Int
      BY <2>2 DEF peekVia
    <2>5. Shows(peek_word(mem, address))
      BY <2>3, <2>4
    <2> QED  BY <1>5, <2>4, <2>5, <2>0
  <1>12. ASSUME mode \in {6, 7}
         PROVE  /\ address = IF mode = 6 THEN value + next
                                         ELSE readVia(mem, "d", value + next, FALSE)
                /\ value + next \in Int /\ mem["d"] = mem["i"] /\ mem[space] = mem["i"]
                /\ value + next # NoWord
    <2> DEFINE word == read(mem, "i", at, FALSE)
               indexed == IF word = NoWord THEN NoWord ELSE value + word
    <2>1. /\ reg # 7 /\ mem["d"] = mem["i"] /\ mem[space] = mem["i"]
          /\ address = IF mode = 6 THEN indexed ELSE readVia(mem, "d", indexed, FALSE)
      <3>1. CASE mode = 6
        BY <1>6, <1>12, <3>1 DEF GamAddress
      <3>2. CASE mode = 7
        BY <1>6, <1>12, <3>2 DEF GamAddress
      <3> QED  BY <1>12, <3>1, <3>2
    <2>2. word # NoWord
      <3> SUFFICES ASSUME word = NoWord  PROVE FALSE
        OBVIOUS
      <3>1. indexed = NoWord
        OBVIOUS
      <3> HIDE DEF indexed, word, address
      <3> QED  BY <1>4, <1>12, <2>1, <3>1 DEF readVia
    <2>3. word = next /\ next \in Int
      <3>1. "i" \in d_i_spaces
        BY DEF d_i_spaces
      <3> QED  BY <2>2, <3>1, PointerIsPeek
    <2>4. indexed = value + next /\ value + next \in Int /\ value + next # NoWord
      <3>1. indexed = value + word
        BY <2>2
      <3> HIDE DEF indexed, word, next
      <3>2. value + next \in Int
        BY <2>3
      <3> QED  BY <2>3, <3>1, <3>2, NoWordAssumption
    <2> HIDE DEF indexed, word, address, next
    <2> QED  BY <2>1, <2>4
  <1>13. CASE mode = 6
    <2>1. Shows(peek_word(mem, value + next))
      BY <1>13 DEF addressing_to_string, peek_dst
    <2> HIDE DEF used, shown, timed, address, space, next
    <2> QED  BY <1>5, <1>12, <1>13, <2>1
  <1>14. CASE mode = 7
    <2>0. mode # 0
      BY <1>14
    <2>1. Shows(peekVia(mem, peek_word(mem, value + next)))
      BY <1>14 DEF addressing_to_string, peek_dst
    <2> HIDE DEF used, shown, timed, address, space, next
    <2>2. address = read(mem, "d", value + next, FALSE)
      BY <1>12, <1>14 DEF readVia
    <2>3. /\ address = peek_word(mem, value + next)
          /\ address \in Int /\ address # NoWord
      <3>1. "d" \in d_i_spaces
        BY DEF d_i_spaces
      <3>2. read(mem, "d", value + next, FALSE) # NoWord
        BY <1>4, <2>2, <2>0, Zenon
      <3> QED  BY <1>12, <1>14, <2>2, <3>1, <3>2, PointerIsPeek
    <2>4. peekVia(mem, peek_word(mem, value + next)) = peek_word(mem, address) /\ address \in Int
      BY <2>3 DEF peekVia
    <2>5. Shows(peek_word(mem, address))
      BY <2>1, <2>4
    <2> QED  BY <1>5, <1>12, <1>14, <2>4, <2>5, <2>0
  <1> QED  BY <1>3, <1>7, <1>8, <1>9, <1>10, <1>11, <1>13, <1>14

\* Each action answers for a unit of its own.
LEMMA UnitTells ==
  ASSUME CheckNext
  PROVE  /\ last'.unit = "decode" => DecodeInstruction
         /\ last'.unit = "operand" => TakeOperand
         /\ last'.unit = "io" => AccessIo
         /\ last'.unit = "pir" => RequestProgramInterrupt
         /\ last'.unit = "snapshot" => TakeSnapshot
  <1>1. ExecuteSingle => last'.unit = "single"
    BY DEF ExecuteSingle, Answer
  <1>2. ExecuteDouble => last'.unit = "double"
    BY DEF ExecuteDouble, Answer
  <1>3. ExecuteLogical => last'.unit = "logical"
    BY DEF ExecuteLogical, Answer
  <1>4. ExecuteMul => last'.unit = "mul"
    BY DEF ExecuteMul, Answer
  <1>5. ExecuteDiv => last'.unit = "div"
    BY DEF ExecuteDiv, Answer
  <1>6. ExecuteAsh \/ ExecuteAshc => last'.unit = "shift"
    BY DEF ExecuteAsh, ExecuteAshc, Answer
  <1>7. CompareAndBranch => last'.unit = "branch"
    BY DEF CompareAndBranch, Answer
  <1>8. DecodeInstruction => last'.unit = "decode"
    BY DEF DecodeInstruction, Answer
  <1>9. TakeOperand => last'.unit = "operand"
    BY DEF TakeOperand, Answer
  <1>10. AccessIo => last'.unit = "io"
    BY DEF AccessIo, Answer
  <1>11. RequestProgramInterrupt => last'.unit = "pir"
    BY DEF RequestProgramInterrupt, Answer
  <1>12. TakeSnapshot => last'.unit = "snapshot"
    <2>1. ASSUME NEW m, Resumed(m)  PROVE last'.unit = "snapshot"
      BY <2>1 DEF Resumed, Answer
    <2> QED  BY <2>1 DEF TakeSnapshot
  <1>13. Forget => last'.unit = "idle"
    BY DEF Forget, Idle
  <1> HIDE DEF CheckNext
  <1>14. \/ ExecuteSingle \/ ExecuteDouble \/ ExecuteLogical \/ ExecuteMul \/ ExecuteDiv
         \/ ExecuteAsh \/ ExecuteAshc \/ CompareAndBranch \/ DecodeInstruction
         \/ TakeOperand \/ AccessIo \/ RequestProgramInterrupt \/ TakeSnapshot \/ Forget
    BY DEF CheckNext
  <1> QED
    BY <1>1, <1>2, <1>3, <1>4, <1>5, <1>6, <1>7, <1>8, <1>9, <1>10, <1>11, <1>12, <1>13, <1>14

LEMMA OperandsAreShown ==
  ASSUME CheckNext
  PROVE  OperandsAgree'
  <1>1. CASE TakeOperand
    <2>1. PICK mem \in Memories, form \in Forms, mode \in 0..7, reg \in {0, 6, 7},
               value \in Pointers, at \in Places :
            last' = [unit |-> "operand", mem |-> mem, form |-> form, mode |-> mode,
                     reg |-> reg, pc |-> at,
                     used |-> getGAM(mem, form, mode, reg, value, at),
                     shown |-> addressing_to_string(mem, form.bit15, mode, reg, value, at),
                     timed |-> peek_dst(mem, form.bit15, mode, reg, value, at)]
      BY <1>1 DEF TakeOperand, Answer
    <2> DEFINE used == getGAM(mem, form, mode, reg, value, at)
               shown == addressing_to_string(mem, form.bit15, mode, reg, value, at)
               timed == peek_dst(mem, form.bit15, mode, reg, value, at)
               byte == form.bit15 /\ form.name = "other"
    <2>2. /\ last'.mem = mem /\ last'.form = form /\ last'.mode = mode /\ last'.reg = reg
          /\ last'.pc = at /\ last'.used = used /\ last'.shown = shown /\ last'.timed = timed
      BY <2>1
    <2>3. value \in Int /\ at \in Int
      <3>1. PICK n \in 1..8 : Places = {2 * k : k \in 0 .. n - 1} /\ Cardinality(Places) = n
        BY PlacesAre
      <3> QED  BY <3>1 DEF Pointers
    <2>4. form.bit15 \in BOOLEAN /\ byte \in BOOLEAN /\ (byte => form.bit15)
          /\ byte = (form.bit15 /\ form.name = "other")
          /\ (form.name = "other" => byte = form.bit15)
      BY DEF Forms
    <2>5. ASSUME used # NoWord, peek_word(mem, at) # NoWord, ~LooksElsewhere(last')
          PROVE  OfOneNumber(used, shown, timed, byte, form.bit15)
      <3>1. /\ reg # 7 \/ mode \in {2, 3}
            /\ mem["i"] = mem["d"] \/ mode = 0 \/ (reg = 7 /\ mode = 2)
            /\ form.name = "MFP" => mode = 0
            /\ form.name = "SUB" /\ mode = 4 => reg >= 6
        BY <2>2, <2>5 DEF LooksElsewhere
      <3>2. OfOneNumber(getGAM(mem, form, mode, reg, value, at),
                        addressing_to_string(mem, form.bit15, mode, reg, value, at),
                        peek_dst(mem, form.bit15, mode, reg, value, at), byte, form.bit15)
        <4> HIDE DEF byte
        <4> QED  BY <2>3, <2>4, <2>5, <3>1, OperandIsShown, Zenon
      <3> QED  BY <3>2
    <2>6. used # NoWord /\ peek_word(mem, at) # NoWord /\ ~LooksElsewhere(last') =>
            shown = used % Size(form.bit15) /\ (form.name = "other" => timed = used)
      <3> SUFFICES ASSUME used # NoWord, peek_word(mem, at) # NoWord, ~LooksElsewhere(last')
                   PROVE  shown = used % Size(form.bit15) /\ (form.name = "other" => timed = used)
        OBVIOUS
      <3>1. OfOneNumber(used, shown, timed, byte, form.bit15)
        BY <2>5
      <3> DEFINE bit15 == form.bit15
      <3>2. OfOneNumber(used, shown, timed, byte, bit15) /\ bit15 \in BOOLEAN
            /\ byte \in BOOLEAN /\ (byte => bit15)
        BY <2>4, <3>1
      <3>3. shown = used % Size(bit15) /\ (byte = bit15 => timed = used)
        <4> HIDE DEF used, shown, timed, byte, bit15
        <4> QED  BY <3>2, NumberIsShown
      <3> HIDE DEF used, shown, timed, byte
      <3> QED  BY <2>4, <3>3, Zenon
    <2> HIDE DEF used, shown, timed
    <2> QED  BY <2>2, <2>6 DEF OperandsAgree
  <1>2. CASE ~TakeOperand
    <2>1. last'.unit # "operand"
      BY <1>2, UnitTells
    <2> QED  BY <2>1 DEF OperandsAgree
  <1> QED  BY <1>1, <1>2

-----------------------------------------------------------------------------
(***************************************************************************)
(* The decoding of instructions.                                           *)
(***************************************************************************)
LEMMA TableEntry ==
  ASSUME NEW entries, NEW x
  PROVE  /\ x \in DOMAIN Table(entries) <=> \E e \in entries : x \in e[1]
         /\ x \in DOMAIN Table(entries) =>
              \E e \in entries : x \in e[1] /\ Table(entries)[x] = e[2]
  <1>1. DOMAIN Table(entries) = UNION {e[1] : e \in entries}
    BY DEF Table
  <1>2. x \in DOMAIN Table(entries) <=> \E e \in entries : x \in e[1]
    BY <1>1
  <1>3. ASSUME x \in DOMAIN Table(entries)
        PROVE  \E e \in entries : x \in e[1] /\ Table(entries)[x] = e[2]
    <2> DEFINE e == CHOOSE e \in entries : x \in e[1]
    <2>1. e \in entries /\ x \in e[1]
      BY <1>2, <1>3
    <2>2. Table(entries)[x] = e[2]
      BY <1>1, <1>3 DEF Table
    <2> HIDE DEF e
    <2> QED  BY <2>1, <2>2
  <1> QED  BY <1>2, <1>3

\* The names that one operand, no operand, and a jump have are different.
OperandNames == {"SWAB", "SXT", "MARK", "MTPS", "MFPS", "CLR", "COM", "INC", "DEC", "NEG", "ADC",
                 "SBC", "TST", "ROR", "ROL", "ASR", "ASL", "MFP", "MTP"}
JumpNames == {"JMP", "JSR"}
PlainName(name) == name \notin OperandNames /\ name \notin JumpNames

LEMMA SingleNamed ==
  ASSUME NEW x
  PROVE  /\ x \in DOMAIN SingleNames <=>
              x \in {40, 41, 42, 43, 44, 45, 46, 47, 48, 49, 50, 51, 53, 54}
         /\ x \in DOMAIN SingleNames => SingleNames[x] \in OperandNames
         /\ x = 53 => SingleNames[x] = "MFP"
         /\ x = 54 => SingleNames[x] = "MTP"
  <1> DEFINE entries == {<<{\o50}, "CLR">>, <<{\o51}, "COM">>, <<{\o52}, "INC">>,
        <<{\o53}, "DEC">>, <<{\o54}, "NEG">>, <<{\o55}, "ADC">>, <<{\o56}, "SBC">>,
        <<{\o57}, "TST">>, <<{\o60}, "ROR">>, <<{\o61}, "ROL">>, <<{\o62}, "ASR">>,
        <<{\o63}, "ASL">>, <<{\o65}, "MFP">>, <<{\o66}, "MTP">>}
  <1>1. SingleNames = Table(entries)
    BY DEF SingleNames
  <1>2. /\ x \in DOMAIN Table(entries) <=> \E e \in entries : x \in e[1]
        /\ x \in DOMAIN Table(entries) =>
             \E e \in entries : x \in e[1] /\ Table(entries)[x] = e[2]
    <2> HIDE DEF entries
    <2> QED  BY TableEntry
  <1> DEFINE t == Table(entries)
  <1>3. /\ x \in DOMAIN t <=> \E e \in entries : x \in e[1]
        /\ x \in DOMAIN t => \E e \in entries : x \in e[1] /\ t[x] = e[2]
    BY <1>2
  <1> HIDE DEF t
  <1>4. x \in DOMAIN t <=> x \in {40, 41, 42, 43, 44, 45, 46, 47, 48, 49, 50, 51, 53, 54}
    BY <1>3
  <1>5. x \in DOMAIN t => t[x] \in OperandNames
    BY <1>3 DEF OperandNames
  <1>6. (x = 53 => t[x] = "MFP") /\ (x = 54 => t[x] = "MTP")
    BY <1>3, <1>4
  <1> QED  BY <1>1, <1>4, <1>5, <1>6 DEF t

LEMMA EisNamed ==
  ASSUME NEW x
  PROVE  /\ x \in DOMAIN EisNames <=> x \in {0, 1, 2, 3, 4, 7}
         /\ x \in DOMAIN EisNames => EisNames[x] # "?"
  <1> DEFINE entries == {<<{0}, "MUL">>, <<{1}, "DIV">>, <<{2}, "ASH">>, <<{3}, "ASHC">>,
        <<{4}, "XOR">>, <<{7}, "SOB">>}
  <1>1. /\ x \in DOMAIN Table(entries) <=> \E e \in entries : x \in e[1]
        /\ x \in DOMAIN Table(entries) =>
             \E e \in entries : x \in e[1] /\ Table(entries)[x] = e[2]
    <2> HIDE DEF entries
    <2> QED  BY TableEntry
  <1>2. EisNames = Table(entries)
    BY DEF EisNames
  <1> DEFINE t == Table(entries)
  <1>3. /\ x \in DOMAIN t <=> \E e \in entries : x \in e[1]
        /\ x \in DOMAIN t => \E e \in entries : x \in e[1] /\ t[x] = e[2]
    BY <1>1
  <1> HIDE DEF t
  <1>4. x \in DOMAIN t <=> x \in {0, 1, 2, 3, 4, 7}
    BY <1>3
  <1>5. x \in DOMAIN t => t[x] # "?"
    BY <1>3
  <1> QED  BY <1>2, <1>4, <1>5 DEF t

LEMMA BranchNamed ==
  ASSUME NEW x
  PROVE  /\ x \in DOMAIN BranchNames <=> x \in 1..7 \/ x \in 128..135
         /\ x \in DOMAIN BranchNames => PlainName(BranchNames[x])
  <1> DEFINE entries == {<<{1}, "BR">>, <<{2}, "BNE">>, <<{3}, "BEQ">>, <<{4}, "BGE">>,
        <<{5}, "BLT">>, <<{6}, "BGT">>, <<{7}, "BLE">>, <<{128}, "BPL">>, <<{129}, "BMI">>,
        <<{130}, "BHI">>, <<{131}, "BLOS">>, <<{132}, "BVC">>, <<{133}, "BVS">>,
        <<{134}, "BCC">>, <<{135}, "BCS">>}
  <1>1. BranchNames = Table(entries)
    BY DEF BranchNames
  <1>2. /\ x \in DOMAIN Table(entries) <=> \E e \in entries : x \in e[1]
        /\ x \in DOMAIN Table(entries) =>
             \E e \in entries : x \in e[1] /\ Table(entries)[x] = e[2]
    <2> HIDE DEF entries
    <2> QED  BY TableEntry
  <1> DEFINE t == Table(entries)
  <1>3. /\ x \in DOMAIN t <=> \E e \in entries : x \in e[1]
        /\ x \in DOMAIN t => \E e \in entries : x \in e[1] /\ t[x] = e[2]
    BY <1>2
  <1> HIDE DEF t
  <1>4. x \in DOMAIN t <=> x \in {1, 2, 3, 4, 5, 6, 7, 128, 129, 130, 131, 132, 133, 134, 135}
    BY <1>3
  <1>5. x \in {1, 2, 3, 4, 5, 6, 7, 128, 129, 130, 131, 132, 133, 134, 135}
          <=> x \in 1..7 \/ x \in 128..135
    OBVIOUS
  <1>6. ASSUME x \in DOMAIN t  PROVE PlainName(t[x])
    <2>1. PICK e \in entries : t[x] = e[2]
      BY <1>3, <1>6
    <2>2. e[2] \in {"BR", "BNE", "BEQ", "BGE", "BLT", "BGT", "BLE", "BPL", "BMI", "BHI", "BLOS",
                    "BVC", "BVS", "BCC", "BCS"}
      BY <2>1
    <2> HIDE DEF entries
    <2> QED  BY <2>1, <2>2 DEF PlainName, OperandNames, JumpNames
  <1> HIDE DEF entries
  <1> QED  BY <1>1, <1>4, <1>5, <1>6 DEF t

LEMMA MiscNamed ==
  ASSUME NEW x
  PROVE  /\ x \in DOMAIN MiscNames => x \in 0..7 \/ x \in 128..191
         /\ x \in DOMAIN MiscNames => PlainName(MiscNames[x])
         /\ x = 3 => x \in DOMAIN MiscNames /\ MiscNames[x] = "BPT"
  <1> DEFINE entries == {<<{0}, "HALT">>, <<{1}, "WAIT">>, <<{2}, "RTI">>, <<{3}, "BPT">>,
        <<{4}, "IOT">>, <<{5}, "RESET">>, <<{6}, "RTT">>, <<{7}, "MFPT">>,
        <<\o200 .. \o207, "RTS">>, <<\o230 .. \o237, "SPL">>,
        <<{\o240, \o260}, "NOP">>, <<\o241 .. \o257 \cup \o261 .. \o277, "CC">>}
  <1>1. MiscNames = Table(entries)
    BY DEF MiscNames
  <1>2. /\ x \in DOMAIN Table(entries) <=> \E e \in entries : x \in e[1]
        /\ x \in DOMAIN Table(entries) =>
             \E e \in entries : x \in e[1] /\ Table(entries)[x] = e[2]
    <2> HIDE DEF entries
    <2> QED  BY TableEntry
  <1> DEFINE t == Table(entries)
  <1>3. /\ x \in DOMAIN t <=> \E e \in entries : x \in e[1]
        /\ x \in DOMAIN t => \E e \in entries : x \in e[1] /\ t[x] = e[2]
    BY <1>2
  <1> HIDE DEF t
  <1>4. x \in DOMAIN t => x \in 0..7 \/ x \in 128..191
    BY <1>3
  <1>5. ASSUME x \in DOMAIN t  PROVE PlainName(t[x])
    <2>1. PICK e \in entries : t[x] = e[2]
      BY <1>3, <1>5
    <2>2. e[2] \in {"HALT", "WAIT", "RTI", "BPT", "IOT", "RESET", "RTT", "MFPT", "RTS", "SPL",
                    "NOP", "CC"}
      BY <2>1
    <2> HIDE DEF entries
    <2> QED  BY <2>1, <2>2 DEF PlainName, OperandNames, JumpNames
  <1>6. x = 3 => x \in DOMAIN t /\ t[x] = "BPT"
    BY <1>3
  <1> HIDE DEF entries
  <1> QED  BY <1>1, <1>4, <1>5, <1>6 DEF t

LEMMA CallNamed ==
  ASSUME NEW x
  PROVE  /\ x \in DOMAIN CallNames => x \in {136, 137}
         /\ x \in DOMAIN CallNames => PlainName(CallNames[x])
  <1> DEFINE entries == {<<{\o210}, "EMT">>, <<{\o211}, "TRAP">>}
  <1>1. CallNames = Table(entries)
    BY DEF CallNames
  <1>2. /\ x \in DOMAIN Table(entries) <=> \E e \in entries : x \in e[1]
        /\ x \in DOMAIN Table(entries) =>
             \E e \in entries : x \in e[1] /\ Table(entries)[x] = e[2]
    <2> HIDE DEF entries
    <2> QED  BY TableEntry
  <1> DEFINE t == Table(entries)
  <1>3. /\ x \in DOMAIN t <=> \E e \in entries : x \in e[1]
        /\ x \in DOMAIN t => \E e \in entries : x \in e[1] /\ t[x] = e[2]
    BY <1>2
  <1> HIDE DEF t
  <1>4. x \in DOMAIN t => x \in {136, 137}
    BY <1>3
  <1>5. x \in DOMAIN t => PlainName(t[x])
    BY <1>3 DEF PlainName, OperandNames, JumpNames
  <1> HIDE DEF entries
  <1> QED  BY <1>1, <1>4, <1>5 DEF t

\* The durations of the instructions 0 to 7: BPT has none.
LEMMA MiscTimed ==
  ASSUME NEW i \in 0..7, i # 3
  PROVE  MiscTime(i) # 0
  <1> DEFINE entries == {<<{0}, 1050>>, <<{1}, 450>>, <<{2, 6, 7}, 1500>>, <<{5}, 10000000>>,
                         <<{4}, 3300>>, <<{3} \cup 8..63, 0>>}
  <1>1. MiscTime(i) = Look(Table(entries), i)
    BY DEF MiscTime
  <1>2. /\ i \in DOMAIN Table(entries) <=> \E e \in entries : i \in e[1]
        /\ i \in DOMAIN Table(entries) =>
             \E e \in entries : i \in e[1] /\ Table(entries)[i] = e[2]
    <2> HIDE DEF entries
    <2> QED  BY TableEntry
  <1> DEFINE t == Table(entries)
  <1>3. /\ i \in DOMAIN t <=> \E e \in entries : i \in e[1]
        /\ i \in DOMAIN t => \E e \in entries : i \in e[1] /\ t[i] = e[2]
    BY <1>2
  <1> HIDE DEF t
  <1>4. i \in DOMAIN t /\ t[i] # 0
    BY <1>3
  <1> HIDE DEF entries
  <1> QED  BY <1>1, <1>4 DEF t, Look

\* The fields of an instruction, by the number q of its upper ten bits.
LEMMA FieldsOf ==
  ASSUME NEW i \in Instructions, NEW q, q = i \div 64
  PROVE  /\ q \in 0..1023 /\ i \div 256 = q \div 4 /\ i \div 512 = q \div 8
         /\ Operation(i) = (q \div 64) % 8 /\ Opcode(i) = q % 64 /\ (IsByte(i) <=> q >= 512)
         /\ i \in 64 * q .. 64 * q + 63
         /\ Mode(Dst(i)) \in 0..7 /\ Mode(Src(i)) \in 0..7
  <1>1. i \in Int /\ i >= 0 /\ i < 65536
    BY DEF Instructions
  <1>2. q \in 0..1023 /\ i \in 64 * q .. 64 * q + 63
    BY <1>1
  <1>3. i \div 256 = q \div 4 /\ i \div 512 = q \div 8 /\ i \div 4096 = q \div 64
    <2>1. (i \div 64) \div 4 = i \div (64 * 4)
      BY ONLY <1>1, 4 \in Int, 64 \in Int, 4 > 0, 64 > 0, DivDiv
    <2>2. (i \div 64) \div 8 = i \div (64 * 8)
      BY ONLY <1>1, 8 \in Int, 64 \in Int, 8 > 0, 64 > 0, DivDiv
    <2>3. (i \div 64) \div 64 = i \div (64 * 64)
      BY ONLY <1>1, 64 \in Int, 64 > 0, DivDiv
    <2> QED  BY <2>1, <2>2, <2>3
  <1>4. IsByte(i) <=> q >= 512
    BY <1>2 DEF IsByte
  <1>5. Mode(Dst(i)) \in 0..7 /\ Mode(Src(i)) \in 0..7
    <2>1. i % 64 \in 0..63 /\ q % 64 \in 0..63
      BY <1>1, <1>2
    <2> DEFINE d == i % 64
               c == q % 64
    <2>2. d \div 8 \in 0..7 /\ c \div 8 \in 0..7
      <3> HIDE DEF d, c
      <3> QED  BY <2>1 DEF d, c
    <2> QED  BY <2>2 DEF Mode, Dst, Src
  <1> QED  BY <1>2, <1>3, <1>4, <1>5 DEF Operation, Opcode

\* The groups of one operand, of words and of bytes, and the register group.
LEMMA GroupOf ==
  ASSUME NEW i \in Instructions, NEW q, q = i \div 64
  PROVE  /\ Operation(i) \in 0..7
         /\ Operation(i) = 0 /\ ~IsByte(i) => q \in 0..63 /\ Opcode(i) = q
         /\ Operation(i) = 0 /\ IsByte(i) => q \in 512..575 /\ Opcode(i) = q - 512
         /\ Operation(i) = 7 => q \in 448..511 \/ q \in 960..1023
  <1>1. /\ q \in 0..1023 /\ Operation(i) = (q \div 64) % 8 /\ Opcode(i) = q % 64
        /\ (IsByte(i) <=> q >= 512)
    BY FieldsOf
  <1> DEFINE g == q \div 64
  <1>2. g \in 0..15 /\ q \in 64 * g .. 64 * g + 63
    BY <1>1
  <1>3. g % 8 = IF g < 8 THEN g ELSE g - 8
    <2> HIDE DEF g
    <2>1. g \in -8 .. 2 * 8 - 1 /\ 8 \in Nat /\ 8 > 0
      BY <1>2
    <2>2. g % 8 = IF g < 0 THEN g + 8 ELSE IF g < 8 THEN g ELSE g - 8
      BY ONLY <2>1, Wrapped
    <2> QED  BY <1>2, <2>2
  <1> DEFINE o == Operation(i)
  <1>4. o = IF g < 8 THEN g ELSE g - 8
    BY <1>1, <1>3
  <1> HIDE DEF g, o
  <1>5. /\ o \in 0..7
        /\ o = 0 /\ q < 512 => q \in 0..63
        /\ o = 0 /\ q >= 512 => q \in 512..575
        /\ o = 7 => q \in 448..511 \/ q \in 960..1023
    BY <1>1, <1>2, <1>4
  <1>6. q \in 0..63 => q % 64 = q
    OBVIOUS
  <1>7. q \in 512..575 => q % 64 = q - 512
    OBVIOUS
  <1> QED  BY <1>1, <1>5, <1>6, <1>7 DEF o

LEMMA FirstOfFive ==
  ASSUME NEW a, NEW b, NEW c, NEW d, NEW e
  PROVE  FirstName(<<a, b, c, d, e>>) =
           IF a # NoName THEN a ELSE IF b # NoName THEN b ELSE IF c # NoName THEN c
           ELSE IF d # NoName THEN d ELSE e
  <1> DEFINE names == <<a, b, c, d, e>>
             Is(n) == names[n] # NoName /\ \A k \in 1 .. n - 1 : names[k] = NoName
             n == CHOOSE m \in DOMAIN names : Is(m)
  <1>1. DOMAIN names = {1, 2, 3, 4, 5}
    OBVIOUS
  <1>2. names[1] = a /\ names[2] = b /\ names[3] = c /\ names[4] = d /\ names[5] = e
    OBVIOUS
  <1>3. FirstName(names) = IF \E m \in DOMAIN names : names[m] # NoName THEN names[n] ELSE NoName
    BY DEF FirstName
  <1> HIDE DEF names
  <1>4. ASSUME NEW m \in 1..5, Is(m), NEW k \in 1..5, Is(k)  PROVE k = m
    <2>1. CASE k < m
      BY <1>4, <2>1
    <2>2. CASE m < k
      BY <1>4, <2>2
    <2> QED  BY <2>1, <2>2
  <1>5. ASSUME NEW m \in 1..5, Is(m)  PROVE FirstName(names) = names[m]
    <2>1. m \in DOMAIN names /\ \A k \in DOMAIN names : k \in 1..5
      BY <1>1
    <2>2. n \in 1..5 /\ Is(n)
      BY <1>5, <2>1
    <2>3. n = m
      <3> HIDE DEF Is, n
      <3> QED  BY <1>4, <1>5, <2>2
    <2> QED  BY <1>3, <1>5, <2>1, <2>3
  <1>6. CASE a # NoName
    <2>1. Is(1)
      BY <1>2, <1>6
    <2> QED  BY <1>2, <1>5, <1>6, <2>1 DEF names
  <1>7. CASE a = NoName /\ b # NoName
    <2>1. Is(2)
      BY <1>2, <1>7
    <2> QED  BY <1>2, <1>5, <1>7, <2>1 DEF names
  <1>8. CASE a = NoName /\ b = NoName /\ c # NoName
    <2>1. Is(3)
      BY <1>2, <1>8
    <2> QED  BY <1>2, <1>5, <1>8, <2>1 DEF names
  <1>9. CASE a = NoName /\ b = NoName /\ c = NoName /\ d # NoName
    <2>1. Is(4)
      BY <1>2, <1>9
    <2> QED  BY <1>2, <1>5, <1>9, <2>1 DEF names
  <1>10. CASE a = NoName /\ b = NoName /\ c = NoName /\ d = NoName /\ e # NoName
    <2>1. Is(5)
      BY <1>2, <1>10
    <2> QED  BY <1>2, <1>5, <1>10, <2>1 DEF names
  <1>11. CASE a = NoName /\ b = NoName /\ c = NoName /\ d = NoName /\ e = NoName
    <2>1. FirstName(names) = NoName
      BY <1>1, <1>2, <1>3, <1>11
    <2> QED  BY <1>11, <2>1 DEF names
  <1> QED  BY <1>6, <1>7, <1>8, <1>9, <1>10, <1>11

\* Where the names that are not of operands are found.
LEMMA OtherNames ==
  ASSUME NEW i \in Instructions, NEW q, q = i \div 64
  PROVE  /\ Branch(i) # NoName => (q \in 4..31 \/ q \in 512..543) /\ PlainName(Branch(i))
         /\ Misc(i) # NoName => (i \in 0..7 \/ q = 2) /\ PlainName(Misc(i))
         /\ Call(i) # NoName => q \in 544..551 /\ PlainName(Call(i))
         /\ Jump(i) = (IF q = 1 THEN "JMP" ELSE IF q \in 32..39 THEN "JSR" ELSE NoName)
         /\ i = 3 => Misc(i) = "BPT"
  <1>1. /\ q \in 0..1023 /\ i \div 256 = q \div 4 /\ i \div 512 = q \div 8
        /\ i \in 64 * q .. 64 * q + 63
    BY FieldsOf
  <1>2. ASSUME Branch(i) # NoName
        PROVE  (q \in 4..31 \/ q \in 512..543) /\ PlainName(Branch(i))
    <2> DEFINE x == i \div 256
    <2>1. x \in DOMAIN BranchNames /\ Branch(i) = BranchNames[x]
      BY <1>2 DEF Branch, Look
    <2>2. (x \in 1..7 \/ x \in 128..135) /\ PlainName(BranchNames[x])
      <3> HIDE DEF x
      <3> QED  BY <2>1, BranchNamed
    <2>3. x = q \div 4
      BY <1>1
    <2> HIDE DEF x
    <2> QED  BY <1>1, <2>1, <2>2, <2>3
  <1>3. ASSUME Misc(i) # NoName
        PROVE  (i \in 0..7 \/ q = 2) /\ PlainName(Misc(i))
    <2>1. i \in DOMAIN MiscNames /\ Misc(i) = MiscNames[i]
      BY <1>3 DEF Misc, Look
    <2>2. (i \in 0..7 \/ i \in 128..191) /\ PlainName(MiscNames[i])
      BY <2>1, MiscNamed
    <2> QED  BY <1>1, <2>1, <2>2
  <1>4. ASSUME Call(i) # NoName
        PROVE  q \in 544..551 /\ PlainName(Call(i))
    <2> DEFINE x == i \div 256
    <2>1. x \in DOMAIN CallNames /\ Call(i) = CallNames[x]
      BY <1>4 DEF Call, Look
    <2>2. x \in {136, 137} /\ PlainName(CallNames[x])
      <3> HIDE DEF x
      <3> QED  BY <2>1, CallNamed
    <2>3. x = q \div 4
      BY <1>1
    <2> HIDE DEF x
    <2> QED  BY <1>1, <2>1, <2>2, <2>3
  <1>5. Jump(i) = (IF q = 1 THEN "JMP" ELSE IF q \in 32..39 THEN "JSR" ELSE NoName)
    <2>1. q \div 8 = 4 <=> q \in 32..39
      BY <1>1
    <2>2. i \div 64 = q /\ i \div 512 = q \div 8
      BY <1>1
    <2> QED  BY <2>1, <2>2 DEF Jump
  <1>6. ASSUME i = 3  PROVE Misc(i) = "BPT"
    BY <1>6, MiscNamed DEF Misc, Look
  <1> QED  BY <1>2, <1>3, <1>4, <1>5, <1>6

\* What the one operand group executes.
LEMMA SingleOf ==
  ASSUME NEW i \in Instructions, NEW o, o = Opcode(i), NEW name, name = ExecSingle(i),
         name # NoName
  PROVE  \/ o = 3 /\ ~IsByte(i) /\ name = "SWAB"
         \/ o = 52 /\ name = IF IsByte(i) THEN "MTPS" ELSE "MARK"
         \/ o = 55 /\ name = IF IsByte(i) THEN "MFPS" ELSE "SXT"
         \/ /\ o \in {40, 41, 42, 43, 44, 45, 46, 47, 48, 49, 50, 51, 53, 54}
            /\ o \in DOMAIN SingleNames /\ name = SingleNames[o]
            /\ (o = 53 => name = "MFP") /\ (o = 54 => name = "MTP")
  <1>1. CASE o = 3   BY <1>1 DEF ExecSingle
  <1>2. CASE o = 52  BY <1>2 DEF ExecSingle
  <1>3. CASE o = 55  BY <1>3 DEF ExecSingle
  <1>4. CASE o \notin {3, 52, 55}
    <2>1. name = Look(SingleNames, o)
      BY <1>4 DEF ExecSingle
    <2>2. o \in DOMAIN SingleNames /\ name = SingleNames[o]
      BY <2>1 DEF Look
    <2> QED  BY <2>2, SingleNamed
  <1> QED  BY <1>1, <1>2, <1>3, <1>4

\* What execution and disassembler call an instruction.
LEMMA ExecutedIs ==
  ASSUME NEW i
  PROVE  /\ Executed(i) = IF ExecDouble(i) # NoName THEN ExecDouble(i)
                          ELSE IF Branch(i) # NoName THEN Branch(i)
                          ELSE IF Misc(i) # NoName THEN Misc(i)
                          ELSE IF Call(i) # NoName THEN Call(i) ELSE ExecJump(i)
         /\ Shown(i) = IF ShownDouble(i) # NoName THEN ShownDouble(i)
                       ELSE IF Branch(i) # NoName THEN Branch(i)
                       ELSE IF Misc(i) # NoName THEN Misc(i)
                       ELSE IF Call(i) # NoName THEN Call(i) ELSE Jump(i)
         /\ (Operation(i) # 7 \/ ~IsByte(i)) => ShownDouble(i) = ExecDouble(i)
         /\ Operation(i) = 7 /\ IsByte(i) => ExecDouble(i) = NoName /\ ShownDouble(i) = "?"
  <1>1. Executed(i) = IF ExecDouble(i) # NoName THEN ExecDouble(i)
                      ELSE IF Branch(i) # NoName THEN Branch(i)
                      ELSE IF Misc(i) # NoName THEN Misc(i)
                      ELSE IF Call(i) # NoName THEN Call(i) ELSE ExecJump(i)
    BY FirstOfFive DEF Executed
  <1>2. Shown(i) = IF ShownDouble(i) # NoName THEN ShownDouble(i)
                   ELSE IF Branch(i) # NoName THEN Branch(i)
                   ELSE IF Misc(i) # NoName THEN Misc(i)
                   ELSE IF Call(i) # NoName THEN Call(i) ELSE Jump(i)
    BY FirstOfFive DEF Shown
  <1>3. ShownSingle(i) = ExecSingle(i)
    BY DEF ShownSingle, ExecSingle
  <1>4. (Operation(i) # 7 \/ ~IsByte(i)) => ShownDouble(i) = ExecDouble(i)
    BY <1>3 DEF ShownDouble, ExecDouble
  <1>5. Operation(i) = 7 /\ IsByte(i) => ExecDouble(i) = NoName /\ ShownDouble(i) = "?"
    BY DEF ShownDouble, ExecDouble
  <1> QED  BY <1>1, <1>2, <1>4, <1>5

\* The group of register instructions has no names but its own.
LEMMA NoOtherName ==
  ASSUME NEW i \in Instructions, Operation(i) = 7
  PROVE  Branch(i) = NoName /\ Misc(i) = NoName /\ Call(i) = NoName
         /\ Jump(i) = NoName /\ ExecJump(i) = NoName
  <1> DEFINE q == i \div 64
  <1>1. (q \in 448..511 \/ q \in 960..1023) /\ i \in 64 * q .. 64 * q + 63
    <2> HIDE DEF q
    <2> QED  BY GroupOf, FieldsOf DEF q
  <1>2. /\ Branch(i) # NoName => (q \in 4..31 \/ q \in 512..543)
        /\ Misc(i) # NoName => (i \in 0..7 \/ q = 2)
        /\ Call(i) # NoName => q \in 544..551
        /\ Jump(i) = (IF q = 1 THEN "JMP" ELSE IF q \in 32..39 THEN "JSR" ELSE NoName)
    <2> HIDE DEF q
    <2> QED  BY OtherNames DEF q
  <1> HIDE DEF q
  <1>3. Branch(i) = NoName /\ Misc(i) = NoName /\ Call(i) = NoName /\ Jump(i) = NoName
    BY <1>1, <1>2
  <1> QED  BY <1>3 DEF ExecJump

LEMMA SameNames ==
  ASSUME NEW i \in Instructions
  PROVE  IF Executed(i) = NoName
         THEN Shown(i) \in {NoName, "?"} \/ (Shown(i) \in {"JMP", "JSR"} /\ ShownWords(i) = 1)
         ELSE Shown(i) = Executed(i)
  <1>1. CASE Operation(i) = 7 /\ IsByte(i)
    BY <1>1, ExecutedIs, NoOtherName DEF NoName
  <1>2. CASE ~(Operation(i) = 7 /\ IsByte(i))
    <2>1. ShownDouble(i) = ExecDouble(i)
      BY <1>2, ExecutedIs
    <2>2. CASE ~(/\ ExecDouble(i) = NoName /\ Branch(i) = NoName /\ Misc(i) = NoName
                 /\ Call(i) = NoName)
      BY <2>1, <2>2, ExecutedIs
    <2>3. CASE /\ ExecDouble(i) = NoName /\ Branch(i) = NoName /\ Misc(i) = NoName
               /\ Call(i) = NoName
      <3>1. Executed(i) = ExecJump(i) /\ Shown(i) = Jump(i)
        BY <2>1, <2>3, ExecutedIs
      <3>2. CASE Mode(Dst(i)) # 0
        BY <3>1, <3>2 DEF ExecJump
      <3>3. CASE Mode(Dst(i)) = 0
        <4>1. Executed(i) = NoName
          BY <3>1, <3>3 DEF ExecJump
        <4>2. Shown(i) \in {"JMP", "JSR"} \/ Shown(i) = NoName
          BY <3>1 DEF Jump
        <4>3. ASSUME Shown(i) \in {"JMP", "JSR"}  PROVE ShownWords(i) = 1
          <5> DEFINE q == i \div 64
          <5>1. Jump(i) = (IF q = 1 THEN "JMP" ELSE IF q \in 32..39 THEN "JSR" ELSE NoName)
            <6> HIDE DEF q
            <6> QED  BY OtherNames DEF q
          <5>2. Operation(i) = (q \div 64) % 8
            <6> HIDE DEF q
            <6> QED  BY FieldsOf DEF q
          <5>3. q \in 0..63
            BY <3>1, <4>3, <5>1 DEF NoName
          <5>4. Operation(i) = 0
            <6> HIDE DEF q
            <6>1. q \div 64 = 0
              BY <5>3
            <6> QED  BY <5>2, <6>1
          <5>5. ~TwoFields(i)
            BY <5>4 DEF TwoFields
          <5>6. OperandWords(Dst(i)) = 0
            BY <3>3 DEF OperandWords
          <5> QED  BY <2>1, <2>3, <4>3, <5>5, <5>6 DEF ShownWords
        <4> QED  BY <4>1, <4>2, <4>3
      <3> QED  BY <3>2, <3>3
    <2> QED  BY <2>2, <2>3
  <1> QED  BY <1>1, <1>2

LEMMA SameWords ==
  ASSUME NEW i \in Instructions, Executed(i) # NoName, Executed(i) \notin NoOperand
  PROVE  ShownWords(i) = ExecutedWords(i)
  <1> DEFINE name == Executed(i)
             more == 1 + OperandWords(Dst(i))
  <1>1. ~(Operation(i) = 7 /\ IsByte(i))
    BY ExecutedIs, NoOtherName
  <1>2. ShownDouble(i) = ExecDouble(i) /\ Shown(i) = name
    BY <1>1, ExecutedIs, SameNames
  <1>3. Operation(i) \in 0..7
    BY GroupOf
  <1>4. CASE TwoFields(i)
    BY <1>4 DEF ShownWords, ExecutedWords
  <1>5. CASE ~TwoFields(i) /\ ExecDouble(i) # NoName
    <2>1. name = ExecDouble(i)
      BY <1>5, ExecutedIs
    <2>2. ExecDouble(i) # "?" /\ HasOperand(i, name)
      <3>1. CASE Operation(i) = 7
        <4>1. ExecDouble(i) = Look(EisNames, Eis(i))
          BY <1>1, <3>1 DEF ExecDouble
        <4>2. ExecDouble(i) # "?"
          BY <1>5, <4>1, EisNamed DEF Look
        <4>3. name # "SOB"
          BY DEF NoOperand
        <4> QED  BY <3>1, <4>2, <4>3 DEF HasOperand
      <3>2. CASE Operation(i) = 0
        <4>1. name = ExecSingle(i) /\ name # NoName
          BY <1>5, <2>1, <3>2 DEF ExecDouble
        <4>2. name \notin {"SOB", "MARK", "MTPS", "MFPS"}
          BY DEF NoOperand
        <4> HIDE DEF name
        <4>3. \/ name = "SWAB" \/ name = "SXT"
              \/ Opcode(i) \in DOMAIN SingleNames /\ name = SingleNames[Opcode(i)]
          BY <4>1, <4>2, SingleOf
        <4>4. HasOperand(i, name)
          BY <4>3 DEF HasOperand
        <4>5. name # "?"
          BY <4>3, SingleNamed DEF OperandNames
        <4> QED  BY <2>1, <4>4, <4>5
      <3>3. Operation(i) = 7 \/ Operation(i) = 0
        BY <1>3, <1>5 DEF TwoFields
      <3> QED  BY <3>1, <3>2, <3>3
    <2>3. ShownWords(i) = more /\ ExecutedWords(i) = more
      BY <1>2, <1>5, <2>1, <2>2 DEF ShownWords, ExecutedWords
    <2> QED  BY <2>3
  <1>6. CASE ~TwoFields(i) /\ ExecDouble(i) = NoName
    <2>1. Operation(i) # 7
      BY <1>6, ExecutedIs, NoOtherName
    <2> DEFINE q == i \div 64
    <2>2. /\ Branch(i) # NoName => PlainName(Branch(i))
          /\ Misc(i) # NoName => PlainName(Misc(i))
          /\ Call(i) # NoName => PlainName(Call(i))
          /\ Jump(i) \in {"JMP", "JSR", NoName}
      <3> HIDE DEF q
      <3> QED  BY OtherNames DEF q
    <2>3. PlainName(name) \/ name \in {"JMP", "JSR"}
      BY <1>6, <2>2, ExecutedIs DEF ExecJump
    <2> HIDE DEF name
    <2>4. CASE name \in {"JMP", "JSR"}
      <3>1. HasOperand(i, name)
        BY <2>4 DEF HasOperand
      <3>2. ExecutedWords(i) = more
        BY <1>6, <3>1 DEF ExecutedWords, name
      <3>3. ShownWords(i) = more
        BY <1>2, <1>6, <2>4 DEF ShownWords
      <3> QED  BY <3>2, <3>3
    <2>5. CASE PlainName(name)
      <3>1. name \notin OperandNames /\ name \notin {"JMP", "JSR"}
        BY <2>5 DEF PlainName, JumpNames
      <3>2. ~HasOperand(i, name)
        <4>1. name \notin {"SWAB", "SXT", "JMP", "JSR"}
          BY <3>1 DEF OperandNames
        <4>2. \A n \in DOMAIN SingleNames : name # SingleNames[n]
          BY <3>1, SingleNamed
        <4> QED  BY <2>1, <4>1, <4>2 DEF HasOperand
      <3>3. ExecutedWords(i) = 1
        BY <1>6, <3>2 DEF ExecutedWords, name
      <3>4. ShownWords(i) = 1
        BY <1>2, <1>6, <3>1 DEF ShownWords
      <3> QED  BY <3>3, <3>4
    <2> QED  BY <2>3, <2>4, <2>5
  <1> QED  BY <1>4, <1>5, <1>6

\* Durations.
LEMMA TimesOfModes ==
  ASSUME NEW m \in 0..7
  PROVE  /\ SrcDstTime(m) \in Nat /\ MtpTime(m) \in Nat /\ MtpTime(m) > 0
         /\ JmpTime(m) \in Nat /\ (m # 0 => JmpTime(m) > 0)
         /\ (m # 0 => ByMode(<<0, 1200, 1200, 1650, 1350, 1800, 1500, 1950>>, m) >= 1200)
  <1>1. m \in {0, 1, 2, 3, 4, 5, 6, 7}
    OBVIOUS
  <1> QED  BY <1>1 DEF SrcDstTime, MtpTime, JmpTime, ByMode

LEMMA DoubleTimed ==
  ASSUME NEW i \in Instructions
  PROVE  DoubleTime(i) # 0
  <1> DEFINE src == Mode(Src(i))
             dst == Mode(Dst(i))
             Ef(col2) == timings_double_operand(300, 450, col2, 150, src, dst, Reg(Dst(i)))
             col == IF Operation(i) \in {2, 3} THEN 450 ELSE 1200
  <1>1. src \in 0..7 /\ dst \in 0..7
    BY FieldsOf
  <1>2. SrcDstTime(src) \in Nat /\ SrcDstTime(dst) \in Nat
    BY <1>1, TimesOfModes
  <1>3. DoubleTime(i) = SrcDstTime(src) +
          (IF Operation(i) = 1 /\ ~IsByte(i) THEN MovTime(i) ELSE SrcDstTime(dst) + Ef(col))
    BY DEF DoubleTime
  <1>4. MovTime(i) \in Int /\ MovTime(i) > 0
    <2>1. CASE dst = 0
      BY <2>1 DEF MovTime
    <2>2. CASE dst # 0
      <3> DEFINE time == ByMode(<<0, 1200, 1200, 1650, 1350, 1800, 1500, 1950>>, dst)
                 extra == IF dst >= 6 /\ src # 0 THEN 150 ELSE 0
      <3>1. MovTime(i) = time + extra
        BY <2>2 DEF MovTime
      <3>2. time \in Int /\ time > 0
        <4>1. dst \in {1, 2, 3, 4, 5, 6, 7}
          BY <1>1, <2>2
        <4> HIDE DEF dst
        <4> QED  BY <4>1 DEF ByMode
      <3>3. extra \in {0, 150}
        OBVIOUS
      <3> HIDE DEF time, extra
      <3> QED  BY <3>1, <3>2, <3>3
    <2> QED  BY <2>1, <2>2
  <1>5. Ef(col) \in Int /\ Ef(col) > 0
    <2>1. col \in {450, 1200}
      OBVIOUS
    <2> HIDE DEF src, dst, col
    <2> QED  BY <2>1 DEF timings_double_operand
  <1> HIDE DEF src, dst, Ef, col
  <1> QED  BY <1>2, <1>3, <1>4, <1>5

\* The opcodes of one operand that take time.
LEMMA SingleTimed ==
  ASSUME NEW i, NEW w, Opcode(i) \in 40..51
  PROVE  SingleTime(i, w) # 0
  <1> DEFINE o == Opcode(i)
             yes == Mode(Dst(i)) = 0
             bit == w % 2 = 1
  <1>1. ToRegister(i, 750, 1500) \in {750, 1500} /\ ToRegister(i, 300, 1200) \in {300, 1200}
        /\ ToRegister(i, 300, 450) \in {300, 450}
    BY DEF ToRegister
  <1>2. PcTime(i) \in {0, 300}
    BY DEF PcTime
  <1>3. (IF w % 2 = 1 THEN 150 ELSE 0) \in {0, 150}
    OBVIOUS
  <1>4. o = 44 \/ o \in {40, 41, 42, 43, 45, 46, 49, 51} \/ o = 47 \/ o \in {48, 50}
    OBVIOUS
  <1> HIDE DEF o
  <1>5. CASE o = 44
    BY <1>1, <1>5 DEF SingleTime, o
  <1>6. CASE o \in {40, 41, 42, 43, 45, 46, 49, 51}
    <2>1. SingleTime(i, w) = ToRegister(i, 300, 1200) + PcTime(i)
      BY <1>6 DEF SingleTime, o
    <2> QED  BY <1>1, <1>2, <2>1
  <1>7. CASE o = 47
    <2>1. SingleTime(i, w) = ToRegister(i, 300, 450) + PcTime(i)
      BY <1>7 DEF SingleTime, o
    <2> QED  BY <1>1, <1>2, <2>1
  <1>8. CASE o \in {48, 50}
    <2>1. SingleTime(i, w) =
            ToRegister(i, 300, 1200) + PcTime(i) + (IF w % 2 = 1 THEN 150 ELSE 0)
      BY <1>8 DEF SingleTime, o
    <2> QED  BY <1>1, <1>2, <1>3, <2>1
  <1> QED  BY <1>4, <1>5, <1>6, <1>7, <1>8

LEMMA EisTimed ==
  ASSUME NEW i \in Instructions, Eis(i) \in {0, 1, 2, 3, 4, 7}
  PROVE  EisTime(i, 1, 1) # 0
  <1> DEFINE dst == Mode(Dst(i))
             e == Eis(i)
  <1>1. dst \in 0..7
    BY FieldsOf
  <1>2. SrcDstTime(dst) \in Nat /\ SrcDstTime(0) \in Nat /\ SrcDstTime(4) \in Nat
    BY <1>1, TimesOfModes
  <1>3. CASE e = 0
    BY <1>2, <1>3 DEF EisTime
  <1>4. CASE e = 1
    BY <1>4 DEF EisTime
  <1>5. CASE e \in {2, 3}
    <2>1. EisTime(i, 1, 1) = SrcDstTime(dst) + ToRegister(i, 750, 900) + 150 * (1 % 64)
      BY <1>5 DEF EisTime
    <2>2. ToRegister(i, 750, 900) \in {750, 900}
      BY DEF ToRegister
    <2> QED  BY <1>2, <2>1, <2>2
  <1>6. CASE e = 4
    <2> DEFINE time == timings_double_operand(300, 300, 1200, 0, e, dst, Reg(Dst(i)))
    <2>1. EisTime(i, 1, 1) = time + SrcDstTime(e) + SrcDstTime(dst)
      BY <1>6 DEF EisTime
    <2>2. time \in Nat /\ time > 0
      BY DEF timings_double_operand
    <2> HIDE DEF time
    <2> QED  BY <1>2, <1>6, <2>1, <2>2
  <1>7. CASE e = 7
    BY <1>7 DEF EisTime
  <1> QED  BY <1>3, <1>4, <1>5, <1>6, <1>7

LEMMA BranchTimed ==
  ASSUME NEW i, NEW taken \in BOOLEAN, taken, Branch(i) # NoName
  PROVE  BranchTime(i, taken) = 600
  BY DEF BranchTime

\* A word of the one operand group, and of what is beside it.
LEMMA WordTimed ==
  ASSUME NEW i \in Instructions, Operation(i) = 0, ~IsByte(i), Executed(i) # NoName,
         NEW taken \in BOOLEAN, taken, Group0Time(i, 1, taken) = 0
  PROVE  Executed(i) = "BPT"
  <1> DEFINE q == i \div 64
             o == Opcode(i)
             name == Executed(i)
             time == Group0Time(i, 1, taken)
  <1>1. q \in 0..63 /\ o = q /\ i \in 64 * q .. 64 * q + 63
    <2> HIDE DEF q
    <2> QED  BY GroupOf, FieldsOf DEF q
  <1>2. /\ Branch(i) # NoName => (q \in 4..31 \/ q \in 512..543)
        /\ Misc(i) # NoName => (i \in 0..7 \/ q = 2)
        /\ Call(i) # NoName => q \in 544..551
        /\ Jump(i) = (IF q = 1 THEN "JMP" ELSE IF q \in 32..39 THEN "JSR" ELSE NoName)
        /\ i = 3 => Misc(i) = "BPT"
    <2> HIDE DEF q
    <2> QED  BY OtherNames DEF q
  <1>3. ExecDouble(i) # NoName => o \in {3, 52, 55} \/ o \in 40..51 \/ o \in {53, 54}
    <2>1. ExecDouble(i) = ExecSingle(i)
      BY DEF ExecDouble
    <2> HIDE DEF o
    <2> QED  BY <2>1, SingleOf DEF o
  <1>4. Mode(Dst(i)) \in 0..7
    BY FieldsOf
  <1> DEFINE d == ExecDouble(i)
             b == Branch(i)
             m == Misc(i)
             c == Call(i)
             j == ExecJump(i)
  <1>5. name = IF d # NoName THEN d ELSE IF b # NoName THEN b ELSE IF m # NoName THEN m
               ELSE IF c # NoName THEN c ELSE j
    BY ExecutedIs
  <1>6. j # NoName => (q = 1 \/ q \in 32..39) /\ Mode(Dst(i)) # 0
    BY <1>2 DEF ExecJump
  <1>7. name # NoName /\ time = 0
    OBVIOUS
  <1> HIDE DEF q, o, name, d, b, m, c, j, time
  <1>8. CASE o = 0
    <2>1. time = MiscTime(i)
      BY ONLY <1>8 DEF Group0Time, o, time
    <2>2. d = NoName /\ b = NoName /\ j = NoName /\ c = NoName
      BY <1>1, <1>2, <1>3, <1>6, <1>8 DEF b, c, d
    <2>3. name = m /\ m # NoName
      BY <1>5, <1>7, <2>2
    <2>4. i \in 0..7
      BY <1>1, <1>2, <1>8, <2>3 DEF m
    <2>5. i = 3
      BY <1>7, <2>1, <2>4, MiscTimed
    <2> QED  BY <1>2, <2>3, <2>5 DEF m, name
  <1>9. CASE o = 1 \/ o \in 32..39
    <2>1. time = JmpTime(Mode(Dst(i)))
      BY ONLY <1>9 DEF Group0Time, o, time
    <2>2. Mode(Dst(i)) = 0
      BY <1>4, <1>7, <2>1, TimesOfModes
    <2>3. d = NoName /\ b = NoName /\ m = NoName /\ c = NoName /\ j = NoName
      BY <1>1, <1>2, <1>3, <1>6, <1>9, <2>2 DEF b, c, d, m
    <2> QED  BY <1>5, <1>7, <2>3
  <1>10. CASE o = 2
    BY ONLY <1>7, <1>10 DEF Group0Time, o, time
  <1>11. CASE o \in {3, 55}
    <2>1. time = ToRegister(i, 300, 1200) + PcTime(i)
      BY ONLY <1>11 DEF Group0Time, o, time
    <2>2. ToRegister(i, 300, 1200) \in {300, 1200} /\ PcTime(i) \in {0, 300}
      BY DEF ToRegister, PcTime
    <2> QED  BY <1>7, <2>1, <2>2
  <1>12. CASE o \in {52, 53}
    BY ONLY <1>7, <1>12 DEF Group0Time, o, time
  <1>13. CASE o = 54
    <2>1. time = MtpTime(Mode(Dst(i)))
      BY ONLY <1>13 DEF Group0Time, o, time
    <2> QED  BY <1>4, <1>7, <2>1, TimesOfModes
  <1>14. CASE o \in 40..51
    <2>1. time = SingleTime(i, 1)
      BY ONLY <1>14 DEF Group0Time, o, time
    <2> QED  BY <1>7, <1>14, <2>1, SingleTimed DEF o
  <1>15. CASE o \in 4..31 \/ o \in 56..63
    <2>1. time = BranchTime(i, taken)
      BY ONLY <1>15 DEF Group0Time, o, time
    <2>2. b = NoName
      <3>1. b # NoName => BranchTime(i, taken) = 600
        BY BranchTimed DEF b
      <3> QED  BY ONLY <1>7, <2>1, <3>1
    <2>3. d = NoName /\ j = NoName /\ c = NoName
      BY <1>1, <1>2, <1>3, <1>6, <1>15 DEF c, d
    <2>4. m = NoName
      BY <1>1, <1>2, <1>15 DEF m
    <2> QED  BY <1>5, <1>7, <2>2, <2>3, <2>4
  <1>16. o \in 0..63
    BY <1>1
  <1>17. \/ o = 0 \/ o = 1 \/ o \in 32..39 \/ o = 2 \/ o \in {3, 55} \/ o \in {52, 53}
         \/ o = 54 \/ o \in 40..51 \/ o \in 4..31 \/ o \in 56..63
    BY <1>16
  <1> QED
    BY <1>8, <1>9, <1>10, <1>11, <1>12, <1>13, <1>14, <1>15, <1>17

\* And of bytes.
LEMMA ByteTimed ==
  ASSUME NEW i \in Instructions, Operation(i) = 0, IsByte(i), Executed(i) # NoName,
         NEW taken \in BOOLEAN, taken, Group10Time(i, 1, taken) = 0
  PROVE  Executed(i) \in {"MTPS", "MFPS", "MFP", "MTP"}
  <1> DEFINE q == i \div 64
             o == Opcode(i)
             name == Executed(i)
             time == Group10Time(i, 1, taken)
  <1>1. q \in 512..575 /\ o = q - 512 /\ i \in 64 * q .. 64 * q + 63
    <2> HIDE DEF q
    <2> QED  BY GroupOf, FieldsOf DEF q
  <1>2. /\ Misc(i) # NoName => (i \in 0..7 \/ q = 2)
        /\ Call(i) # NoName => q \in 544..551
        /\ Jump(i) = (IF q = 1 THEN "JMP" ELSE IF q \in 32..39 THEN "JSR" ELSE NoName)
    <2> HIDE DEF q
    <2> QED  BY OtherNames DEF q
  <1> DEFINE d == ExecDouble(i)
             b == Branch(i)
             m == Misc(i)
             c == Call(i)
             j == ExecJump(i)
  <1>3. name = IF d # NoName THEN d ELSE IF b # NoName THEN b ELSE IF m # NoName THEN m
               ELSE IF c # NoName THEN c ELSE j
    BY ExecutedIs
  <1>4. d # NoName => \/ d \in {"MTPS", "MFPS", "MFP", "MTP"} \/ o \in 40..51
    <2>1. d = ExecSingle(i)
      BY DEF ExecDouble
    <2>2. ASSUME d # NoName  PROVE d \in {"MTPS", "MFPS", "MFP", "MTP"} \/ o \in 40..51
      <3>1. \/ o = 3 /\ ~IsByte(i) /\ d = "SWAB"
            \/ o = 52 /\ d = IF IsByte(i) THEN "MTPS" ELSE "MARK"
            \/ o = 55 /\ d = IF IsByte(i) THEN "MFPS" ELSE "SXT"
            \/ /\ o \in {40, 41, 42, 43, 44, 45, 46, 47, 48, 49, 50, 51, 53, 54}
               /\ (o = 53 => d = "MFP") /\ (o = 54 => d = "MTP")
        <4> HIDE DEF o, d
        <4> QED  BY <2>1, <2>2, SingleOf DEF o
      <3> HIDE DEF o, d
      <3> QED  BY <3>1
    <2> QED  BY <2>2
  <1>5. name # NoName /\ time = 0
    OBVIOUS
  <1> HIDE DEF q, o, name, d, b, m, c, j, time
  <1>6. b = NoName
    <2>1. b # NoName => time = BranchTime(i, taken)
      BY ONLY TRUE DEF Group10Time, b, time
    <2>2. b # NoName => BranchTime(i, taken) = 600
      BY BranchTimed DEF b
    <2> QED  BY ONLY <1>5, <2>1, <2>2
  <1>7. time = IF o \in 32..35 THEN 3300
                                 ELSE IF o \in 36..39 THEN 600 ELSE SingleTime(i, 1)
    BY ONLY <1>6 DEF Group10Time, o, b, time
  <1>8. o \notin 32..39 /\ o \notin 40..51
    <2>1. o \notin 32..39
      BY <1>5, <1>7
    <2>2. ASSUME o \in 40..51  PROVE FALSE
      BY <1>5, <1>7, <2>2, SingleTimed DEF o
    <2> QED  BY <2>1, <2>2
  <1>9. m = NoName /\ c = NoName /\ j = NoName
    BY <1>1, <1>2, <1>8 DEF m, c, j, ExecJump
  <1>10. name = d
    BY <1>3, <1>5, <1>6, <1>9
  <1> QED  BY <1>4, <1>5, <1>8, <1>10 DEF name

LEMMA HasTime ==
  ASSUME NEW i \in Instructions, Executed(i) # NoName,
         NEW taken \in BOOLEAN, taken, calc_instruction_duration(i, 1, 1, taken) = 0
  PROVE  NoTime(i, Executed(i))
  <1>1. Operation(i) \in 0..7
    BY GroupOf
  <1>2. CASE Operation(i) \in 1..6
    <2>1. calc_instruction_duration(i, 1, 1, taken) = DoubleTime(i)
      BY ONLY <1>2 DEF calc_instruction_duration
    <2> QED  BY <2>1, DoubleTimed
  <1>3. CASE Operation(i) = 7
    <2>1. ~IsByte(i) /\ Executed(i) = ExecDouble(i)
      BY <1>3, ExecutedIs, NoOtherName
    <2>2. calc_instruction_duration(i, 1, 1, taken) = EisTime(i, 1, 1)
      BY <1>3, <2>1 DEF calc_instruction_duration
    <2>3. ExecDouble(i) = Look(EisNames, Eis(i))
      BY <1>3, <2>1 DEF ExecDouble
    <2>4. Eis(i) \in {0, 1, 2, 3, 4, 7}
      BY <2>1, <2>3, EisNamed DEF Look
    <2> QED  BY <2>2, <2>4, EisTimed
  <1>4. CASE Operation(i) = 0 /\ ~IsByte(i)
    <2>1. calc_instruction_duration(i, 1, 1, taken) = Group0Time(i, 1, taken)
      BY <1>4 DEF calc_instruction_duration
    <2> QED  BY <1>4, <2>1, WordTimed DEF NoTime
  <1>5. CASE Operation(i) = 0 /\ IsByte(i)
    <2>1. calc_instruction_duration(i, 1, 1, taken) = Group10Time(i, 1, taken)
      BY <1>5 DEF calc_instruction_duration
    <2> QED  BY <1>5, <2>1, ByteTimed DEF NoTime
  <1>6. Operation(i) \in 1..6 \/ Operation(i) = 7 \/ Operation(i) = 0
    BY <1>1
  <1> QED  BY <1>2, <1>3, <1>4, <1>5, <1>6

LEMMA InstructionsAreShown ==
  ASSUME CheckNext
  PROVE  DecodersAgree'
  <1>1. CASE DecodeInstruction
    <2> DEFINE taken == TRUE
    <2>1. taken \in BOOLEAN /\ taken
      OBVIOUS
    <2>2. PICK i \in Instructions :
            last' = [unit |-> "decode", i |-> i, does |-> Executed(i), shows |-> Shown(i),
                     takes |-> ExecutedWords(i), lists |-> ShownWords(i),
                     time |-> calc_instruction_duration(i, 1, 1, taken)]
      BY <1>1 DEF DecodeInstruction, Answer
    <2> HIDE DEF taken
    <2>3. /\ last'.i = i /\ last'.does = Executed(i) /\ last'.shows = Shown(i)
          /\ last'.takes = ExecutedWords(i) /\ last'.lists = ShownWords(i)
          /\ last'.time = calc_instruction_duration(i, 1, 1, taken)
      BY <2>2
    <2> DEFINE time == calc_instruction_duration(i, 1, 1, taken)
    <2>4. Executed(i) # NoName /\ time = 0 => NoTime(i, Executed(i))
      BY <2>1, HasTime
    <2>5. last'.time = time
      BY <2>3
    <2> HIDE DEF time
    <2> QED  BY <2>3, <2>4, <2>5, SameNames, SameWords DEF DecodersAgree
  <1>2. CASE ~DecodeInstruction
    <2>1. last'.unit # "decode"
      BY <1>2, UnitTells
    <2> QED  BY <2>1 DEF DecodersAgree
  <1> QED  BY <1>1, <1>2

\* For every one of the 65536 instructions, and every small memory, addressing
\* mode and register: what the disassembler shows and the table of durations
\* knows is what the execution does and the operand it uses (cpu.cpp,
\* disassemble, addressing_to_string, calc_instruction_duration and peek_dst
\* against decode_instruction and getGAM).
THEOREM DebuggerShows == CheckSpec => []DebuggerShowsWhatRuns
  <1>1. CheckInit => DebuggerShowsWhatRuns
    BY DEF CheckInit, Idle, DebuggerShowsWhatRuns, DecodersAgree, OperandsAgree
  <1>2. DebuggerShowsWhatRuns /\ [CheckNext]_last => DebuggerShowsWhatRuns'
    <2>1. CASE CheckNext
      BY <2>1, InstructionsAreShown, OperandsAreShown DEF DebuggerShowsWhatRuns
    <2>2. CASE UNCHANGED last
      BY <2>2 DEF DebuggerShowsWhatRuns, DecodersAgree, OperandsAgree
    <2> QED  BY <2>1, <2>2
  <1> QED  BY <1>1, <1>2, PTL DEF CheckSpec

-----------------------------------------------------------------------------
(***************************************************************************)
(* The I/O page: who answers an address, and the program interrupt register.*)
(***************************************************************************)
\* The tables of the I/O page: the name that answers is that of an entry which
\* has the address, if any has it.
Named(table, a, byte, name) ==
  \E n \in DOMAIN table : Answers(table[n], a, byte) /\ table[n].name = name

LEMMA FirstIsNamed ==
  ASSUME NEW table, DOMAIN table \subseteq Nat, NEW a, NEW byte
  PROVE  \/ First(table, a, byte) = "none" /\ \A name : ~Named(table, a, byte, name)
         \/ Named(table, a, byte, First(table, a, byte))
  <1> DEFINE hits == {n \in DOMAIN table : Answers(table[n], a, byte)}
             least == CHOOSE n \in hits : \A k \in hits : n <= k
  <1>1. CASE hits = {}
    <2>1. First(table, a, byte) = "none"
      BY <1>1 DEF First
    <2> QED  BY <1>1, <2>1 DEF Named
  <1>2. CASE hits # {}
    <2>1. \E n \in hits : \A k \in hits : n <= k
      <3>1. hits \subseteq Nat
        OBVIOUS
      <3> HIDE DEF hits
      <3> QED  BY <1>2, <3>1, LeastOfNaturals
    <2>2. least \in hits
      <3> HIDE DEF hits
      <3> QED  BY <2>1
    <2>3. First(table, a, byte) = table[least].name
      BY <1>2 DEF First
    <2> HIDE DEF least
    <2> QED  BY <2>2, <2>3 DEF Named
  <1> QED  BY <1>1, <1>2

IsSeq(s) == \E S : s \in Seq(S)

LEMMA NamedInConcat ==
  ASSUME NEW s, NEW t, IsSeq(s), IsSeq(t), NEW a, NEW byte, NEW name
  PROVE  /\ IsSeq(s \o t)
         /\ Named(s \o t, a, byte, name) <=>
             Named(s, a, byte, name) \/ Named(t, a, byte, name)
  <1>0. PICK S, T : s \in Seq(S) /\ t \in Seq(T)
    BY DEF IsSeq
  <1> DEFINE R == S \cup T
  <1>10. s \in Seq(R) /\ t \in Seq(R)
    BY <1>0
  <1>11. IsSeq(s \o t)
    <2> HIDE DEF R
    <2> QED  BY <1>10 DEF IsSeq
  <1>1. /\ DOMAIN s = 1 .. Len(s) /\ DOMAIN t = 1 .. Len(t) /\ Len(s) \in Nat /\ Len(t) \in Nat
        /\ DOMAIN (s \o t) = 1 .. Len(s) + Len(t)
        /\ \A n \in 1 .. Len(s) + Len(t) :
             (s \o t)[n] = IF n <= Len(s) THEN s[n] ELSE t[n - Len(s)]
    <2> HIDE DEF R
    <2> QED  BY <1>10
  <1> DEFINE Hit(table, n) == Answers(table[n], a, byte) /\ table[n].name = name
             u == s \o t
  <1>2. ASSUME NEW n \in DOMAIN u, Hit(u, n)
        PROVE  (\E k \in DOMAIN s : Hit(s, k)) \/ (\E k \in DOMAIN t : Hit(t, k))
    <2>1. CASE n <= Len(s)
      <3>1. n \in DOMAIN s /\ u[n] = s[n]
        BY <1>1, <2>1
      <3> QED  BY <1>2, <3>1
    <2>2. CASE ~(n <= Len(s))
      <3>1. n - Len(s) \in DOMAIN t /\ u[n] = t[n - Len(s)]
        BY <1>1, <2>2
      <3> QED  BY <1>2, <3>1
    <2> QED  BY <2>1, <2>2
  <1>3. ASSUME NEW k \in DOMAIN s, Hit(s, k)
        PROVE  \E n \in DOMAIN u : Hit(u, n)
    <2>1. k \in DOMAIN u /\ u[k] = s[k]
      BY <1>1
    <2> QED  BY <1>3, <2>1
  <1>4. ASSUME NEW k \in DOMAIN t, Hit(t, k)
        PROVE  \E n \in DOMAIN u : Hit(u, n)
    <2> DEFINE n == Len(s) + k
    <2>1. n \in DOMAIN u /\ u[n] = t[k]
      BY <1>1
    <2> HIDE DEF n
    <2> QED  BY <1>4, <2>1
  <1> HIDE DEF u
  <1>5. Named(u, a, byte, name) <=> \E n \in DOMAIN u : Hit(u, n)
    BY DEF Named
  <1>6. Named(s, a, byte, name) <=> \E n \in DOMAIN s : Hit(s, n)
    BY DEF Named
  <1>7. Named(t, a, byte, name) <=> \E n \in DOMAIN t : Hit(t, n)
    BY DEF Named
  <1> HIDE DEF Hit
  <1> QED  BY <1>2, <1>3, <1>4, <1>5, <1>6, <1>7, <1>11 DEF u

LEMMA EntryIs ==
  ASSUME NEW name, NEW addresses, NEW sizes
  PROVE  /\ Entry(name, addresses, sizes).name = name
         /\ \A a, byte : Answers(Entry(name, addresses, sizes), a, byte)
                           <=> a \in addresses /\ byte \in sizes
  BY DEF Entry, Answers

LEMMA ReadFirstNames ==
  ASSUME NEW a, NEW byte \in BOOLEAN, NEW name
  PROVE  /\ IsSeq(<<Entry("cpu", CpuRegisters, Both), OddWords>>)
         /\ Named(<<Entry("cpu", CpuRegisters, Both), OddWords>>, a, byte, name) <=>
              \/ name = "cpu" /\ a \in CpuRegisters /\ byte \in Both
              \/ name = "odd" /\ a \in {b \in Page : b % 2 = 1} /\ byte \in Word
  <1> DEFINE t == <<Entry("cpu", CpuRegisters, Both), OddWords>>
             Hit(n) == Answers(t[n], a, byte) /\ t[n].name = name
             S == {t[1], t[2]}
  <1>1. DOMAIN t = 1..2
    OBVIOUS
  <1>2. Named(t, a, byte, name) <=> Hit(1) \/ Hit(2)
    <2>1. Named(t, a, byte, name) <=> \E n \in 1..2 : Hit(n)
      <3> HIDE DEF t
      <3> QED  BY <1>1 DEF Named
    <2> HIDE DEF Hit
    <2> QED  BY <2>1
  <1>3. Hit(1) <=> name = "cpu" /\ a \in CpuRegisters /\ byte \in Both
    BY EntryIs
  <1>4. Hit(2) <=> name = "odd" /\ a \in {b \in Page : b % 2 = 1} /\ byte \in Word
    BY EntryIs DEF OddWords
  <1>5. IsSeq(t)
    <2>1. t \in Seq(S)
      OBVIOUS
    <2> HIDE DEF S, t
    <2> QED  BY <2>1 DEF IsSeq
  <1> HIDE DEF Hit
  <1> QED  BY <1>5, <1>2, <1>3, <1>4

LEMMA ReadAnySizeNames ==
  ASSUME NEW a, NEW byte \in BOOLEAN, NEW name
  PROVE  /\ IsSeq(ReadAnySize)
         /\ Named(ReadAnySize, a, byte, name) <=>
              \/ name = "cpuerr" /\ a \in {ADDR_CPU_ERR} /\ byte \in Both
              \/ name = "maint" /\ a \in {ADDR_MAINT} /\ byte \in Both
              \/ name = "switches" /\ a \in {ADDR_CONSW} /\ byte \in Both
              \/ name = "pir" /\ a \in WithNext(ADDR_PIR) /\ byte \in Both
              \/ name = "sysid" /\ a \in {ADDR_SYSTEM_ID} /\ byte \in Both
              \/ name = "kw11" /\ a \in {ADDR_LFC} /\ byte \in Both
              \/ name = "lp11" /\ a \in {ADDR_LP11CSR} /\ byte \in Both
              \/ name = "pages" /\ a \in PageRegisters /\ byte \in Both
              \/ name = "cache" /\ a \in CacheControl /\ byte \in Both
              \/ name = "unibus" /\ a \in UnibusMap /\ byte \in Both
              \/ name = "parity" /\ a \in Parity /\ byte \in Both
  <1> DEFINE t == ReadAnySize
             Hit(n) == Answers(t[n], a, byte) /\ t[n].name = name
             S == {t[1], t[2], t[3], t[4], t[5], t[6], t[7], t[8], t[9], t[10], t[11]}
  <1>1. DOMAIN t = 1..11
    BY DEF ReadAnySize
  <1>2. Named(t, a, byte, name) <=> Hit(1) \/ Hit(2) \/ Hit(3) \/ Hit(4) \/ Hit(5)
                                    \/ Hit(6) \/ Hit(7) \/ Hit(8) \/ Hit(9) \/ Hit(10) \/ Hit(11)
    <2>1. Named(t, a, byte, name) <=> \E n \in 1..11 : Hit(n)
      <3> HIDE DEF t
      <3> QED  BY <1>1 DEF Named
    <2> HIDE DEF Hit
    <2> QED  BY <2>1
  <1>3. Hit(1) <=> name = "cpuerr" /\ a \in {ADDR_CPU_ERR} /\ byte \in Both
    BY EntryIs DEF ReadAnySize
  <1>4. Hit(2) <=> name = "maint" /\ a \in {ADDR_MAINT} /\ byte \in Both
    BY EntryIs DEF ReadAnySize
  <1>5. Hit(3) <=> name = "switches" /\ a \in {ADDR_CONSW} /\ byte \in Both
    BY EntryIs DEF ReadAnySize
  <1>6. Hit(4) <=> name = "pir" /\ a \in WithNext(ADDR_PIR) /\ byte \in Both
    BY EntryIs DEF ReadAnySize
  <1>7. Hit(5) <=> name = "sysid" /\ a \in {ADDR_SYSTEM_ID} /\ byte \in Both
    BY EntryIs DEF ReadAnySize
  <1>8. Hit(6) <=> name = "kw11" /\ a \in {ADDR_LFC} /\ byte \in Both
    BY EntryIs DEF ReadAnySize
  <1>9. Hit(7) <=> name = "lp11" /\ a \in {ADDR_LP11CSR} /\ byte \in Both
    BY EntryIs DEF ReadAnySize
  <1>10. Hit(8) <=> name = "pages" /\ a \in PageRegisters /\ byte \in Both
    BY EntryIs DEF ReadAnySize
  <1>11. Hit(9) <=> name = "cache" /\ a \in CacheControl /\ byte \in Both
    BY EntryIs DEF ReadAnySize
  <1>12. Hit(10) <=> name = "unibus" /\ a \in UnibusMap /\ byte \in Both
    BY EntryIs DEF ReadAnySize
  <1>13. Hit(11) <=> name = "parity" /\ a \in Parity /\ byte \in Both
    BY EntryIs DEF ReadAnySize
  <1>14. IsSeq(t)
    <2>1. t \in Seq(S)
      BY DEF ReadAnySize
    <2> HIDE DEF S, t
    <2> QED  BY <2>1 DEF IsSeq
  <1> HIDE DEF Hit
  <1> QED  BY <1>14, <1>2, <1>3, <1>4, <1>5, <1>6, <1>7, <1>8, <1>9, <1>10, <1>11, <1>12, <1>13

LEMMA ReadBySizeNames ==
  ASSUME NEW a, NEW byte \in BOOLEAN, NEW name
  PROVE  /\ IsSeq(ReadBySize)
         /\ Named(ReadBySize, a, byte, name) <=>
              \/ name = "psw" /\ a \in WithNext(ADDR_PSW) /\ byte \in Byte
              \/ name = "stacklim" /\ a \in WithNext(ADDR_STACKLIM) /\ byte \in Byte
              \/ name = "break" /\ a \in WithNext(ADDR_MICROPROG_BREAK_REG) /\ byte \in Byte
              \/ name = "mmr0" /\ a \in WithNext(ADDR_MMR0) /\ byte \in Byte
              \/ name = "mmr0" /\ a \in {ADDR_MMR0} /\ byte \in Word
              \/ name = "mmr1" /\ a \in {ADDR_MMR1} /\ byte \in Word
              \/ name = "mmr2" /\ a \in {ADDR_MMR2} /\ byte \in Word
              \/ name = "mmr3" /\ a \in {ADDR_MMR3} /\ byte \in Word
              \/ name = "psw" /\ a \in {ADDR_PSW} /\ byte \in Word
              \/ name = "stacklim" /\ a \in {ADDR_STACKLIM} /\ byte \in Word
              \/ name = "break" /\ a \in {ADDR_MICROPROG_BREAK_REG} /\ byte \in Word
  <1> DEFINE t == ReadBySize
             Hit(n) == Answers(t[n], a, byte) /\ t[n].name = name
             S == {t[1], t[2], t[3], t[4], t[5], t[6], t[7], t[8], t[9], t[10], t[11]}
  <1>1. DOMAIN t = 1..11
    BY DEF ReadBySize
  <1>2. Named(t, a, byte, name) <=> Hit(1) \/ Hit(2) \/ Hit(3) \/ Hit(4) \/ Hit(5)
                                    \/ Hit(6) \/ Hit(7) \/ Hit(8) \/ Hit(9) \/ Hit(10) \/ Hit(11)
    <2>1. Named(t, a, byte, name) <=> \E n \in 1..11 : Hit(n)
      <3> HIDE DEF t
      <3> QED  BY <1>1 DEF Named
    <2> HIDE DEF Hit
    <2> QED  BY <2>1
  <1>3. Hit(1) <=> name = "psw" /\ a \in WithNext(ADDR_PSW) /\ byte \in Byte
    BY EntryIs DEF ReadBySize
  <1>4. Hit(2) <=> name = "stacklim" /\ a \in WithNext(ADDR_STACKLIM) /\ byte \in Byte
    BY EntryIs DEF ReadBySize
  <1>5. Hit(3) <=> name = "break" /\ a \in WithNext(ADDR_MICROPROG_BREAK_REG) /\ byte \in Byte
    BY EntryIs DEF ReadBySize
  <1>6. Hit(4) <=> name = "mmr0" /\ a \in WithNext(ADDR_MMR0) /\ byte \in Byte
    BY EntryIs DEF ReadBySize
  <1>7. Hit(5) <=> name = "mmr0" /\ a \in {ADDR_MMR0} /\ byte \in Word
    BY EntryIs DEF ReadBySize
  <1>8. Hit(6) <=> name = "mmr1" /\ a \in {ADDR_MMR1} /\ byte \in Word
    BY EntryIs DEF ReadBySize
  <1>9. Hit(7) <=> name = "mmr2" /\ a \in {ADDR_MMR2} /\ byte \in Word
    BY EntryIs DEF ReadBySize
  <1>10. Hit(8) <=> name = "mmr3" /\ a \in {ADDR_MMR3} /\ byte \in Word
    BY EntryIs DEF ReadBySize
  <1>11. Hit(9) <=> name = "psw" /\ a \in {ADDR_PSW} /\ byte \in Word
    BY EntryIs DEF ReadBySize
  <1>12. Hit(10) <=> name = "stacklim" /\ a \in {ADDR_STACKLIM} /\ byte \in Word
    BY EntryIs DEF ReadBySize
  <1>13. Hit(11) <=> name = "break" /\ a \in {ADDR_MICROPROG_BREAK_REG} /\ byte \in Word
    BY EntryIs DEF ReadBySize
  <1>14. IsSeq(t)
    <2>1. t \in Seq(S)
      BY DEF ReadBySize
    <2> HIDE DEF S, t
    <2> QED  BY <2>1 DEF IsSeq
  <1> HIDE DEF Hit
  <1> QED  BY <1>14, <1>2, <1>3, <1>4, <1>5, <1>6, <1>7, <1>8, <1>9, <1>10, <1>11, <1>12, <1>13

LEMMA SystemSizeNames ==
  ASSUME NEW a, NEW byte \in BOOLEAN, NEW name
  PROVE  /\ IsSeq(<<SystemSize>>)
         /\ Named(<<SystemSize>>, a, byte, name) <=>
              \/ name = "syssize" /\ a \in {ADDR_SYSSIZE, ADDR_SYSSIZE + 2} /\ byte \in Both
  <1> DEFINE t == <<SystemSize>>
             Hit(n) == Answers(t[n], a, byte) /\ t[n].name = name
             S == {t[1]}
  <1>1. DOMAIN t = 1..1
    OBVIOUS
  <1>2. Named(t, a, byte, name) <=> Hit(1)
    <2>1. Named(t, a, byte, name) <=> \E n \in 1..1 : Hit(n)
      <3> HIDE DEF t
      <3> QED  BY <1>1 DEF Named
    <2> HIDE DEF Hit
    <2> QED  BY <2>1
  <1>3. Hit(1) <=> name = "syssize" /\ a \in {ADDR_SYSSIZE, ADDR_SYSSIZE + 2} /\ byte \in Both
    BY EntryIs DEF SystemSize
  <1>4. IsSeq(t)
    <2>1. t \in Seq(S)
      OBVIOUS
    <2> HIDE DEF S, t
    <2> QED  BY <2>1 DEF IsSeq
  <1> HIDE DEF Hit
  <1> QED  BY <1>4, <1>2, <1>3

LEMMA WriteBySizeNames ==
  ASSUME NEW a, NEW byte \in BOOLEAN, NEW name
  PROVE  /\ IsSeq(WriteBySize)
         /\ Named(WriteBySize, a, byte, name) <=>
              \/ name = "psw" /\ a \in WithNext(ADDR_PSW) /\ byte \in Byte
              \/ name = "stacklim" /\ a \in WithNext(ADDR_STACKLIM) /\ byte \in Byte
              \/ name = "break" /\ a \in WithNext(ADDR_MICROPROG_BREAK_REG) /\ byte \in Byte
              \/ name = "mmr0" /\ a \in WithNext(ADDR_MMR0) /\ byte \in Byte
              \/ name = "psw" /\ a \in {ADDR_PSW} /\ byte \in Word
              \/ name = "stacklim" /\ a \in {ADDR_STACKLIM} /\ byte \in Word
              \/ name = "cpu" /\ a \in CpuRegisters /\ byte \in Word
              \/ name = "break" /\ a \in {ADDR_MICROPROG_BREAK_REG} /\ byte \in Word
  <1> DEFINE t == WriteBySize
             Hit(n) == Answers(t[n], a, byte) /\ t[n].name = name
             S == {t[1], t[2], t[3], t[4], t[5], t[6], t[7], t[8]}
  <1>1. DOMAIN t = 1..8
    BY DEF WriteBySize
  <1>2. Named(t, a, byte, name) <=> Hit(1) \/ Hit(2) \/ Hit(3) \/ Hit(4) \/ Hit(5)
                                    \/ Hit(6) \/ Hit(7) \/ Hit(8)
    <2>1. Named(t, a, byte, name) <=> \E n \in 1..8 : Hit(n)
      <3> HIDE DEF t
      <3> QED  BY <1>1 DEF Named
    <2> HIDE DEF Hit
    <2> QED  BY <2>1
  <1>3. Hit(1) <=> name = "psw" /\ a \in WithNext(ADDR_PSW) /\ byte \in Byte
    BY EntryIs DEF WriteBySize
  <1>4. Hit(2) <=> name = "stacklim" /\ a \in WithNext(ADDR_STACKLIM) /\ byte \in Byte
    BY EntryIs DEF WriteBySize
  <1>5. Hit(3) <=> name = "break" /\ a \in WithNext(ADDR_MICROPROG_BREAK_REG) /\ byte \in Byte
    BY EntryIs DEF WriteBySize
  <1>6. Hit(4) <=> name = "mmr0" /\ a \in WithNext(ADDR_MMR0) /\ byte \in Byte
    BY EntryIs DEF WriteBySize
  <1>7. Hit(5) <=> name = "psw" /\ a \in {ADDR_PSW} /\ byte \in Word
    BY EntryIs DEF WriteBySize
  <1>8. Hit(6) <=> name = "stacklim" /\ a \in {ADDR_STACKLIM} /\ byte \in Word
    BY EntryIs DEF WriteBySize
  <1>9. Hit(7) <=> name = "cpu" /\ a \in CpuRegisters /\ byte \in Word
    BY EntryIs DEF WriteBySize
  <1>10. Hit(8) <=> name = "break" /\ a \in {ADDR_MICROPROG_BREAK_REG} /\ byte \in Word
    BY EntryIs DEF WriteBySize
  <1>11. IsSeq(t)
    <2>1. t \in Seq(S)
      BY DEF WriteBySize
    <2> HIDE DEF S, t
    <2> QED  BY <2>1 DEF IsSeq
  <1> HIDE DEF Hit
  <1> QED  BY <1>11, <1>2, <1>3, <1>4, <1>5, <1>6, <1>7, <1>8, <1>9, <1>10

LEMMA WriteAnySizeNames ==
  ASSUME NEW a, NEW byte \in BOOLEAN, NEW name
  PROVE  /\ IsSeq(WriteAnySize)
         /\ Named(WriteAnySize, a, byte, name) <=>
              \/ name = "cpuerr" /\ a \in {ADDR_CPU_ERR} /\ byte \in Both
              \/ name = "mmr3" /\ a \in {ADDR_MMR3} /\ byte \in Both
              \/ name = "mmr0" /\ a \in {ADDR_MMR0} /\ byte \in Both
              \/ name = "pir" /\ a \in {ADDR_PIR} /\ byte \in Both
              \/ name = "kw11" /\ a \in {ADDR_LFC} /\ byte \in Both
  <1> DEFINE t == WriteAnySize
             Hit(n) == Answers(t[n], a, byte) /\ t[n].name = name
             S == {t[1], t[2], t[3], t[4], t[5]}
  <1>1. DOMAIN t = 1..5
    BY DEF WriteAnySize
  <1>2. Named(t, a, byte, name) <=> Hit(1) \/ Hit(2) \/ Hit(3) \/ Hit(4) \/ Hit(5)
    <2>1. Named(t, a, byte, name) <=> \E n \in 1..5 : Hit(n)
      <3> HIDE DEF t
      <3> QED  BY <1>1 DEF Named
    <2> HIDE DEF Hit
    <2> QED  BY <2>1
  <1>3. Hit(1) <=> name = "cpuerr" /\ a \in {ADDR_CPU_ERR} /\ byte \in Both
    BY EntryIs DEF WriteAnySize
  <1>4. Hit(2) <=> name = "mmr3" /\ a \in {ADDR_MMR3} /\ byte \in Both
    BY EntryIs DEF WriteAnySize
  <1>5. Hit(3) <=> name = "mmr0" /\ a \in {ADDR_MMR0} /\ byte \in Both
    BY EntryIs DEF WriteAnySize
  <1>6. Hit(4) <=> name = "pir" /\ a \in {ADDR_PIR} /\ byte \in Both
    BY EntryIs DEF WriteAnySize
  <1>7. Hit(5) <=> name = "kw11" /\ a \in {ADDR_LFC} /\ byte \in Both
    BY EntryIs DEF WriteAnySize
  <1>8. IsSeq(t)
    <2>1. t \in Seq(S)
      BY DEF WriteAnySize
    <2> HIDE DEF S, t
    <2> QED  BY <2>1 DEF IsSeq
  <1> HIDE DEF Hit
  <1> QED  BY <1>8, <1>2, <1>3, <1>4, <1>5, <1>6, <1>7

LEMMA WriteLastNames ==
  ASSUME NEW a, NEW byte \in BOOLEAN, NEW name
  PROVE  /\ IsSeq(WriteLast)
         /\ Named(WriteLast, a, byte, name) <=>
              \/ name = "parity" /\ a \in Parity /\ byte \in Both
              \/ name = "pages" /\ a \in PageRegisters /\ byte \in Both
              \/ name = "cache" /\ a \in CacheControl /\ byte \in Both
              \/ name = "unibus" /\ a \in UnibusMap /\ byte \in Both
              \/ name = "switches" /\ a \in {ADDR_CONSW} /\ byte \in Both
              \/ name = "syssize" /\ a \in {ADDR_SYSSIZE, ADDR_SYSSIZE + 2} /\ byte \in Both
              \/ name = "sysid" /\ a \in {ADDR_SYSTEM_ID} /\ byte \in Both
              \/ name = "odd" /\ a \in {b \in Page : b % 2 = 1} /\ byte \in Word
  <1> DEFINE t == WriteLast
             Hit(n) == Answers(t[n], a, byte) /\ t[n].name = name
             S == {t[1], t[2], t[3], t[4], t[5], t[6], t[7], t[8]}
  <1>1. DOMAIN t = 1..8
    BY DEF WriteLast
  <1>2. Named(t, a, byte, name) <=> Hit(1) \/ Hit(2) \/ Hit(3) \/ Hit(4) \/ Hit(5)
                                    \/ Hit(6) \/ Hit(7) \/ Hit(8)
    <2>1. Named(t, a, byte, name) <=> \E n \in 1..8 : Hit(n)
      <3> HIDE DEF t
      <3> QED  BY <1>1 DEF Named
    <2> HIDE DEF Hit
    <2> QED  BY <2>1
  <1>3. Hit(1) <=> name = "parity" /\ a \in Parity /\ byte \in Both
    BY EntryIs DEF WriteLast
  <1>4. Hit(2) <=> name = "pages" /\ a \in PageRegisters /\ byte \in Both
    BY EntryIs DEF WriteLast
  <1>5. Hit(3) <=> name = "cache" /\ a \in CacheControl /\ byte \in Both
    BY EntryIs DEF WriteLast
  <1>6. Hit(4) <=> name = "unibus" /\ a \in UnibusMap /\ byte \in Both
    BY EntryIs DEF WriteLast
  <1>7. Hit(5) <=> name = "switches" /\ a \in {ADDR_CONSW} /\ byte \in Both
    BY EntryIs DEF WriteLast
  <1>8. Hit(6) <=> name = "syssize" /\ a \in {ADDR_SYSSIZE, ADDR_SYSSIZE + 2} /\ byte \in Both
    BY EntryIs DEF WriteLast, SystemSize
  <1>9. Hit(7) <=> name = "sysid" /\ a \in {ADDR_SYSTEM_ID} /\ byte \in Both
    BY EntryIs DEF WriteLast
  <1>10. Hit(8) <=> name = "odd" /\ a \in {b \in Page : b % 2 = 1} /\ byte \in Word
    BY EntryIs DEF WriteLast, OddWords
  <1>11. IsSeq(t)
    <2>1. t \in Seq(S)
      BY DEF WriteLast
    <2> HIDE DEF S, t
    <2> QED  BY <2>1 DEF IsSeq
  <1> HIDE DEF Hit
  <1> QED  BY <1>11, <1>2, <1>3, <1>4, <1>5, <1>6, <1>7, <1>8, <1>9, <1>10

\* The windows, in numbers.
LEMMA WindowIs ==
  ASSUME NEW name, NEW a
  PROVE  a \in Window(name) <=>
           /\ name \in Attached
           /\ \/ name = "tm11" /\ a \in 62800 .. 62811
              \/ name = "rk05" /\ a \in 65280 .. 65293
              \/ name = "rl02" /\ a \in 63744 .. 63751
              \/ name = "tty" /\ a \in 65392 .. 65399
              \/ name = "dc11" /\ a \in 63488 .. 63521
              \/ name = "dz11" /\ a \in 57408 .. 57415
              \/ name = "rp06" /\ a \in 64960 .. 65001
              \/ name = "deqna" /\ a \in 63776 .. 63791
  <1>1. DOMAIN Devices = {"tm11", "rk05", "rl02", "tty", "dc11", "dz11", "rp06", "deqna"}
    BY DEF Devices
  <1>2. /\ Devices["tm11"].base = 62800 /\ Devices["tm11"].end = 62812
        /\ Devices["rk05"].base = 65280 /\ Devices["rk05"].end = 65294
        /\ Devices["rl02"].base = 63744 /\ Devices["rl02"].end = 63752
        /\ Devices["tty"].base = 65392 /\ Devices["tty"].end = 65400
        /\ Devices["dc11"].base = 63488 /\ Devices["dc11"].end = 63522
        /\ Devices["dz11"].base = 57408 /\ Devices["dz11"].end = 57416
        /\ Devices["rp06"].base = 64960 /\ Devices["rp06"].end = 65002
        /\ Devices["deqna"].base = 63776 /\ Devices["deqna"].end = 63792
    BY DEF Devices
  <1>3. a \in Window(name) <=>
          name \in Attached /\ a \in Devices[name].base .. Devices[name].end - 1
    BY DEF Window
  <1>4. name \in Attached => name \in DOMAIN Devices
    BY AttachedAssumption
  <1> QED  BY <1>1, <1>2, <1>3, <1>4

LEMMA WindowNames ==
  ASSUME NEW a, NEW byte \in BOOLEAN, NEW name
  PROVE  IsSeq(Windows) /\ (Named(Windows, a, byte, name) <=> a \in Window(name))
  <1>1. DOMAIN DeviceOrder = 1..8 /\ Windows = [n \in 1..8 |-> Windows[n]]
        /\ \A n \in 1..8 : Windows[n] = Entry(DeviceOrder[n], Window(DeviceOrder[n]), Both)
    BY DEF DeviceOrder, Windows
  <1>2. IsSeq(Windows)
    <2> DEFINE S == {Windows[n] : n \in 1..8}
    <2>1. \A n \in 1..8 : Windows[n] \in S
      OBVIOUS
    <2>2. Windows \in Seq(S)
      <3> HIDE DEF S
      <3>1. Windows \in [1..8 -> S]
        BY <1>1, <2>1
      <3> QED  BY <1>1, <2>1, <3>1
    <2> HIDE DEF S
    <2> QED  BY <2>2 DEF IsSeq
  <1>3. \A n \in 1..8 : Answers(Windows[n], a, byte) /\ Windows[n].name = name
                          <=> a \in Window(name) /\ DeviceOrder[n] = name
    BY <1>1, EntryIs DEF Both
  <1>4. a \in Window(name) => \E n \in 1..8 : DeviceOrder[n] = name
    <2>1. DeviceOrder[1] = "tm11" /\ DeviceOrder[2] = "rk05" /\ DeviceOrder[3] = "rl02"
          /\ DeviceOrder[4] = "tty" /\ DeviceOrder[5] = "dc11" /\ DeviceOrder[6] = "dz11"
          /\ DeviceOrder[7] = "rp06" /\ DeviceOrder[8] = "deqna"
      BY DEF DeviceOrder
    <2> QED  BY <2>1, WindowIs
  <1>5. DOMAIN Windows = 1..8
    BY <1>1
  <1> QED  BY <1>2, <1>3, <1>4, <1>5 DEF Named

LEMMA ReadNames ==
  ASSUME NEW a, NEW byte \in BOOLEAN, NEW name
  PROVE  /\ IsSeq(ReadTable)
         /\ Named(ReadTable, a, byte, name) <=>
              \/ Named(<<Entry("cpu", CpuRegisters, Both), OddWords>>, a, byte, name)
              \/ Named(ReadAnySize, a, byte, name) \/ Named(ReadBySize, a, byte, name)
              \/ a \in Window(name) \/ Named(<<SystemSize>>, a, byte, name)
  <1> DEFINE t1 == <<Entry("cpu", CpuRegisters, Both), OddWords>>
             t2 == t1 \o ReadAnySize
             t3 == t2 \o ReadBySize
             t4 == t3 \o Windows
             t5 == <<SystemSize>>
  <1>1. IsSeq(t1) /\ IsSeq(ReadAnySize) /\ IsSeq(ReadBySize) /\ IsSeq(Windows) /\ IsSeq(t5)
    BY ReadFirstNames, ReadAnySizeNames, ReadBySizeNames, WindowNames, SystemSizeNames
  <1>2. IsSeq(t2) /\ (Named(t2, a, byte, name) <=>
          Named(t1, a, byte, name) \/ Named(ReadAnySize, a, byte, name))
    <2> HIDE DEF t1
    <2> QED  BY <1>1, NamedInConcat
  <1>3. IsSeq(t3) /\ (Named(t3, a, byte, name) <=>
          Named(t2, a, byte, name) \/ Named(ReadBySize, a, byte, name))
    <2> HIDE DEF t2
    <2> QED  BY <1>1, <1>2, NamedInConcat
  <1>4. IsSeq(t4) /\ (Named(t4, a, byte, name) <=>
          Named(t3, a, byte, name) \/ Named(Windows, a, byte, name))
    <2> HIDE DEF t3
    <2> QED  BY <1>1, <1>3, NamedInConcat
  <1>5. IsSeq(t4 \o t5) /\ (Named(t4 \o t5, a, byte, name) <=>
          Named(t4, a, byte, name) \/ Named(t5, a, byte, name))
    <2> HIDE DEF t4, t5
    <2> QED  BY <1>1, <1>4, NamedInConcat
  <1>6. ReadTable = t4 \o t5
    BY DEF ReadTable
  <1> HIDE DEF t1, t2, t3, t4, t5
  <1>7. IsSeq(ReadTable) /\ (Named(ReadTable, a, byte, name) <=>
          \/ Named(t1, a, byte, name) \/ Named(ReadAnySize, a, byte, name)
          \/ Named(ReadBySize, a, byte, name) \/ a \in Window(name) \/ Named(t5, a, byte, name))
    BY <1>2, <1>3, <1>4, <1>5, <1>6, WindowNames
  <1> QED  BY <1>7 DEF t1, t5

LEMMA WriteNames ==
  ASSUME NEW a, NEW byte \in BOOLEAN, NEW name
  PROVE  /\ IsSeq(WriteTable)
         /\ Named(WriteTable, a, byte, name) <=>
              \/ Named(WriteBySize, a, byte, name) \/ Named(WriteAnySize, a, byte, name)
              \/ a \in Window(name) \/ Named(WriteLast, a, byte, name)
  <1> DEFINE t2 == WriteBySize \o WriteAnySize
             t3 == t2 \o Windows
  <1>1. IsSeq(WriteBySize) /\ IsSeq(WriteAnySize) /\ IsSeq(WriteLast) /\ IsSeq(Windows)
    BY WriteBySizeNames, WriteAnySizeNames, WindowNames, WriteLastNames
  <1>2. IsSeq(t2) /\ (Named(t2, a, byte, name) <=>
          Named(WriteBySize, a, byte, name) \/ Named(WriteAnySize, a, byte, name))
    BY <1>1, NamedInConcat
  <1>3. IsSeq(t3) /\ (Named(t3, a, byte, name) <=>
          Named(t2, a, byte, name) \/ Named(Windows, a, byte, name))
    <2> HIDE DEF t2
    <2> QED  BY <1>1, <1>2, NamedInConcat
  <1>4. IsSeq(t3 \o WriteLast) /\ (Named(t3 \o WriteLast, a, byte, name) <=>
          Named(t3, a, byte, name) \/ Named(WriteLast, a, byte, name))
    <2> HIDE DEF t3
    <2> QED  BY <1>1, <1>3, NamedInConcat
  <1>5. WriteTable = t3 \o WriteLast
    BY DEF WriteTable
  <1> HIDE DEF t2, t3
  <1> QED  BY <1>2, <1>3, <1>4, <1>5, WindowNames

\* The even addresses that both tables have, and the name that answers.
Shared(a, name) ==
  \/ name = "psw" /\ a = 65534
  \/ name = "stacklim" /\ a = 65532
  \/ name = "pir" /\ a = 65530
  \/ name = "break" /\ a = 65528
  \/ name = "cpuerr" /\ a = 65526
  \/ name = "sysid" /\ a = 65524
  \/ name = "syssize" /\ a \in {65520, 65522}
  \/ name = "switches" /\ a = 65400
  \/ name = "kw11" /\ a = 65382
  \/ name = "mmr0" /\ a = 65402
  \/ name = "pages" /\ (a \in 62592 .. 62719 \/ a \in 65408 .. 65471)
  \/ name = "cache" /\ a \in 65504 .. 65515
  \/ name = "unibus" /\ a \in 61568 .. 61695
  \/ name = "parity" /\ a \in 62528 .. 62559
  \/ a \in Window(name)

OnlyRead(a, byte, name) ==
  \/ name = "maint" /\ a = 65512
  \/ name = "lp11" /\ a = 65356
  \/ ~byte /\ name = "mmr1" /\ a = 65404
  \/ ~byte /\ name = "mmr2" /\ a = 65406

Registers(a, name) == name = "cpu" /\ a \in 65472 .. 65487
Mmr3At(a, name) == name = "mmr3" /\ a = 62798

LEMMA RegisterSets ==
  ASSUME NEW a \in Int
  PROVE  /\ a \in CpuRegisters <=> a \in 65472 .. 65487
         /\ a \in PageRegisters <=> a \in 62592 .. 62719 \/ a \in 65408 .. 65471
         /\ a \in CacheControl <=> a \in 65504 .. 65515
         /\ a \in UnibusMap <=> a \in 61568 .. 61695
         /\ a \in Parity <=> a \in 62528 .. 62559
  BY DEF CpuRegisters, PageRegisters, CacheControl, UnibusMap, Parity

LEMMA RegisterNumbers ==
  ASSUME NEW a \in Int, a % 2 = 0, NEW byte \in BOOLEAN
  PROVE  /\ a \in {ADDR_PSW} <=> a = 65534
         /\ a \in {ADDR_STACKLIM} <=> a = 65532
         /\ a \in {ADDR_PIR} <=> a = 65530
         /\ a \in {ADDR_MICROPROG_BREAK_REG} <=> a = 65528
         /\ a \in {ADDR_CPU_ERR} <=> a = 65526
         /\ a \in {ADDR_SYSTEM_ID} <=> a = 65524
         /\ a \in {ADDR_SYSSIZE, ADDR_SYSSIZE + 2} <=> a \in {65520, 65522}
         /\ a \in {ADDR_MAINT} <=> a = 65512
         /\ a \in {ADDR_CONSW} <=> a = 65400
         /\ a \in {ADDR_LFC} <=> a = 65382
         /\ a \in {ADDR_LP11CSR} <=> a = 65356
         /\ a \in {ADDR_MMR0} <=> a = 65402
         /\ a \in {ADDR_MMR1} <=> a = 65404
         /\ a \in {ADDR_MMR2} <=> a = 65406
         /\ a \in {ADDR_MMR3} <=> a = 62798
         /\ a \in WithNext(ADDR_PSW) <=> a = 65534
         /\ a \in WithNext(ADDR_STACKLIM) <=> a = 65532
         /\ a \in WithNext(ADDR_PIR) <=> a = 65530
         /\ a \in WithNext(ADDR_MICROPROG_BREAK_REG) <=> a = 65528
         /\ a \in WithNext(ADDR_MMR0) <=> a = 65402
         /\ a \notin {b \in Page : b % 2 = 1}
         /\ byte \in Both /\ (byte \in Byte <=> byte) /\ (byte \in Word <=> ~byte)
  <1>1. /\ ADDR_PSW = 65534 /\ ADDR_STACKLIM = 65532 /\ ADDR_PIR = 65530
        /\ ADDR_MICROPROG_BREAK_REG = 65528 /\ ADDR_CPU_ERR = 65526 /\ ADDR_SYSTEM_ID = 65524
        /\ ADDR_SYSSIZE = 65520 /\ ADDR_MAINT = 65512 /\ ADDR_CONSW = 65400
        /\ ADDR_LFC = 65382 /\ ADDR_LP11CSR = 65356 /\ ADDR_MMR0 = 65402 /\ ADDR_MMR1 = 65404
        /\ ADDR_MMR2 = 65406 /\ ADDR_MMR3 = 62798
    BY DEF ADDR_PSW, ADDR_STACKLIM, ADDR_PIR, ADDR_MICROPROG_BREAK_REG, ADDR_CPU_ERR,
           ADDR_SYSTEM_ID, ADDR_SYSSIZE, ADDR_MAINT, ADDR_CONSW, ADDR_LFC, ADDR_LP11CSR,
           ADDR_MMR0, ADDR_MMR1, ADDR_MMR2, ADDR_MMR3
  <1>2. \A b \in Int : b % 2 = 0 => (a \in WithNext(b) <=> a = b)
    BY DEF WithNext
  <1>3. /\ a \in WithNext(ADDR_PSW) <=> a = 65534
        /\ a \in WithNext(ADDR_STACKLIM) <=> a = 65532
        /\ a \in WithNext(ADDR_PIR) <=> a = 65530
        /\ a \in WithNext(ADDR_MICROPROG_BREAK_REG) <=> a = 65528
        /\ a \in WithNext(ADDR_MMR0) <=> a = 65402
    BY <1>1, <1>2
  <1>4. /\ a \notin {b \in Page : b % 2 = 1}
        /\ byte \in Both /\ (byte \in Byte <=> byte) /\ (byte \in Word <=> ~byte)
    <2>1. a \notin {b \in Page : b % 2 = 1}
      OBVIOUS
    <2>2. byte \in Both /\ (byte \in Byte <=> byte) /\ (byte \in Word <=> ~byte)
      BY Zenon DEF Both, Byte, Word
    <2> QED  BY <2>1, <2>2
  <1> QED  BY <1>1, <1>3, <1>4

LEMMA ReadAtEven ==
  ASSUME NEW a \in Int, a % 2 = 0, NEW byte \in BOOLEAN, NEW name
  PROVE  Named(ReadTable, a, byte, name) <=>
           Shared(a, name) \/ OnlyRead(a, byte, name) \/ Registers(a, name)
           \/ (~byte /\ Mmr3At(a, name))
  <1>1. Named(<<Entry("cpu", CpuRegisters, Both), OddWords>>, a, byte, name) <=> Registers(a, name)
    BY ReadFirstNames, RegisterSets, RegisterNumbers DEF Registers
  <1>2. Named(<<SystemSize>>, a, byte, name) <=> name = "syssize" /\ a \in {65520, 65522}
    BY SystemSizeNames, RegisterNumbers
  <1>3. Named(ReadAnySize, a, byte, name) <=>
              \/ name = "cpuerr" /\ a = 65526
              \/ name = "maint" /\ a = 65512
              \/ name = "switches" /\ a = 65400
              \/ name = "pir" /\ a = 65530
              \/ name = "sysid" /\ a = 65524
              \/ name = "kw11" /\ a = 65382
              \/ name = "lp11" /\ a = 65356
              \/ name = "pages" /\ (a \in 62592 .. 62719 \/ a \in 65408 .. 65471)
              \/ name = "cache" /\ a \in 65504 .. 65515
              \/ name = "unibus" /\ a \in 61568 .. 61695
              \/ name = "parity" /\ a \in 62528 .. 62559
    BY ReadAnySizeNames, RegisterNumbers, RegisterSets
  <1>4. Named(ReadBySize, a, byte, name) <=>
              \/ name = "psw" /\ a = 65534
              \/ name = "stacklim" /\ a = 65532
              \/ name = "break" /\ a = 65528
              \/ name = "mmr0" /\ a = 65402
              \/ ~byte /\ name = "mmr1" /\ a = 65404
              \/ ~byte /\ name = "mmr2" /\ a = 65406
              \/ ~byte /\ Mmr3At(a, name)
    BY ReadBySizeNames, RegisterNumbers DEF Mmr3At
  <1> QED
    BY <1>1, <1>2, <1>3, <1>4, ReadNames DEF Shared, OnlyRead

LEMMA WrittenAtEven ==
  ASSUME NEW a \in Int, a % 2 = 0, NEW byte \in BOOLEAN, NEW name
  PROVE  Named(WriteTable, a, byte, name) <=>
           Shared(a, name) \/ (~byte /\ Registers(a, name)) \/ Mmr3At(a, name)
  <1>1. Named(WriteBySize, a, byte, name) <=>
              \/ name = "psw" /\ a = 65534
              \/ name = "stacklim" /\ a = 65532
              \/ byte /\ name = "mmr0" /\ a = 65402
              \/ ~byte /\ Registers(a, name)
              \/ name = "break" /\ a = 65528
    BY WriteBySizeNames, RegisterNumbers, RegisterSets DEF Registers
  <1>2. Named(WriteAnySize, a, byte, name) <=>
              \/ name = "cpuerr" /\ a = 65526
              \/ Mmr3At(a, name)
              \/ name = "mmr0" /\ a = 65402
              \/ name = "pir" /\ a = 65530
              \/ name = "kw11" /\ a = 65382
    BY WriteAnySizeNames, RegisterNumbers DEF Mmr3At
  <1>3. Named(WriteLast, a, byte, name) <=>
              \/ name = "parity" /\ a \in 62528 .. 62559
              \/ name = "pages" /\ (a \in 62592 .. 62719 \/ a \in 65408 .. 65471)
              \/ name = "cache" /\ a \in 65504 .. 65515
              \/ name = "unibus" /\ a \in 61568 .. 61695
              \/ name = "switches" /\ a = 65400
              \/ name = "syssize" /\ a \in {65520, 65522}
              \/ name = "sysid" /\ a = 65524
    BY WriteLastNames, RegisterNumbers, RegisterSets
  <1> QED
    BY <1>1, <1>2, <1>3, WriteNames DEF Shared

\* At an even address one name answers; only the maintenance register hides
\* another, the cache's.
LEMMA OneName ==
  ASSUME NEW a \in Int, NEW x, NEW y, NEW byte,
         Shared(a, x) \/ OnlyRead(a, byte, x) \/ Registers(a, x) \/ Mmr3At(a, x),
         Shared(a, y) \/ Registers(a, y) \/ Mmr3At(a, y),
         x # "maint"
  PROVE  x = y
  <1>1. \A name : a \in Window(name) <=>
           /\ name \in Attached
           /\ \/ name = "tm11" /\ a \in 62800 .. 62811
              \/ name = "rk05" /\ a \in 65280 .. 65293
              \/ name = "rl02" /\ a \in 63744 .. 63751
              \/ name = "tty" /\ a \in 65392 .. 65399
              \/ name = "dc11" /\ a \in 63488 .. 63521
              \/ name = "dz11" /\ a \in 57408 .. 57415
              \/ name = "rp06" /\ a \in 64960 .. 65001
              \/ name = "deqna" /\ a \in 63776 .. 63791
    BY WindowIs
  <1>2. CASE a < 63488
    BY <1>1, <1>2 DEF Shared, OnlyRead, Registers, Mmr3At
  <1>3. CASE a >= 63488 /\ a < 65400
    BY <1>1, <1>3 DEF Shared, OnlyRead, Registers, Mmr3At
  <1>4. CASE a >= 65400
    BY <1>1, <1>4 DEF Shared, OnlyRead, Registers, Mmr3At
  <1> QED  BY <1>2, <1>3, <1>4

\* The registers in each window: the DC11 has none for the last word.
LEMMA WindowHasRegisters ==
  ASSUME NEW d, NEW a, a \in Window(d)
  PROVE  RegisterOf(d, a) < Devices[d].registers <=> a \notin NoRegister
  <1>1. /\ Devices["tm11"].base = 62800 /\ Devices["tm11"].registers = 6
        /\ Devices["rk05"].base = 65280 /\ Devices["rk05"].registers = 7
        /\ Devices["rl02"].base = 63744 /\ Devices["rl02"].registers = 4
        /\ Devices["tty"].base = 65392 /\ Devices["tty"].registers = 4
        /\ Devices["dc11"].base = 63488 /\ Devices["dc11"].registers = 16
        /\ Devices["dc11"].end = 63522
        /\ Devices["dz11"].base = 57408 /\ Devices["dz11"].registers = 6
        /\ Devices["rp06"].base = 64960 /\ Devices["rp06"].registers = 32
        /\ Devices["deqna"].base = 63776 /\ Devices["deqna"].registers = 8
    BY DEF Devices
  <1>2. NoRegister = 63520 .. 63521
    BY <1>1 DEF NoRegister
  <1>3. \/ d = "tm11" /\ a \in 62800 .. 62811
        \/ d = "rk05" /\ a \in 65280 .. 65293
        \/ d = "rl02" /\ a \in 63744 .. 63751
        \/ d = "tty" /\ a \in 65392 .. 65399
        \/ d = "dc11" /\ a \in 63488 .. 63521
        \/ d = "dz11" /\ a \in 57408 .. 57415
        \/ d = "rp06" /\ a \in 64960 .. 65001
        \/ d = "deqna" /\ a \in 63776 .. 63791
    BY WindowIs
  <1> QED  BY <1>1, <1>2, <1>3 DEF RegisterOf

LEMMA IoPageAgrees ==
  ASSUME NEW a \in Page, a % 2 = 0, NEW byte \in BOOLEAN
  PROVE  /\ ~OneWay(a, byte) => read_IO(a, byte) = write_IO(a, byte)
         /\ \A d \in Attached : a \in Window(d) =>
              read_IO(a, byte) = d /\ (RegisterOf(d, a) < Devices[d].registers <=> a \notin NoRegister)
  <1> DEFINE r == read_IO(a, byte)
             w == write_IO(a, byte)
             R(name) == Named(ReadTable, a, byte, name)
             W(name) == Named(WriteTable, a, byte, name)
  <1>1. a \in Int
    BY DEF Page
  <1>2. (r = "none" /\ \A name : ~R(name)) \/ R(r)
    <2>1. DOMAIN ReadTable \subseteq Nat
      BY ReadNames DEF IsSeq
    <2> QED  BY <2>1, FirstIsNamed DEF read_IO
  <1>3. (w = "none" /\ \A name : ~W(name)) \/ W(w)
    <2>1. DOMAIN WriteTable \subseteq Nat
      BY WriteNames DEF IsSeq
    <2> QED  BY <2>1, FirstIsNamed DEF write_IO
  <1>4. \A name : R(name) <=> \/ Shared(a, name) \/ OnlyRead(a, byte, name) \/ Registers(a, name)
                              \/ (~byte /\ Mmr3At(a, name))
    BY <1>1, ReadAtEven
  <1>5. \A name : W(name) <=> Shared(a, name) \/ (~byte /\ Registers(a, name)) \/ Mmr3At(a, name)
    BY <1>1, WrittenAtEven
  <1> HIDE DEF r, w, R, W
  <1>6. ASSUME ~OneWay(a, byte)  PROVE r = w
    <2>1. r \notin {"maint", "lp11", "mmr1", "mmr2"} /\ ~(byte /\ (r = "cpu" \/ w = "mmr3"))
      BY <1>6 DEF OneWay, r, w
    <2>2. R(r) => W(r)
      BY <1>4, <1>5, <2>1 DEF OnlyRead, Registers
    <2>3. W(w) => R(w)
      BY <1>4, <1>5, <2>1 DEF Mmr3At
    <2>4. R(r) /\ W(w) => r = w
      <3>1. R(r) => Shared(a, r) \/ OnlyRead(a, byte, r) \/ Registers(a, r) \/ Mmr3At(a, r)
        BY <1>4
      <3>2. W(w) => Shared(a, w) \/ Registers(a, w) \/ Mmr3At(a, w)
        BY <1>5
      <3> QED  BY <1>1, <2>1, <3>1, <3>2, OneName
    <2> QED  BY <1>2, <1>3, <2>2, <2>3, <2>4
  <1>7. ASSUME NEW d \in Attached, a \in Window(d)
        PROVE  r = d /\ (RegisterOf(d, a) < Devices[d].registers <=> a \notin NoRegister)
    <2>1. Shared(a, d)
      BY <1>7 DEF Shared
    <2>2. R(r)
      BY <1>2, <1>4, <2>1
    <2>3. Shared(a, r) \/ OnlyRead(a, byte, r) \/ Registers(a, r) \/ Mmr3At(a, r)
      BY <1>4, <2>2
    <2>4. r # "maint"
      <3>1. d \in Attached /\ a # 65512 /\ ~(a \in 65512 .. 65512)
        BY <1>1, <1>7, WindowIs
      <3>2. ~Shared(a, "maint")
        BY WindowIs DEF Shared
      <3>3. ~Registers(a, "maint") /\ ~Mmr3At(a, "maint") /\ ~OnlyRead(a, byte, "maint")
        BY <3>1 DEF Registers, Mmr3At, OnlyRead
      <3> QED  BY <2>3, <3>2, <3>3
    <2>5. r = d
      BY <1>1, <2>1, <2>3, <2>4, OneName
    <2> QED  BY <1>7, <2>5, WindowHasRegisters
  <1> QED  BY <1>6, <1>7 DEF r, w

\* The highest of the requests in PIR.
LEMMA PirEncodesHighest ==
  ASSUME NEW n \in 0..127
  PROVE  PirCorrect([unit |-> "pir", value |-> 512 * n, r |-> WritePir(512 * n)])
  <1> DEFINE value == 512 * n
             r == WritePir(value)
             set == {k \in 1..7 : BitOf(value, k + 8) = 1}
             top == CHOOSE k \in set : \A j \in set : j <= k
             highest == IF set = {} THEN 0 ELSE top
             t == [unit |-> "pir", value |-> value, r |-> r]
  <1>1. Requests(value) = n
    BY DEF Requests
  <1>2. \A k \in 0..7 : 2 ^ k = Power(k)
    BY DEF Power
  <1>3. \A k \in 1..7 : BitOf(value, k + 8) = (n \div Power(k - 1)) % 2
    <2> SUFFICES ASSUME NEW k \in 1..7
      PROVE (value \div Power(k + 8)) % 2 = (n \div Power(k - 1)) % 2
      BY DEF BitOf, Power
    <2>1. Power(k + 8) = 512 * Power(k - 1) /\ Power(k - 1) \in Nat \ {0}
      BY Powers
    <2> DEFINE p == Power(k - 1)
    <2>2. (512 * n) \div 512 = n
      OBVIOUS
    <2>3. ((512 * n) \div 512) \div p = (512 * n) \div (512 * p)
      <3>1. p \in Int /\ p > 0 /\ 512 \in Int /\ 512 > 0 /\ 512 * n \in Int
        BY <2>1
      <3> DEFINE m == 512 * n
      <3> HIDE DEF p, m
      <3> QED  BY ONLY <3>1, DivDiv DEF m
    <2> QED  BY <2>1, <2>2, <2>3
  <1>4. \E k \in 0..7 : /\ Rounds(value) = k /\ highest = k
    <2> DEFINE Between(k) == n \div Power(k) = 0 /\ (k = 0 \/ n \div Power(k - 1) # 0)
    <2>1. PICK k \in 0..7 : /\ Between(k) /\ \A j \in 0..7 : Between(j) => j = k
                            /\ k > 0 => (n \div Power(k - 1)) % 2 = 1
                            /\ \A j \in 1..7 : j > k => (n \div Power(j - 1)) % 2 = 0
      <3>1. CASE n = 0            BY <3>1, Powers
      <3>2. CASE n = 1            BY <3>2, Powers
      <3>3. CASE n \in 2..3       BY <3>3, Powers
      <3>4. CASE n \in 4..7       BY <3>4, Powers
      <3>5. CASE n \in 8..15      BY <3>5, Powers
      <3>6. CASE n \in 16..31     BY <3>6, Powers
      <3>7. CASE n \in 32..63     BY <3>7, Powers
      <3>8. CASE n \in 64..127    BY <3>8, Powers
      <3> QED  BY <3>1, <3>2, <3>3, <3>4, <3>5, <3>6, <3>7, <3>8
    <2>2. Rounds(value) \in 0..7 /\ Between(Rounds(value))
      <3> DEFINE Ends(j) == Requests(value) \div 2 ^ j = 0
                            /\ (j = 0 \/ Requests(value) \div 2 ^ (j - 1) # 0)
      <3>1. \A j \in 0..7 : Ends(j) <=> Between(j)
        BY <1>1 DEF Power
      <3>2. Rounds(value) = CHOOSE j \in 0..7 : Ends(j)
        BY DEF Rounds
      <3> HIDE DEF Ends, Between
      <3> QED  BY <2>1, <3>1, <3>2
    <2>3. Rounds(value) = k
      <3> HIDE DEF Between
      <3> QED  BY <2>1, <2>2
    <2>4. set = {j \in 1..7 : (n \div Power(j - 1)) % 2 = 1}
      BY <1>3
    <2>5. highest = k
      <3>1. CASE k = 0
        <4>1. set = {}
          <5> HIDE DEF set
          <5> QED  BY <2>1, <2>4, <3>1
        <4> QED  BY <3>1, <4>1
      <3>2. CASE k > 0
        <4>1. k \in set /\ \A j \in set : j \in 1..7 /\ j <= k
          <5> HIDE DEF set
          <5> QED  BY <2>1, <2>4, <3>2
        <4>2. top \in set /\ \A j \in set : j <= top
          <5> HIDE DEF set
          <5> QED  BY <4>1
        <4>3. set # {} /\ top = k
          <5> HIDE DEF set, top
          <5> QED  BY <4>1, <4>2
        <4> HIDE DEF set, top
        <4> QED  BY <4>3
      <3> QED  BY <3>1, <3>2
    <2> QED  BY <2>3, <2>5
  <1> HIDE DEF highest, set
  <1>5. PICK m \in 0..7 : Rounds(value) = m /\ highest = m
    BY <1>4
  <1>6. r = 512 * n + 34 * m
    BY <1>1, <1>5 DEF WritePir
  <1>7. r \div 512 = value \div 512 /\ (r \div 2) % 8 = m /\ (r \div 32) % 8 = m
    <2>1. r \div 512 = n /\ r \div 2 = 8 * (32 * n + 2 * m) + m
          /\ r \div 32 = 8 * (2 * n) + m
      BY <1>6
    <2> QED  BY <2>1
  <1>8. t.value = value /\ t.r = r
    OBVIOUS
  <1>9. /\ t.r \div 512 = t.value \div 512
        /\ (t.r \div 2) % 8 = highest /\ (t.r \div 32) % 8 = highest
    <2> HIDE DEF t
    <2> QED  BY <1>5, <1>7, <1>8
  <1>10. highest = LET others == {k \in 1..7 : BitOf(t.value, k + 8) = 1}
                   IN  IF others = {} THEN 0 ELSE CHOOSE k \in others : \A j \in others : j <= k
    BY DEF highest, set
  <1> HIDE DEF t
  <1>11. PirCorrect(t)
    BY <1>9, <1>10 DEF PirCorrect
  <1> QED  BY <1>11 DEF t

\* Whatever devices are attached: read and write answer an even address the
\* same way, a device has a register for each word of its window but for the 17th
\* of the DC11, and PIR tells the highest request.
THEOREM IoPageIsConsistent == CheckSpec => []IoPageConsistent
  <1>1. CheckInit => IoPageConsistent
    BY DEF CheckInit, Idle, IoPageConsistent
  <1>2. ASSUME CheckNext  PROVE IoPageConsistent'
    <2>1. CASE AccessIo
      <3>1. PICK a \in Page, byte \in BOOLEAN :
              last' = [unit |-> "io", a |-> a, byte |-> byte, reads |-> read_IO(a, byte),
                       writes |-> write_IO(a, byte)]
        BY <2>1 DEF AccessIo, Answer
      <3>2. /\ last'.unit = "io" /\ last'.a = a /\ last'.byte = byte
            /\ last'.reads = read_IO(a, byte) /\ last'.writes = write_IO(a, byte)
        BY <3>1
      <3>3. IoCorrect(last')
        BY <3>2, IoPageAgrees DEF IoCorrect
      <3> QED  BY <3>2, <3>3 DEF IoPageConsistent
    <2>2. CASE RequestProgramInterrupt
      <3>1. PICK n \in 0..127 :
              last' = [unit |-> "pir", value |-> 512 * n, r |-> WritePir(512 * n)]
        BY <2>2 DEF RequestProgramInterrupt, Answer
      <3>2. PirCorrect(last')
        BY <3>1, PirEncodesHighest
      <3>3. last'.unit = "pir"
        BY <3>1
      <3> QED  BY <3>2, <3>3 DEF IoPageConsistent
    <2>3. CASE ~AccessIo /\ ~RequestProgramInterrupt
      <3>1. last'.unit # "io" /\ last'.unit # "pir"
        BY <1>2, <2>3, UnitTells
      <3> QED  BY <3>1 DEF IoPageConsistent
    <2> QED  BY <2>1, <2>2, <2>3
  <1>3. IoPageConsistent /\ [CheckNext]_last => IoPageConsistent'
    <2>1. CASE UNCHANGED last
      BY <2>1 DEF IoPageConsistent
    <2> QED  BY <1>2, <2>1
  <1> QED  BY <1>1, <1>3, PTL DEF CheckSpec

(***************************************************************************)
(* Snapshots.                                                              *)
(***************************************************************************)

\* A machine that main() made, whatever its registers and its memory hold.
IsCpu(c) ==
  /\ c = [mmu_object |-> c.mmu_object, register |-> c.register, sp |-> c.sp, state |-> c.state,
       delayed_trap |-> c.delayed_trap, queued_interrupts |-> c.queued_interrupts,
       any_queued_interrupts |-> c.any_queued_interrupts]
  /\ c.mmu_object = 0
IsTty(t) == t = [registers |-> t.registers, waiting |-> t.waiting]
IsClock(k) == k = [lf_csr |-> k.lf_csr, wall_clock |-> k.wall_clock]
IsDisk(d) == d = [registers |-> d.registers, position |-> d.position, backends |-> d.backends]
LineKinds == {"tcp-server", "tcp-client", "posix", "pst", "none"}
IsMux(d) ==
  /\ d = [registers |-> d.registers, channels |-> d.channels]
  /\ d.channels \in [1..2 -> LineKinds]
IsMachine(m) ==
  /\ m = [machine |-> "made", memory |-> m.memory, cpu |-> m.cpu, mmu |-> m.mmu,
          mmu_object |-> m.mmu_object, tty |-> m.tty, kw11 |-> m.kw11, rl02 |-> m.rl02,
          rk05 |-> m.rk05, rp06 |-> m.rp06, dz11 |-> m.dz11, dc11 |-> m.dc11,
          tm11 |-> m.tm11, console_switches |-> m.console_switches]
  /\ IsCpu(m.cpu) /\ IsTty(m.tty) /\ IsClock(m.kw11)
  /\ IsDisk(m.rl02) /\ IsDisk(m.rk05) /\ IsMux(m.dz11)

LEMMA CpuBack ==
  ASSUME NEW c, IsCpu(c)
  PROVE  Snap!deserialize_cpu(Snap!serialize_cpu(c), 0) = [c EXCEPT !.queued_interrupts = {}]
  <1> DEFINE j == Snap!serialize_cpu(c)
             back == Snap!deserialize_cpu(j, 0)
             kept == [c EXCEPT !.queued_interrupts = {}]
             Only == [mmu_object : {0}, register : {c.register}, sp : {c.sp}, state : {c.state},
                      delayed_trap : {c.delayed_trap}, queued_interrupts : {{}},
                      any_queued_interrupts : {c.any_queued_interrupts}]
  <1>1. /\ j.register = c.register /\ j.sp = c.sp /\ j.state = c.state
        /\ j.delayed_trap = c.delayed_trap /\ j.queued_interrupts = "null"
        /\ j.any_queued_interrupts = c.any_queued_interrupts
    BY DEF Snap!serialize_cpu
  <1> HIDE DEF j
  <1>2. back \in Only
    BY <1>1 DEF Snap!deserialize_cpu, Snap!NewCpu
  <1>3. kept \in Only
    BY DEF IsCpu
  <1> HIDE DEF back, kept
  <1>4. back = kept
    BY <1>2, <1>3
  <1> QED  BY <1>4 DEF j, back, kept

LEMMA TtyBack ==
  ASSUME NEW t, IsTty(t)
  PROVE  Snap!deserialize_tty(Snap!serialize_tty(t)) = [t EXCEPT !.waiting = 0]
  BY DEF IsTty, Snap!deserialize_tty, Snap!serialize_tty, Snap!NewTty

LEMMA ClockBack ==
  ASSUME NEW k, IsClock(k)
  PROVE  Snap!deserialize_kw11(Snap!serialize_kw11(k)) = k
  BY DEF IsClock, Snap!deserialize_kw11, Snap!serialize_kw11, Snap!NewKw11

LEMMA DiskBack ==
  ASSUME NEW d, IsDisk(d), d.backends = {}
  PROVE  /\ Snap!deserialize_disk(Snap!serialize_disk(d)) = d
         /\ Snap!serialize_disk(d).backends = {}
  <1> DEFINE j == Snap!serialize_disk(d)
             back == Snap!deserialize_disk(j)
  <1>1. j.registers = d.registers /\ j.position = d.position /\ j.backends = {}
    BY DEF Snap!serialize_disk
  <1> HIDE DEF j
  <1>2. back \in [registers : {d.registers}, position : {d.position}, backends : {{}}]
    BY <1>1 DEF Snap!deserialize_disk, Snap!NewDisk
  <1> HIDE DEF back
  <1>3. back = d
    BY <1>2 DEF IsDisk
  <1> QED  BY <1>1, <1>3 DEF j, back

LEMMA BackendCrashes ==
  ASSUME NEW j PROVE Snap!Crashes(Snap!deserialize_backend(j))
  BY DEF Snap!Crashes, Snap!deserialize_backend

\* A bus as deserialize makes it.
Bus(memory, cpu, mmu, object, tty, kw11, rl02, rk05, dz11) ==
  [machine |-> "made", memory |-> memory, cpu |-> cpu, mmu |-> mmu, mmu_object |-> object,
   tty |-> tty, kw11 |-> kw11, rl02 |-> rl02, rk05 |-> rk05, rp06 |-> Snap!NewDisk,
   dz11 |-> dz11, dc11 |-> 0, tm11 |-> 0, console_switches |-> 0]

Buses(memory, cpu, mmu, object, tty, kw11, rl02, rk05, dz11) ==
  [machine : {"made"}, memory : {memory}, cpu : {cpu}, mmu : {mmu}, mmu_object : {object},
   tty : {tty}, kw11 : {kw11}, rl02 : {rl02}, rk05 : {rk05}, rp06 : {Snap!NewDisk},
   dz11 : {dz11}, dc11 : {0}, tm11 : {0}, console_switches : {0}]

LEMMA OneBus ==
  ASSUME NEW memory, NEW cpu, NEW mmu, NEW object, NEW tty, NEW kw11, NEW rl02, NEW rk05,
         NEW dz11, NEW b \in Buses(memory, cpu, mmu, object, tty, kw11, rl02, rk05, dz11)
  PROVE  b = Bus(memory, cpu, mmu, object, tty, kw11, rl02, rk05, dz11)
  BY DEF Buses, Bus

LEMMA DeserializeIs ==
  ASSUME NEW j,
         \A backend \in j.rl02.backends \cup j.rk05.backends :
           ~Snap!Crashes(Snap!deserialize_backend(backend))
  PROVE  Snap!deserialize(j)
           = Bus(j.memory, Snap!deserialize_cpu(j.cpu, 0), Snap!NewMmu, 1,
                 Snap!deserialize_tty(j.tty), Snap!deserialize_kw11(j.kw11),
                 Snap!deserialize_disk(j.rl02), Snap!deserialize_disk(j.rk05),
                 Snap!deserialize_dz11(j.dz11))
  <1> DEFINE tty == Snap!deserialize_tty(j.tty)
             kw11 == Snap!deserialize_kw11(j.kw11)
             rl02 == Snap!deserialize_disk(j.rl02)
             rk05 == Snap!deserialize_disk(j.rk05)
             dz11 == Snap!deserialize_dz11(j.dz11)
             Cpu(object) == Snap!deserialize_cpu(j.cpu, object)
             mmu == Snap!deserialize_mmu(j.mmu)
             with_memory == Snap!add_ram(Snap!NewBus, j.memory)
             with_tty == [with_memory EXCEPT !.tty = tty]
             with_cpu == Snap!add_cpu(with_tty, Cpu(with_tty.mmu_object))
             with_mmu == Snap!add_mmu(with_cpu, mmu)
             all == [with_mmu EXCEPT !.rl02 = rl02, !.rk05 = rk05, !.kw11 = kw11,
                                     !.dz11 = dz11, !.rp06 = Snap!NewDisk]
             wanted == Bus(j.memory, Cpu(0), Snap!NewMmu, 1, tty, kw11, rl02, rk05, dz11)
  <1>1. Snap!deserialize(j) = all
    BY Zenon DEF Snap!deserialize
  <1> HIDE DEF tty, kw11, rl02, rk05, dz11, Cpu, mmu
  <1>2. with_memory = Bus(j.memory, Snap!NewCpu(0), Snap!NewMmu, 0, Snap!NewTty, Snap!NewKw11,
                          Snap!NewDisk, Snap!NewDisk, Snap!NewDz11(<< >>))
    <2>1. with_memory \in Buses(j.memory, Snap!NewCpu(0), Snap!NewMmu, 0, Snap!NewTty, Snap!NewKw11,
                          Snap!NewDisk, Snap!NewDisk, Snap!NewDz11(<< >>))
      BY DEF Snap!add_ram, Snap!begin_mmu, Snap!NewBus, Buses
    <2> HIDE DEF with_memory
    <2> QED  BY <2>1, OneBus
  <1> HIDE DEF with_memory
  <1>3. with_tty = Bus(j.memory, Snap!NewCpu(0), Snap!NewMmu, 0, tty, Snap!NewKw11,
                          Snap!NewDisk, Snap!NewDisk, Snap!NewDz11(<< >>))
    <2>1. with_tty \in Buses(j.memory, Snap!NewCpu(0), Snap!NewMmu, 0, tty, Snap!NewKw11,
                          Snap!NewDisk, Snap!NewDisk, Snap!NewDz11(<< >>))
      BY <1>2 DEF Bus, Buses
    <2> HIDE DEF with_tty
    <2> QED  BY <2>1, OneBus
  <1> HIDE DEF with_tty
  <1>4. with_cpu = Bus(j.memory, Cpu(0), Snap!NewMmu, 0, tty, Snap!NewKw11,
                          Snap!NewDisk, Snap!NewDisk, Snap!NewDz11(<< >>))
    <2>1. with_cpu \in Buses(j.memory, Cpu(0), Snap!NewMmu, 0, tty, Snap!NewKw11,
                          Snap!NewDisk, Snap!NewDisk, Snap!NewDz11(<< >>))
      BY <1>3 DEF Bus, Buses, Snap!add_cpu, Snap!begin_mmu
    <2> HIDE DEF with_cpu
    <2> QED  BY <2>1, OneBus
  <1> HIDE DEF with_cpu
  <1>5. with_mmu = Bus(j.memory, Cpu(0), Snap!NewMmu, 1, tty, Snap!NewKw11,
                          Snap!NewDisk, Snap!NewDisk, Snap!NewDz11(<< >>))
    <2> DEFINE joined == [with_cpu EXCEPT !.mmu = mmu, !.mmu_object = @ + 1]
    <2>1. with_mmu = Snap!begin_mmu(joined)
      BY DEF Snap!add_mmu
    <2>2. joined = Bus(j.memory, Cpu(0), mmu, 1, tty, Snap!NewKw11,
                          Snap!NewDisk, Snap!NewDisk, Snap!NewDz11(<< >>))
      <3>1. with_cpu.mmu_object + 1 = 1
        BY <1>4 DEF Bus
      <3>2. joined \in Buses(j.memory, Cpu(0), mmu, 1, tty, Snap!NewKw11,
                          Snap!NewDisk, Snap!NewDisk, Snap!NewDz11(<< >>))
        BY <1>4, <3>1 DEF Bus, Buses
      <3> HIDE DEF joined
      <3> QED  BY <3>2, OneBus
    <2> HIDE DEF joined
    <2>3. with_mmu \in Buses(j.memory, Cpu(0), Snap!NewMmu, 1, tty, Snap!NewKw11,
                          Snap!NewDisk, Snap!NewDisk, Snap!NewDz11(<< >>))
      BY <2>1, <2>2 DEF Bus, Buses, Snap!begin_mmu
    <2> HIDE DEF with_mmu
    <2> QED  BY <2>3, OneBus
  <1> HIDE DEF with_mmu
  <1>6. all = Bus(j.memory, Cpu(0), Snap!NewMmu, 1, tty, kw11, rl02, rk05, dz11)
    <2>1. all \in Buses(j.memory, Cpu(0), Snap!NewMmu, 1, tty, kw11, rl02, rk05, dz11)
      BY <1>5 DEF Bus, Buses
    <2> HIDE DEF all
    <2> QED  BY <2>1, OneBus
  <1> QED  BY <1>1, <1>6 DEF tty, kw11, rl02, rk05, dz11, Cpu

LEMMA ConfigureIs ==
  ASSUME NEW memory, NEW cpu, NEW mmu, NEW object, NEW tty, NEW kw11, NEW rl02, NEW rk05,
         NEW dz11, NEW lines
  PROVE  Snap!configure(Bus(memory, cpu, mmu, object, tty, kw11, rl02, rk05, dz11), lines)
           = Bus(memory, cpu, mmu, object, tty, kw11, rl02, rk05, Snap!NewDz11(lines))
  <1> DEFINE b == Snap!configure(Bus(memory, cpu, mmu, object, tty, kw11, rl02, rk05, dz11), lines)
  <1>1. b \in Buses(memory, cpu, mmu, object, tty, kw11, rl02, rk05, Snap!NewDz11(lines))
    BY DEF Bus, Buses, Snap!configure
  <1> HIDE DEF b
  <1>2. b = Bus(memory, cpu, mmu, object, tty, kw11, rl02, rk05, Snap!NewDz11(lines))
    BY <1>1, OneBus
  <1> QED  BY <1>2 DEF b

\* The machine of main() before anything ran.
LEMMA PlainIs ==
  /\ Plain = Bus(Snap!Zeroes(2), Snap!NewCpu(0), Snap!NewMmu, 0, Snap!NewTty, Snap!NewKw11,
                 Snap!NewDisk, Snap!NewDisk, Snap!NewDz11(<<"tcp-server", "tcp-server">>))
  /\ Plain.dz11 = Snap!NewDz11(Plain.dz11.channels)
  <1> DEFINE lines == <<"tcp-server", "tcp-server">>
  <1>1. Snap!NewBus = Bus(Snap!Zeroes(2), Snap!NewCpu(0), Snap!NewMmu, 0, Snap!NewTty,
                          Snap!NewKw11, Snap!NewDisk, Snap!NewDisk, Snap!NewDz11(<< >>))
    BY Zenon DEF Snap!NewBus, Bus
  <1> HIDE DEF lines
  <1>2. Plain = Bus(Snap!Zeroes(2), Snap!NewCpu(0), Snap!NewMmu, 0, Snap!NewTty, Snap!NewKw11,
                    Snap!NewDisk, Snap!NewDisk, Snap!NewDz11(lines))
    BY <1>1, ConfigureIs DEF Plain, lines
  <1>3. Plain.dz11 = Snap!NewDz11(lines)
    BY <1>2 DEF Bus
  <1>4. Plain.dz11.channels = lines
    BY <1>3 DEF Snap!NewDz11
  <1> QED  BY <1>2, <1>3, <1>4 DEF lines

LEMMA KeptIs ==
  ASSUME NEW m, IsMachine(m)
  PROVE  Kept(m) = Bus(m.memory, [m.cpu EXCEPT !.queued_interrupts = {}], Snap!NewMmu, 1,
                       [m.tty EXCEPT !.waiting = 0], m.kw11, m.rl02, m.rk05, Plain.dz11)
  <1> DEFINE cpu == [m.cpu EXCEPT !.queued_interrupts = {}]
             tty == [m.tty EXCEPT !.waiting = 0]
             kept == Kept(m)
  <1>1. kept = [m EXCEPT !.cpu = cpu, !.mmu = Snap!NewMmu, !.tty = tty,
                         !.rp06 = Snap!NewDisk, !.dz11 = Plain.dz11, !.dc11 = 0, !.tm11 = 0,
                         !.console_switches = 0, !.mmu_object = 1]
    BY DEF Kept
  <1> HIDE DEF cpu, tty
  <1>2. m \in [machine : {"made"}, memory : {m.memory}, cpu : {m.cpu}, mmu : {m.mmu},
               mmu_object : {m.mmu_object}, tty : {m.tty}, kw11 : {m.kw11}, rl02 : {m.rl02},
               rk05 : {m.rk05}, rp06 : {m.rp06}, dz11 : {m.dz11}, dc11 : {m.dc11},
               tm11 : {m.tm11}, console_switches : {m.console_switches}]
    BY DEF IsMachine
  <1> DEFINE mmu == Snap!NewMmu
             rp06 == Snap!NewDisk
             dz11 == Plain.dz11
  <1>3. kept \in Buses(m.memory, cpu, mmu, 1, tty, m.kw11, m.rl02, m.rk05, dz11)
    <2>1. kept = [m EXCEPT !.cpu = cpu, !.mmu = mmu, !.tty = tty, !.rp06 = rp06, !.dz11 = dz11,
                           !.dc11 = 0, !.tm11 = 0, !.console_switches = 0, !.mmu_object = 1]
      BY <1>1
    <2> HIDE DEF kept, mmu, rp06, dz11
    <2>2. kept \in [machine : {"made"}, memory : {m.memory}, cpu : {cpu}, mmu : {mmu},
                    mmu_object : {1}, tty : {tty}, kw11 : {m.kw11}, rl02 : {m.rl02},
                    rk05 : {m.rk05}, rp06 : {rp06}, dz11 : {dz11}, dc11 : {0}, tm11 : {0},
                    console_switches : {0}]
      BY ONLY <1>2, <2>1
    <2> QED  BY <2>2 DEF Buses, rp06
  <1> HIDE DEF kept
  <1>4. kept = Bus(m.memory, cpu, Snap!NewMmu, 1, tty, m.kw11, m.rl02, m.rk05, Plain.dz11)
    BY <1>3, OneBus
  <1> QED  BY <1>4 DEF kept, cpu, tty

\* serialize keeps the words of every device, and those of its back-ends.
LEMMA SavedIs ==
  ASSUME NEW m, IsMachine(m)
  PROVE  LET j == Snap!serialize(m)
         IN  /\ j.memory = m.memory
             /\ j.cpu = Snap!serialize_cpu(m.cpu)
             /\ j.tty = Snap!serialize_tty(m.tty)
             /\ j.kw11 = Snap!serialize_kw11(m.kw11)
             /\ j.rl02 = Snap!serialize_disk(m.rl02)
             /\ j.rk05 = Snap!serialize_disk(m.rk05)
             /\ j.dz11 = Snap!serialize_dz11(m.dz11)
  BY DEF Snap!serialize

LEMMA RestoredIs ==
  ASSUME NEW m, IsMachine(m), m.rl02.backends = {}, m.rk05.backends = {}
  PROVE  Snap!deserialize(Snap!serialize(m))
           = Bus(m.memory, [m.cpu EXCEPT !.queued_interrupts = {}], Snap!NewMmu, 1,
                 [m.tty EXCEPT !.waiting = 0], m.kw11, m.rl02, m.rk05,
                 Snap!deserialize_dz11(Snap!serialize_dz11(m.dz11)))
  <1> DEFINE j == Snap!serialize(m)
  <1>1. /\ j.memory = m.memory
        /\ j.cpu = Snap!serialize_cpu(m.cpu)
        /\ j.tty = Snap!serialize_tty(m.tty)
        /\ j.kw11 = Snap!serialize_kw11(m.kw11)
        /\ j.rl02 = Snap!serialize_disk(m.rl02)
        /\ j.rk05 = Snap!serialize_disk(m.rk05)
        /\ j.dz11 = Snap!serialize_dz11(m.dz11)
    BY SavedIs
  <1> HIDE DEF j
  <1>2. /\ IsCpu(m.cpu) /\ IsTty(m.tty) /\ IsClock(m.kw11)
        /\ IsDisk(m.rl02) /\ IsDisk(m.rk05)
    BY DEF IsMachine
  <1>3. j.rl02.backends = {} /\ j.rk05.backends = {}
    BY <1>1, <1>2, DiskBack
  <1>4. Snap!deserialize(j)
          = Bus(j.memory, Snap!deserialize_cpu(j.cpu, 0), Snap!NewMmu, 1,
                Snap!deserialize_tty(j.tty), Snap!deserialize_kw11(j.kw11),
                Snap!deserialize_disk(j.rl02), Snap!deserialize_disk(j.rk05),
                Snap!deserialize_dz11(j.dz11))
    BY <1>3, DeserializeIs
  <1>5. /\ Snap!deserialize_cpu(j.cpu, 0) = [m.cpu EXCEPT !.queued_interrupts = {}]
        /\ Snap!deserialize_tty(j.tty) = [m.tty EXCEPT !.waiting = 0]
        /\ Snap!deserialize_kw11(j.kw11) = m.kw11
        /\ Snap!deserialize_disk(j.rl02) = m.rl02
        /\ Snap!deserialize_disk(j.rk05) = m.rk05
    BY <1>1, <1>2, CpuBack, TtyBack, ClockBack, DiskBack
  <1> QED  BY <1>1, <1>4, <1>5 DEF j

LEMMA ResumedIs ==
  ASSUME NEW m, IsMachine(m), m.rl02.backends = {}, m.rk05.backends = {}
  PROVE  Snap!Resume(Snap!serialize(m), Plain.dz11.channels) = Kept(m)
  <1> DEFINE j == Snap!serialize(m)
             b == Snap!deserialize(j)
             cpu == [m.cpu EXCEPT !.queued_interrupts = {}]
             tty == [m.tty EXCEPT !.waiting = 0]
             dz11 == Snap!deserialize_dz11(Snap!serialize_dz11(m.dz11))
             lines == Plain.dz11.channels
  <1>1. b = Bus(m.memory, cpu, Snap!NewMmu, 1, tty, m.kw11, m.rl02, m.rk05, dz11)
    BY RestoredIs
  <1>2. b # Snap!Crashed
    <2>1. b.machine = "made"
      BY <1>1 DEF Bus
    <2>2. Snap!Crashed.machine = "none"
      BY DEF Snap!Crashed
    <2> HIDE DEF b
    <2> QED  BY <2>1, <2>2
  <1>3. Snap!Resume(j, lines) = Snap!configure(b, lines)
    <2> HIDE DEF j
    <2> QED  BY <1>2 DEF Snap!Resume
  <1>4. Kept(m) = Bus(m.memory, cpu, Snap!NewMmu, 1, tty, m.kw11, m.rl02, m.rk05, Plain.dz11)
    BY KeptIs
  <1>5. Snap!configure(b, lines) = Bus(m.memory, cpu, Snap!NewMmu, 1, tty, m.kw11, m.rl02, m.rk05,
                                       Snap!NewDz11(lines))
    <2> HIDE DEF b, cpu, tty, dz11, lines
    <2> QED  BY <1>1, ConfigureIs
  <1>6. Plain.dz11 = Snap!NewDz11(lines)
    BY PlainIs
  <1> HIDE DEF b, cpu, tty, dz11, lines
  <1> QED  BY <1>3, <1>4, <1>5, <1>6 DEF j, lines

LEMMA CpuKeptTwice ==
  ASSUME NEW c, IsCpu(c)
  PROVE  LET kept == [c EXCEPT !.queued_interrupts = {}]
         IN  IsCpu(kept) /\ [kept EXCEPT !.queued_interrupts = {}] = kept
  <1> DEFINE kept == [c EXCEPT !.queued_interrupts = {}]
             twice == [kept EXCEPT !.queued_interrupts = {}]
             Only == [mmu_object : {0}, register : {c.register}, sp : {c.sp}, state : {c.state},
                      delayed_trap : {c.delayed_trap}, queued_interrupts : {{}},
                      any_queued_interrupts : {c.any_queued_interrupts}]
  <1>1. kept \in Only
    BY DEF IsCpu
  <1> HIDE DEF kept
  <1>2. twice \in Only
    BY <1>1
  <1> HIDE DEF twice
  <1>3. twice = kept /\ IsCpu(kept)
    BY <1>1, <1>2 DEF IsCpu
  <1> QED  BY <1>3 DEF kept, twice

LEMMA TtyKeptTwice ==
  ASSUME NEW t, IsTty(t)
  PROVE  LET kept == [t EXCEPT !.waiting = 0]
         IN  IsTty(kept) /\ [kept EXCEPT !.waiting = 0] = kept
  <1> DEFINE kept == [t EXCEPT !.waiting = 0]
             twice == [kept EXCEPT !.waiting = 0]
             Only == [registers : {t.registers}, waiting : {0}]
  <1>1. kept \in Only
    BY DEF IsTty
  <1> HIDE DEF kept
  <1>2. twice \in Only
    BY <1>1
  <1> HIDE DEF twice
  <1>3. twice = kept /\ IsTty(kept)
    BY <1>1, <1>2 DEF IsTty
  <1> QED  BY <1>3 DEF kept, twice

\* A machine that was resumed once is kept as it is.
LEMMA KeptTwice ==
  ASSUME NEW m, IsMachine(m), m.rl02.backends = {}, m.rk05.backends = {}
  PROVE  /\ IsMachine(Kept(m)) /\ Kept(Kept(m)) = Kept(m)
         /\ Kept(m).rl02.backends = {} /\ Kept(m).rk05.backends = {}
  <1> DEFINE cpu == [m.cpu EXCEPT !.queued_interrupts = {}]
             tty == [m.tty EXCEPT !.waiting = 0]
             k == Kept(m)
  <1>1. k = Bus(m.memory, cpu, Snap!NewMmu, 1, tty, m.kw11, m.rl02, m.rk05, Plain.dz11)
    BY KeptIs
  <1>2. IsCpu(cpu) /\ [cpu EXCEPT !.queued_interrupts = {}] = cpu
    BY CpuKeptTwice DEF IsMachine
  <1>3. IsTty(tty) /\ [tty EXCEPT !.waiting = 0] = tty
    BY TtyKeptTwice DEF IsMachine
  <1>4. IsMux(Plain.dz11)
    <2>1. Plain.dz11 = [registers |-> Snap!Zeroes(2), channels |-> <<"tcp-server", "tcp-server">>]
      BY PlainIs DEF Bus, Snap!NewDz11
    <2>2. <<"tcp-server", "tcp-server">> \in [1..2 -> LineKinds]
      BY DEF LineKinds
    <2> QED  BY <2>1, <2>2 DEF IsMux
  <1> HIDE DEF cpu, tty, k
  <1>5. /\ k.memory = m.memory /\ k.cpu = cpu /\ k.tty = tty /\ k.kw11 = m.kw11
        /\ k.rl02 = m.rl02 /\ k.rk05 = m.rk05 /\ k.dz11 = Plain.dz11
    BY <1>1 DEF Bus
  <1>6. k = [machine |-> "made", memory |-> k.memory, cpu |-> k.cpu, mmu |-> k.mmu,
          mmu_object |-> k.mmu_object, tty |-> k.tty, kw11 |-> k.kw11, rl02 |-> k.rl02,
          rk05 |-> k.rk05, rp06 |-> k.rp06, dz11 |-> k.dz11, dc11 |-> k.dc11,
          tm11 |-> k.tm11, console_switches |-> k.console_switches]
    BY <1>1 DEF Bus
  <1>7. IsMachine(k)
    BY <1>2, <1>3, <1>4, <1>5, <1>6 DEF IsMachine
  <1>8. Kept(k) = Bus(k.memory, [k.cpu EXCEPT !.queued_interrupts = {}], Snap!NewMmu, 1,
                      [k.tty EXCEPT !.waiting = 0], k.kw11, k.rl02, k.rk05, Plain.dz11)
    BY <1>7, KeptIs
  <1>9. Kept(k) = k
    BY <1>1, <1>2, <1>3, <1>5, <1>8
  <1> QED  BY <1>5, <1>7, <1>9 DEF k

\* With a disk in a controller the emulator ends.
LEMMA DisksEndIt ==
  ASSUME NEW m, IsMachine(m), NEW lines, m.rk05.backends \cup m.rl02.backends # {}
  PROVE  Snap!Resume(Snap!serialize(m), lines) = Snap!Crashed
  <1> DEFINE j == Snap!serialize(m)
             saved(d) == {Snap!serialize_backend(b) : b \in d.backends}
  <1>1. j.rl02.backends = saved(m.rl02) /\ j.rk05.backends = saved(m.rk05)
    BY DEF Snap!serialize, Snap!serialize_disk
  <1>2. \E backend : backend \in j.rl02.backends \cup j.rk05.backends
    <2>1. PICK b : b \in m.rk05.backends \cup m.rl02.backends
      OBVIOUS
    <2>2. Snap!serialize_backend(b) \in j.rl02.backends \cup j.rk05.backends
      BY <1>1, <2>1
    <2> QED  BY <2>2
  <1> HIDE DEF j
  <1>3. Snap!deserialize(j) = Snap!Crashed
    BY <1>2, BackendCrashes DEF Snap!deserialize
  <1> QED  BY <1>3 DEF j, Snap!Resume

LEMMA LinesComeBack ==
  ASSUME NEW d, IsMux(d)
  PROVE  LinesKept(d, Snap!deserialize_dz11(Snap!serialize_dz11(d)))
  <1> DEFINE j == Snap!serialize_dz11(d)
             back == Snap!deserialize_dz11(j)
  <1>1. /\ j.registers = d.registers
        /\ j.interfaces = [i \in 1..2 |-> Snap!serialize_comm(d.channels[i])]
    BY DEF Snap!serialize_dz11, Snap!serialize_comm_io, IsMux
  <1> HIDE DEF j
  <1>2. /\ back.registers = d.registers
        /\ back.channels = [i \in 1..2 |-> Snap!deserialize_comm(j.interfaces[i])]
    BY <1>1 DEF Snap!deserialize_dz11, Snap!NewDz11, Snap!deserialize_comm_io
  <1> HIDE DEF back
  <1>3. ASSUME NEW i \in 1..2
        PROVE  back.channels[i] = d.channels[i] \/ d.channels[i] = "pst"
    <2>1. back.channels[i] = Snap!deserialize_comm(Snap!serialize_comm(d.channels[i]))
      BY <1>1, <1>2
    <2>2. d.channels[i] \in LineKinds
      BY DEF IsMux
    <2> QED  BY <2>1, <2>2 DEF Snap!deserialize_comm, Snap!serialize_comm, LineKinds
  <1> QED  BY <1>2, <1>3 DEF LinesKept, back, j

\* For every machine, whatever is in its memory and its registers: the snapshot
\* of serialize(), read by deserialize() and completed by main(), gives the same
\* machine but for what Kept names, and the emulator ends if a disk is in a drive
\* of the RK05 or RL02 (bus.cpp, cpu.cpp, mmu.cpp and the devices).
THEOREM ResumedIsSaved ==
  ASSUME NEW m, IsMachine(m)
  PROVE  SnapshotCorrect(m, Snap!deserialize(Snap!serialize(m)),
                         Snap!Resume(Snap!serialize(m), Plain.dz11.channels))
  <1> DEFINE j == Snap!serialize(m)
             b == Snap!deserialize(j)
             r == Snap!Resume(j, Plain.dz11.channels)
  <1>1. CASE m.rk05.backends \cup m.rl02.backends # {}
    <2>1. r = Snap!Crashed
      BY <1>1, DisksEndIt
    <2> HIDE DEF r, b
    <2>2. SnapshotCorrect(m, b, r)
      BY <1>1, <2>1 DEF SnapshotCorrect
    <2> QED  BY <2>2 DEF r, b
  <1>2. CASE m.rk05.backends \cup m.rl02.backends = {}
    <2>1. m.rl02.backends = {} /\ m.rk05.backends = {}
      BY <1>2
    <2>2. r = Kept(m)
      BY <2>1, ResumedIs
    <2>3. Snap!Resume(Snap!serialize(Kept(m)), Plain.dz11.channels) = Kept(m)
      BY <2>1, KeptTwice, ResumedIs
    <2>4. LinesKept(m.dz11, b.dz11)
      <3>1. b.dz11 = Snap!deserialize_dz11(Snap!serialize_dz11(m.dz11))
        BY <2>1, RestoredIs DEF Bus
      <3>2. IsMux(m.dz11)
        BY DEF IsMachine
      <3> HIDE DEF b
      <3> QED  BY <3>1, <3>2, LinesComeBack
    <2> HIDE DEF r, b
    <2>5. SnapshotCorrect(m, b, r)
      BY <1>2, <2>2, <2>3, <2>4 DEF SnapshotCorrect
    <2> QED  BY <2>5 DEF r, b
  <1> QED  BY <1>1, <1>2

\* Machines that differ from one in the parts that a program changes.
Fields(m) == [machine : {"made"}, memory : {m.memory}, cpu : {m.cpu}, mmu : {m.mmu},
              mmu_object : {m.mmu_object}, tty : {m.tty}, kw11 : {m.kw11}, rl02 : {m.rl02},
              rk05 : {m.rk05}, rp06 : {m.rp06}, dz11 : {m.dz11}, dc11 : {m.dc11},
              tm11 : {m.tm11}, console_switches : {m.console_switches}]
Parts(m) ==
  /\ IsCpu(m.cpu) /\ IsTty(m.tty) /\ IsClock(m.kw11)
  /\ IsDisk(m.rl02) /\ IsDisk(m.rk05) /\ IsMux(m.dz11)

LEMMA MachineByFields ==
  ASSUME NEW m
  PROVE  IsMachine(m) <=> m \in Fields(m) /\ Parts(m)
  BY DEF IsMachine, Fields, Parts

LEMMA UsedIsMachine == IsMachine(UsedPlain)
  <1>1. /\ Plain \in Fields(Plain) /\ Parts(Plain)
    <2>1. Plain \in Fields(Plain)
      <3> DEFINE tty == Snap!NewTty
                 kw11 == Snap!NewKw11
                 disk == Snap!NewDisk
                 cpu == Snap!NewCpu(0)
                 mmu == Snap!NewMmu
                 memory == Snap!Zeroes(2)
                 dz11 == Snap!NewDz11(<<"tcp-server", "tcp-server">>)
      <3>1. Plain = Bus(memory, cpu, mmu, 0, tty, kw11, disk, disk, dz11)
        BY PlainIs
      <3> HIDE DEF tty, kw11, disk, cpu, mmu, memory, dz11
      <3> QED  BY <3>1 DEF Bus, Fields
    <2>2. /\ Plain.cpu = Snap!NewCpu(0) /\ Plain.tty = Snap!NewTty /\ Plain.kw11 = Snap!NewKw11
          /\ Plain.rl02 = Snap!NewDisk /\ Plain.rk05 = Snap!NewDisk
          /\ Plain.dz11 = Snap!NewDz11(<<"tcp-server", "tcp-server">>)
      BY PlainIs DEF Bus
    <2>3. IsCpu(Snap!NewCpu(0))
      <3> DEFINE places == [place \in (0..1) \X Snap!Registers(2) |-> 0]
                 c == Snap!NewCpu(0)
      <3>1. c = [mmu_object |-> 0, register |-> places, sp |-> Snap!Zeroes(4),
                 state |-> Snap!Zeroes(2), delayed_trap |-> {}, queued_interrupts |-> {},
                 any_queued_interrupts |-> 0]
        BY DEF Snap!NewCpu
      <3> HIDE DEF places, c
      <3>2. IsCpu(c)
        BY <3>1 DEF IsCpu
      <3> QED  BY <3>2 DEF c
    <2>4. IsTty(Snap!NewTty) /\ IsClock(Snap!NewKw11) /\ IsDisk(Snap!NewDisk)
      BY DEF IsTty, IsClock, IsDisk, Snap!NewTty, Snap!NewKw11, Snap!NewDisk
    <2>5. IsMux(Snap!NewDz11(<<"tcp-server", "tcp-server">>))
      <3>1. <<"tcp-server", "tcp-server">> \in [1..2 -> LineKinds]
        BY DEF LineKinds
      <3> QED  BY <3>1 DEF IsMux, Snap!NewDz11
    <2> QED  BY <2>1, <2>2, <2>3, <2>4, <2>5 DEF Parts
  <1> DEFINE used == UsedPlain
             memory == [Plain.memory EXCEPT ![1] = 1]
  <1>2. used = [Plain EXCEPT !.memory = memory, !.dc11 = 1, !.tm11 = 1, !.console_switches = 1]
    BY DEF UsedPlain
  <1> HIDE DEF used, memory
  <1>3. used \in [machine : {"made"}, memory : {memory}, cpu : {Plain.cpu}, mmu : {Plain.mmu},
              mmu_object : {Plain.mmu_object}, tty : {Plain.tty}, kw11 : {Plain.kw11},
              rl02 : {Plain.rl02}, rk05 : {Plain.rk05}, rp06 : {Plain.rp06},
              dz11 : {Plain.dz11}, dc11 : {1}, tm11 : {1}, console_switches : {1}]
    BY <1>1, <1>2 DEF Fields
  <1>4. used \in Fields(used) /\ Parts(used)
    BY <1>1, <1>3 DEF Fields, Parts
  <1> QED  BY <1>4, MachineByFields DEF used

LEMMA CpusAreCpus ==
  ASSUME NEW c \in Cpus
  PROVE  IsCpu(c)
  <1> DEFINE R == [(0..1) \X (0..1) -> Snap!Bits]
             SPs == [0..3 -> Snap!Bits]
             States == [0..1 -> Snap!Bits]
             Traps == {{}, {1}}
  <1>1. c \in [mmu_object : {0}, register : R, sp : SPs, state : States, delayed_trap : Traps,
               queued_interrupts : Traps, any_queued_interrupts : Snap!Bits]
    BY Zenon DEF Cpus
  <1> HIDE DEF R, SPs, States, Traps
  <1> QED  BY <1>1 DEF IsCpu

\* Every machine that is asked about is one.
LEMMA TestedAreMachines ==
  ASSUME TakeSnapshot
  PROVE  \E m : IsMachine(m) /\ Resumed(m)
  <1> DEFINE u == UsedPlain
  <1>1. u \in Fields(u) /\ Parts(u)
    BY UsedIsMachine, MachineByFields
  <1> HIDE DEF u
  <1>2. ASSUME NEW c \in Cpus, Resumed([u EXCEPT !.cpu = c])
        PROVE  \E m : IsMachine(m) /\ Resumed(m)
    <2> DEFINE m == [u EXCEPT !.cpu = c]
    <2>1. m \in Fields(m) /\ m.cpu = c /\ m.tty = u.tty /\ m.kw11 = u.kw11
          /\ m.rl02 = u.rl02 /\ m.rk05 = u.rk05 /\ m.dz11 = u.dz11
      BY <1>1 DEF Fields
    <2>2. Resumed(m)
      BY <1>2
    <2> HIDE DEF m
    <2>3. Parts(m)
      BY <1>1, <2>1, CpusAreCpus DEF Parts
    <2> QED  BY <2>1, <2>2, <2>3, MachineByFields
  <1>3. ASSUME NEW mmu \in Mmus, NEW waiting \in Snap!Bits, NEW registers \in [0..1 -> Snap!Bits],
               NEW lines \in Lines, NEW k \in [lf_csr : Snap!Bits, wall_clock : Snap!Bits],
               Resumed([u EXCEPT !.mmu = mmu, !.kw11 = k,
                          !.tty = [registers |-> registers, waiting |-> waiting],
                          !.dz11 = [registers |-> registers, channels |-> lines]])
        PROVE  \E m : IsMachine(m) /\ Resumed(m)
    <2> DEFINE tty == [registers |-> registers, waiting |-> waiting]
               dz11 == [registers |-> registers, channels |-> lines]
               m == [u EXCEPT !.mmu = mmu, !.kw11 = k, !.tty = tty, !.dz11 = dz11]
    <2>1. IsTty(tty) /\ IsClock(k) /\ IsMux(dz11)
      BY DEF IsTty, IsClock, IsMux, Lines, LineKinds
    <2>2. Resumed(m)
      BY <1>3
    <2> HIDE DEF tty, dz11
    <2>3. m \in Fields(m) /\ m.cpu = u.cpu /\ m.tty = tty /\ m.kw11 = k
          /\ m.rl02 = u.rl02 /\ m.rk05 = u.rk05 /\ m.dz11 = dz11
      BY <1>1 DEF Fields
    <2> HIDE DEF m
    <2>4. Parts(m)
      BY <1>1, <2>1, <2>3 DEF Parts
    <2> QED  BY <2>2, <2>3, <2>4, MachineByFields
  <1>4. ASSUME NEW rk \in DiskControllers, NEW rl \in DiskControllers, NEW used \in Snap!Bits,
               Resumed([u EXCEPT !.rk05 = rk, !.rl02 = rl, !.rp06.registers[0] = used])
        PROVE  \E m : IsMachine(m) /\ Resumed(m)
    <2> DEFINE rp == [u.rp06 EXCEPT !.registers[0] = used]
               m == [u EXCEPT !.rk05 = rk, !.rl02 = rl, !.rp06 = rp]
    <2>1. IsDisk(rk) /\ IsDisk(rl)
      BY DEF IsDisk, DiskControllers
    <2>2. Resumed(m)
      BY <1>4
    <2> HIDE DEF rp
    <2>3. m \in Fields(m) /\ m.cpu = u.cpu /\ m.tty = u.tty /\ m.kw11 = u.kw11
          /\ m.rl02 = rl /\ m.rk05 = rk /\ m.dz11 = u.dz11
      BY <1>1 DEF Fields
    <2> HIDE DEF m
    <2>4. Parts(m)
      BY <1>1, <2>1, <2>3 DEF Parts
    <2> QED  BY <2>2, <2>3, <2>4, MachineByFields
  <1> QED  BY <1>2, <1>3, <1>4 DEF TakeSnapshot, u

\* In particular the machines that the run of FunctionChecks tries.
THEOREM SnapshotKeeps == CheckSpec => []SnapshotKeepsTheRest
  <1>1. CheckInit => SnapshotKeepsTheRest
    BY DEF CheckInit, Idle, SnapshotKeepsTheRest
  <1>2. ASSUME CheckNext  PROVE SnapshotKeepsTheRest'
    <2>1. CASE TakeSnapshot
      <3>1. PICK m : IsMachine(m) /\ Resumed(m)
        BY <2>1, TestedAreMachines
      <3> DEFINE b == Snap!deserialize(Snap!serialize(m))
                 r == Snap!Resume(Snap!serialize(m), Plain.dz11.channels)
      <3>2. SnapshotCorrect(m, b, r)
        BY <3>1, ResumedIsSaved
      <3>3. last' = [unit |-> "snapshot", m |-> m, b |-> b, r |-> r]
        BY <3>1 DEF Resumed, Answer
      <3> HIDE DEF b, r
      <3>4. last'.m = m /\ last'.b = b /\ last'.r = r
        BY <3>3
      <3> QED  BY <3>2, <3>4 DEF SnapshotKeepsTheRest
    <2>2. CASE ~TakeSnapshot
      <3>1. last'.unit # "snapshot"
        BY <1>2, <2>2, UnitTells
      <3> QED  BY <3>1 DEF SnapshotKeepsTheRest
    <2> QED  BY <2>1, <2>2
  <1>3. SnapshotKeepsTheRest /\ [CheckNext]_last => SnapshotKeepsTheRest'
    <2>1. CASE UNCHANGED last
      BY <2>1 DEF SnapshotKeepsTheRest
    <2> QED  BY <1>2, <2>1
  <1> QED  BY <1>1, <1>3, PTL DEF CheckSpec

=============================================================================
