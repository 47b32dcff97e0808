-------------------------- MODULE ConsoleTtyProofs --------------------------
(***************************************************************************)
(* No character is left lying in the input buffer and the enable bit is    *)
(* not lost, for every number of characters.  The invariants of ConsoleTty *)
(* are not inductive: what matters is that every copy of TKS that a thread *)
(* is about to write back, or to test, has the enable bit in it (Copies).  *)
(***************************************************************************)
EXTENDS ConsoleTty, SequenceTheorems, TLAPS

\* The loaded copies of TKS agree with it on the enable bit.
Copies ==
  armed = 1 =>
    /\ kpc \in {"store", "test"} => "enable" \in ktmp
    /\ cpc \in {"tks", "store", "test"} => "enable" \in ctmp

\* Nothing is promised while RESET runs.
ResetDisarms == cpc = "reset" => armed = 0

IInv == TypeOK /\ EnableKept /\ Copies /\ ResetDisarms /\ NoCharacterStuck

\* The types are right in the initial states.
LEMMA InitTypes == Init => TypeOK
  BY MaxCharsAssumption DEF Init, TypeOK

\* Every step of the console thread keeps the types.
LEMMA KeyboardTypes ==
  ASSUME TypeOK, Keyboard
  PROVE  TypeOK'
  <1> USE MaxCharsAssumption DEF TypeOK, cpuVars, Bits
  <1>1. CASE KeyPush
    BY <1>1 DEF KeyPush
  <1>2. CASE KeyLoad \/ KeyStore \/ KeyQueue
    BY <1>2 DEF KeyLoad, KeyStore, KeyQueue
  <1>3. CASE KeyTest(TKS) \/ KeyTest(ktmp)
    BY <1>3 DEF KeyTest
  <1> QED BY <1>1, <1>2, <1>3 DEF Keyboard

\* Every step of the CPU thread keeps the types.
LEMMA CpuTypes ==
  ASSUME TypeOK, Cpu
  PROVE  TypeOK'
  <1> USE MaxCharsAssumption DEF TypeOK, kbVars, Bits
  <1>1. CASE TksLoad \/ TksStore
    BY <1>1 DEF TksLoad, TksStore
  <1>2. CASE TkbPop
    <2>1. CASE buffer = <<>>
      BY <1>2, <2>1 DEF TkbPop
    <2>2. CASE buffer # <<>>
      <3>1. Head(buffer) \in 1..MaxChars /\ Tail(buffer) \in Seq(1..MaxChars)
        BY <2>2, HeadTailProperties
      <3>2. /\ got' = Head(buffer) /\ buffer' = Tail(buffer) /\ cpc' = "poll"
            /\ handler' = 0
            /\ UNCHANGED <<TKS, kpc, ktmp, typed, ctmp, rx, armed>>
        BY <1>2, <2>2 DEF TkbPop
      <3>3. got' \in 0..MaxChars /\ buffer' \in Seq(1..MaxChars)
        BY <3>1, <3>2
      <3> QED BY <3>2, <3>3
    <2> QED BY <2>1, <2>2
  <1>3. CASE TkbPoll \/ NotifyLoad \/ NotifyStore \/ NotifyQueue
    BY <1>3 DEF TkbPoll, NotifyLoad, NotifyStore, NotifyQueue
  <1>4. CASE NotifyTest(TKS) \/ NotifyTest(ctmp)
    BY <1>4 DEF NotifyTest
  <1>5. CASE Take
    BY <1>5 DEF Take
  <1>6. CASE \E v \in SUBSET Bits : write_word(v)
    BY <1>6 DEF write_word
  <1>7. CASE reset \/ ClearQueue
    BY <1>7 DEF reset, ClearQueue
  <1> QED BY <1>1, <1>2, <1>3, <1>4, <1>5, <1>6, <1>7 DEF Cpu

\* Every step of the console thread keeps the promise.
LEMMA KeyboardIInv ==
  ASSUME IInv, Keyboard
  PROVE  IInv'
  <1> USE DEF IInv, cpuVars
  <1>0. TypeOK' BY KeyboardTypes
  <1>1. CASE KeyPush
    BY <1>0, <1>1 DEF KeyPush, EnableKept, Copies, ResetDisarms, NoCharacterStuck
  <1>2. CASE KeyLoad
    BY <1>0, <1>2 DEF KeyLoad, EnableKept, Copies, ResetDisarms, NoCharacterStuck
  <1>3. CASE KeyStore
    BY <1>0, <1>3 DEF KeyStore, EnableKept, Copies, ResetDisarms, NoCharacterStuck
  <1>4. CASE KeyTest(TKS) \/ KeyTest(ktmp)
    BY <1>0, <1>4 DEF KeyTest, EnableKept, Copies, ResetDisarms, NoCharacterStuck
  <1>5. CASE KeyQueue
    BY <1>0, <1>5 DEF KeyQueue, EnableKept, Copies, ResetDisarms, NoCharacterStuck
  <1> QED BY <1>1, <1>2, <1>3, <1>4, <1>5 DEF Keyboard

\* Every step of the CPU thread keeps the promise.
LEMMA CpuIInv ==
  ASSUME IInv, Cpu
  PROVE  IInv'
  <1> USE DEF IInv, kbVars
  <1>0. TypeOK' BY CpuTypes
  <1>1. CASE TksLoad \/ TksStore
    BY <1>0, <1>1 DEF TksLoad, TksStore, EnableKept, Copies, ResetDisarms, NoCharacterStuck
  <1>2. CASE TkbPop
    BY <1>0, <1>2 DEF TkbPop, EnableKept, Copies, ResetDisarms, NoCharacterStuck
  <1>3. CASE TkbPoll \/ NotifyLoad
    BY <1>0, <1>3 DEF TkbPoll, NotifyLoad, EnableKept, Copies, ResetDisarms, NoCharacterStuck
  <1>4. CASE NotifyStore \/ NotifyQueue
    BY <1>0, <1>4 DEF NotifyStore, NotifyQueue, EnableKept, Copies, ResetDisarms, NoCharacterStuck
  <1>5. CASE NotifyTest(TKS) \/ NotifyTest(ctmp)
    BY <1>0, <1>5 DEF NotifyTest, EnableKept, Copies, ResetDisarms, NoCharacterStuck
  <1>6. CASE Take
    BY <1>0, <1>6 DEF Take, EnableKept, Copies, ResetDisarms, NoCharacterStuck
  <1>7. ASSUME NEW v \in SUBSET Bits, write_word(v) PROVE IInv'
    BY <1>0, <1>7 DEF write_word, EnableKept, Copies, ResetDisarms, NoCharacterStuck
  <1>8. CASE reset \/ ClearQueue
    BY <1>0, <1>8 DEF reset, ClearQueue, EnableKept, Copies, ResetDisarms, NoCharacterStuck
  <1> QED BY <1>1, <1>2, <1>3, <1>4, <1>5, <1>6, <1>7, <1>8 DEF Cpu

\* IInv is an inductive invariant of the two threads.
THEOREM TtyInductive == SafetySpec => []IInv
  <1>1. Init => IInv
    BY InitTypes DEF Init, IInv, EnableKept, Copies, ResetDisarms, NoCharacterStuck
  <1>2. IInv /\ [Next]_vars => IInv'
    <2> SUFFICES ASSUME IInv, [Next]_vars PROVE IInv'
      OBVIOUS
    <2>1. CASE Keyboard BY <2>1, KeyboardIInv
    <2>2. CASE Cpu BY <2>2, CpuIInv
    <2>3. CASE UNCHANGED vars
      BY <2>3 DEF vars, IInv, TypeOK, EnableKept, Copies, ResetDisarms, NoCharacterStuck
    <2> QED BY <2>1, <2>2, <2>3 DEF Next
  <1> QED BY <1>1, <1>2, PTL DEF SafetySpec

\* A program that enables keyboard interrupts before anything is typed is
\* interrupted for every character, whatever the order of the two threads'
\* loads and stores of TKS (tty.cpp:49-91).
THEOREM NoCharacterIsStuck == SafetySpec => []NoCharacterStuck
  BY TtyInductive, PTL DEF IInv

\* Neither thread's unlocked read-modify-write of TKS takes the enable bit of
\* such a program away.
THEOREM EnableIsKept == SafetySpec => []EnableKept
  BY TtyInductive, PTL DEF IInv
=============================================================================
