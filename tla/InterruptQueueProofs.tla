------------------------ MODULE InterruptQueueProofs ------------------------
(***************************************************************************)
(* The safety properties of InterruptQueue for any set of requests and any *)
(* set of device threads.                                                  *)
(***************************************************************************)
EXTENDS InterruptQueue, TLAPS

\* TypeOK, its Boolean variables apart from the others.
FlagTypes == hint \in BOOLEAN /\ delayed \in BOOLEAN

StateTypes ==
  /\ queued \subseteq Interrupts
  /\ lock \in Devices \cup {NoDevice}
  /\ dpc \in [Devices -> DevicePcs]
  /\ arg \in [Devices -> Interrupts]
  /\ cpc \in CpuPcs
  /\ spl \in Levels
  /\ clearing \in Levels
  /\ seen \subseteq Interrupts

\* The type invariant is the two halves together.
LEMMA TypeParts == TypeOK <=> StateTypes /\ FlagTypes
  BY Zenon DEF TypeOK, StateTypes, FlagTypes

\* The same after a step.
LEMMA TypePartsNext == TypeOK' <=> StateTypes' /\ FlagTypes'
  BY Zenon DEF TypeOK, StateTypes, FlagTypes

-----------------------------------------------------------------------------
\* The initial states have the right types.
LEMMA InitTypes == Init => StateTypes /\ FlagTypes
<1>1. Init => StateTypes
  BY DEF Init, StateTypes, Levels, DevicePcs, CpuPcs
<1>2. Init => FlagTypes
  BY DEF Init, FlagTypes
<1>. QED
  BY <1>1, <1>2

\* Every step keeps the types of the queue, the lock and the threads.
LEMMA NextStateTypes ==
  ASSUME StateTypes, [Next]_vars
  PROVE  StateTypes'
<1>. USE DEF StateTypes, devVars
<1>1. ASSUME NEW d \in Devices, NEW i \in Interrupts, QueueLock(d, i)
      PROVE  StateTypes'
  BY <1>1 DEF QueueLock, DevicePcs
<1>2. ASSUME NEW d \in Devices, DeviceCall(d)
      PROVE  StateTypes'
  BY <1>2 DEF DeviceCall, QueueInsert, QueueNotify, QueueSetHint,
              DevicePcs, CpuPcs, WaitPcs
<1>3. CASE TestHint
  BY <1>3 DEF TestHint, CpuPcs
<1>4. CASE DelayedTrap
  BY <1>4 DEF DelayedTrap, CpuPcs, Levels
<1>5. ASSUME NEW i \in Interrupts, ScanTakes(i)
      PROVE  StateTypes'
  BY <1>5, InterruptsAssumption DEF ScanTakes, CpuPcs, Levels
<1>6. CASE ScanTakesNone
  BY <1>6 DEF ScanTakesNone, CpuPcs
<1>7. CASE Instruction
  BY <1>7 DEF Instruction, ExecSetPriority, ExecYellowPush, ExecQueue,
              ExecUnqueue, ExecReset, ExecWait, CpuPcs, WaitPcs, Levels
<1>8. CASE Reset
  BY <1>8 DEF Reset, CpuPcs, Levels
<1>9. CASE ClearLevel
  BY <1>9 DEF ClearLevel, CpuPcs, Levels
<1>10. CASE WaitLock \/ WaitTimeout \/ WaitRelock \/ WaitCheck
  BY <1>10 DEF WaitLock, WaitTimeout, WaitRelock, WaitCheck, CpuPcs, WaitPcs
<1>11. CASE UNCHANGED vars
  BY <1>11 DEF vars
<1>. QED
  BY <1>1, <1>2, <1>3, <1>4, <1>5, <1>6, <1>7, <1>8, <1>9, <1>10, <1>11
     DEF Next, CpuStep, Scan

\* Every step keeps the hint and the delayed trap Boolean.
LEMMA NextFlagTypes ==
  ASSUME FlagTypes, [Next]_vars
  PROVE  FlagTypes'
<1>. USE DEF FlagTypes
<1>1. ASSUME NEW d \in Devices, NEW i \in Interrupts, QueueLock(d, i)
      PROVE  FlagTypes'
  BY <1>1 DEF QueueLock
<1>2. ASSUME NEW d \in Devices, DeviceCall(d)
      PROVE  FlagTypes'
  BY <1>2 DEF DeviceCall, QueueInsert, QueueNotify, QueueSetHint
<1>3. CASE TestHint
  BY <1>3 DEF TestHint
<1>4. CASE DelayedTrap
  BY <1>4 DEF DelayedTrap
<1>5. ASSUME NEW i \in Interrupts, ScanTakes(i)
      PROVE  FlagTypes'
  BY <1>5 DEF ScanTakes
<1>6. CASE ScanTakesNone
  BY <1>6 DEF ScanTakesNone, HintAfterScan
<1>7. CASE Instruction
  BY <1>7 DEF Instruction, ExecSetPriority, ExecYellowPush, ExecQueue,
              ExecUnqueue, ExecReset, ExecWait
<1>8. CASE Reset \/ ClearLevel
  BY <1>8 DEF Reset, ClearLevel
<1>9. CASE WaitLock \/ WaitTimeout \/ WaitRelock \/ WaitCheck
  BY <1>9 DEF WaitLock, WaitTimeout, WaitRelock, WaitCheck
<1>10. CASE UNCHANGED vars
  BY <1>10 DEF vars
<1>. QED
  BY <1>1, <1>2, <1>3, <1>4, <1>5, <1>6, <1>7, <1>8, <1>9, <1>10
     DEF Next, CpuStep, Scan

(***************************************************************************)
(* Every variable keeps its type, whatever the threads do.                 *)
(***************************************************************************)
THEOREM TypeCorrect == SafetySpec => []TypeOK
<1>1. Init => TypeOK
  BY InitTypes, TypeParts
<1>2. TypeOK /\ [Next]_vars => TypeOK'
  BY TypeParts, TypePartsNext, NextStateTypes, NextFlagTypes
<1>. QED
  BY <1>1, <1>2, PTL DEF SafetySpec

-----------------------------------------------------------------------------
\* Between the test of the hint and the instruction nothing that step() saw
\* leaves the queue, unless step() takes a request and forgets what it saw.
SeenStillQueued == cpc \in {"delayed", "scan", "exec"} => seen \subseteq queued

\* qi_lock is held by exactly the device thread that is inside its call.
LockDiscipline == \A d \in Devices : dpc[d] # "idle" <=> lock = d

\* The inductive invariant.
IInv ==
  /\ StateTypes
  /\ LockDiscipline
  /\ NoLostRequest
  /\ NoLostDelayedTrap
  /\ NoMissedWakeup
  /\ PromptDelivery
  /\ SeenStillQueued

\* The queue starts empty and every thread outside its calls.
LEMMA InitIInv == Init => IInv
<1>. SUFFICES ASSUME Init PROVE IInv
  OBVIOUS
<1>1. StateTypes
  BY InitTypes
<1>2. LockDiscipline
  BY DevicesAssumption DEF Init, LockDiscipline
<1>3. NoLostRequest /\ NoLostDelayedTrap /\ NoMissedWakeup /\ PromptDelivery
  BY DEF Init, NoLostRequest, NoLostDelayedTrap, NoMissedWakeup, PromptDelivery
<1>4. SeenStillQueued
  BY DEF Init, SeenStillQueued
<1>. QED
  BY <1>1, <1>2, <1>3, <1>4 DEF IInv

\* A device thread enters queue_interrupt.
LEMMA QueueLockIInv ==
  ASSUME IInv, NEW d \in Devices, NEW i \in Interrupts, QueueLock(d, i),
         StateTypes'
  PROVE  IInv'
<1>. USE DEF IInv, StateTypes, QueueLock
<1>1. LockDiscipline'
  BY DevicesAssumption DEF LockDiscipline
<1>2. InFlight' = InFlight
  BY DEF InFlight
<1>3. NoLostRequest'
  BY <1>2 DEF NoLostRequest
<1>4. NoLostDelayedTrap'
  BY DEF NoLostDelayedTrap
<1>5. NoMissedWakeup'
  BY DEF NoMissedWakeup, check_pending_interrupts, Deliverable
<1>6. PromptDelivery' /\ SeenStillQueued'
  BY DEF PromptDelivery, SeenStillQueued, Deliverable
<1>. QED
  BY <1>1, <1>3, <1>4, <1>5, <1>6

\* It inserts its request, which is in flight until it returns.
LEMMA QueueInsertIInv ==
  ASSUME IInv, NEW d \in Devices, QueueInsert(d), StateTypes'
  PROVE  IInv'
<1>. USE DEF IInv, StateTypes, QueueInsert
<1>1. LockDiscipline'
  BY DEF LockDiscipline
<1>2. InFlight \subseteq InFlight' /\ arg[d] \in InFlight'
  BY DEF InFlight
<1>3. NoLostRequest'
  BY <1>2 DEF NoLostRequest
<1>4. NoLostDelayedTrap'
  BY DEF NoLostDelayedTrap
<1>5. NoMissedWakeup'
  BY DEF NoMissedWakeup, check_pending_interrupts, Deliverable
<1>6. PromptDelivery'
  BY DEF PromptDelivery, SeenStillQueued, Deliverable
<1>7. SeenStillQueued'
  BY DEF SeenStillQueued
<1>. QED
  BY <1>1, <1>3, <1>4, <1>5, <1>6, <1>7

\* It notifies qi_cv: a sleeping CPU wakes up.
LEMMA QueueNotifyIInv ==
  ASSUME IInv, NEW d \in Devices, QueueNotify(d), StateTypes'
  PROVE  IInv'
<1>. USE DEF IInv, StateTypes, QueueNotify
<1>1. LockDiscipline'
  BY DEF LockDiscipline
<1>2. InFlight' = InFlight
  BY DEF InFlight
<1>3. NoLostRequest'
  BY <1>2 DEF NoLostRequest
<1>4. NoLostDelayedTrap'
  BY DEF NoLostDelayedTrap
<1>5. NoMissedWakeup'
  BY DEF NoMissedWakeup
<1>6. PromptDelivery' /\ SeenStillQueued'
  BY DEF PromptDelivery, SeenStillQueued, Deliverable
<1>. QED
  BY <1>1, <1>3, <1>4, <1>5, <1>6

\* It sets the hint and returns: its request now counts as announced.
LEMMA QueueSetHintIInv ==
  ASSUME IInv, NEW d \in Devices, QueueSetHint(d), StateTypes'
  PROVE  IInv'
<1>. USE DEF IInv, StateTypes, QueueSetHint
<1>1. LockDiscipline'
  BY DevicesAssumption DEF LockDiscipline
<1>2. NoLostRequest' /\ NoLostDelayedTrap'
  BY DEF NoLostRequest, NoLostDelayedTrap
<1>3. NoMissedWakeup'
  BY DEF NoMissedWakeup, check_pending_interrupts, Deliverable
<1>4. PromptDelivery' /\ SeenStillQueued'
  BY DEF PromptDelivery, SeenStillQueued, Deliverable
<1>. QED
  BY <1>1, <1>2, <1>3, <1>4

\* What the CPU steps share: the device threads stay where they are.
LEMMA CpuKeepsLock ==
  ASSUME LockDiscipline, UNCHANGED devVars
  PROVE  LockDiscipline' /\ InFlight' = InFlight
BY DEF LockDiscipline, InFlight, devVars

\* step() tests the hint: when it is clear, nothing was there to be seen.
LEMMA TestHintIInv ==
  ASSUME IInv, TestHint, StateTypes'
  PROVE  IInv'
<1>. USE DEF IInv, StateTypes, TestHint
<1>1. LockDiscipline' /\ InFlight' = InFlight
  BY CpuKeepsLock
<1>2. NoLostRequest'
  BY <1>1 DEF NoLostRequest
<1>3. NoLostDelayedTrap'
  BY DEF NoLostDelayedTrap
<1>4. NoMissedWakeup'
  BY DEF NoMissedWakeup
<1>5. SeenStillQueued'
  BY DEF SeenStillQueued
<1>6. PromptDelivery'
  BY DEF PromptDelivery, NoLostRequest
<1>. QED
  BY <1>1, <1>2, <1>3, <1>4, <1>5, <1>6

\* The delayed trap is taken at priority 7, the scan still comes.
LEMMA DelayedTrapIInv ==
  ASSUME IInv, DelayedTrap, StateTypes'
  PROVE  IInv'
<1>. USE DEF IInv, StateTypes, DelayedTrap
<1>1. LockDiscipline' /\ InFlight' = InFlight
  BY CpuKeepsLock
<1>2. NoLostRequest' /\ NoLostDelayedTrap' /\ NoMissedWakeup' /\ PromptDelivery'
  BY DEF NoLostRequest, NoLostDelayedTrap, NoMissedWakeup, PromptDelivery
<1>3. SeenStillQueued'
  BY DEF SeenStillQueued
<1>. QED
  BY <1>1, <1>2, <1>3

\* The scan takes a request or restores the hint for the masked ones.
LEMMA ScanIInv ==
  ASSUME IInv, Scan, StateTypes'
  PROVE  IInv'
<1>. USE DEF IInv, StateTypes
<1>1. ASSUME NEW i \in Interrupts, ScanTakes(i)
      PROVE  IInv'
  <2>. USE <1>1 DEF ScanTakes
  <2>1. LockDiscipline'
    BY CpuKeepsLock
  <2>2. NoLostRequest' /\ NoLostDelayedTrap' /\ NoMissedWakeup'
    BY DEF NoLostRequest, NoLostDelayedTrap, NoMissedWakeup
  <2>3. PromptDelivery' /\ SeenStillQueued'
    BY DEF PromptDelivery, SeenStillQueued
  <2>. QED
    BY <2>1, <2>2, <2>3
<1>2. CASE ScanTakesNone
  <2>. USE <1>2 DEF ScanTakesNone, HintAfterScan
  <2>1. LockDiscipline'
    BY CpuKeepsLock
  <2>2. NoLostRequest' /\ NoMissedWakeup'
    BY DEF NoLostRequest, NoMissedWakeup
  <2>3. NoLostDelayedTrap'
    BY DEF NoLostDelayedTrap
  <2>4. PromptDelivery' /\ SeenStillQueued'
    BY DEF PromptDelivery, SeenStillQueued, check_pending_interrupts, Deliverable
  <2>. QED
    BY <2>1, <2>2, <2>3, <2>4
<1>. QED
  BY <1>1, <1>2 DEF Scan

\* One instruction: what it queues or delays, it announces itself.
LEMMA InstructionIInv ==
  ASSUME IInv, Instruction, StateTypes'
  PROVE  IInv'
<1>. USE DEF Instruction, ExecSetPriority, ExecYellowPush, ExecQueue,
             ExecUnqueue, ExecReset, ExecWait
<1>. USE DEF IInv
<1>1. LockDiscipline' /\ InFlight' = InFlight
  BY CpuKeepsLock
<1>2. NoLostRequest'
  BY <1>1 DEF NoLostRequest
<1>3. NoLostDelayedTrap'
  BY DEF NoLostDelayedTrap
<1>4. NoMissedWakeup' /\ PromptDelivery' /\ SeenStillQueued'
  BY DEF NoMissedWakeup, PromptDelivery, SeenStillQueued
<1>. QED
  BY <1>1, <1>2, <1>3, <1>4

\* RESET empties the queue level by level.
LEMMA ClearIInv ==
  ASSUME IInv, Reset \/ ClearLevel, StateTypes'
  PROVE  IInv'
<1>. USE DEF IInv, Reset, ClearLevel
<1>1. LockDiscipline' /\ InFlight' = InFlight
  BY CpuKeepsLock
<1>2. NoLostRequest'
  BY <1>1 DEF NoLostRequest
<1>3. NoLostDelayedTrap'
  BY DEF NoLostDelayedTrap
<1>4. NoMissedWakeup' /\ PromptDelivery' /\ SeenStillQueued'
  BY DEF NoMissedWakeup, PromptDelivery, SeenStillQueued
<1>. QED
  BY <1>1, <1>2, <1>3, <1>4

\* The WAIT loop: it goes to sleep only when nothing is pending.
LEMMA WaitIInv ==
  ASSUME IInv, WaitLock \/ WaitTimeout \/ WaitRelock \/ WaitCheck, StateTypes'
  PROVE  IInv'
<1>. USE DEF IInv, WaitLock, WaitTimeout, WaitRelock, WaitCheck
<1>1. LockDiscipline' /\ InFlight' = InFlight
  BY CpuKeepsLock
<1>2. NoLostRequest'
  BY <1>1 DEF NoLostRequest
<1>3. NoLostDelayedTrap'
  BY DEF NoLostDelayedTrap
<1>4. NoMissedWakeup'
  BY DEF NoMissedWakeup, check_pending_interrupts, Deliverable
<1>5. PromptDelivery' /\ SeenStillQueued'
  BY DEF PromptDelivery, SeenStillQueued
<1>. QED
  BY <1>1, <1>2, <1>3, <1>4, <1>5

\* A step that changes nothing here keeps everything.
LEMMA StutterIInv ==
  ASSUME IInv, UNCHANGED vars
  PROVE  IInv'
BY DEF IInv, StateTypes, vars, LockDiscipline, NoLostRequest, InFlight,
       NoLostDelayedTrap, NoMissedWakeup, PromptDelivery, SeenStillQueued,
       check_pending_interrupts, Deliverable

\* Every step keeps the inductive invariant.
LEMMA NextIInv == IInv /\ [Next]_vars => IInv'
<1>. SUFFICES ASSUME IInv, [Next]_vars PROVE IInv'
  OBVIOUS
<1>. StateTypes'
  BY NextStateTypes DEF IInv
<1>1. ASSUME NEW d \in Devices, DeviceCall(d)
      PROVE  IInv'
  BY <1>1, QueueInsertIInv, QueueNotifyIInv, QueueSetHintIInv DEF DeviceCall
<1>2. CASE CpuStep
  BY <1>2, TestHintIInv, DelayedTrapIInv, ScanIInv, InstructionIInv, ClearIInv,
     WaitIInv DEF CpuStep
<1>. QED
  BY <1>1, <1>2, QueueLockIInv, ClearIInv, StutterIInv DEF Next

\* The parts of IInv hold together in every reachable state, for every set of
\* requests and device threads that share the queue of class cpu.
THEOREM Inductive == SafetySpec => []IInv
BY InitIInv, NextIInv, PTL DEF SafetySpec

(***************************************************************************)
(* No interrupt request is ever forgotten by the hint protocol of step(),  *)
(* execute_any_pending_interrupt() and queue_interrupt().                  *)
(***************************************************************************)
THEOREM NoRequestIsLost == SafetySpec => []NoLostRequest
<1>1. IInv => NoLostRequest
  BY DEF IInv
<1>. QED
  BY <1>1, Inductive, PTL

(***************************************************************************)
(* A yellow-zone trap is never left behind with the hint clear.            *)
(***************************************************************************)
THEOREM NoDelayedTrapIsLost == SafetySpec => []NoLostDelayedTrap
<1>1. IInv => NoLostDelayedTrap
  BY DEF IInv
<1>. QED
  BY <1>1, Inductive, PTL

(***************************************************************************)
(* The CPU does not sleep in WAIT beside a request it could take.          *)
(***************************************************************************)
THEOREM NoWakeupIsMissed == SafetySpec => []NoMissedWakeup
<1>1. IInv => NoMissedWakeup
  BY DEF IInv
<1>. QED
  BY <1>1, Inductive, PTL

(***************************************************************************)
(* A request queued before a step() began is taken before its instruction, *)
(* unless it is masked or another request is taken.                        *)
(***************************************************************************)
THEOREM DeliveryIsPrompt == SafetySpec => []PromptDelivery
<1>1. IInv => PromptDelivery
  BY DEF IInv
<1>. QED
  BY <1>1, Inductive, PTL

-----------------------------------------------------------------------------
(***************************************************************************)
(* The refinement.  An insertion is a Raise, a hint that is found set a    *)
(* BeginAccept, a scan a Take or an EndAccept, a RESET withdraws level by  *)
(* level, and the end of the WAIT loop is the EndWait step; everything     *)
(* else is invisible.                                                      *)
(***************************************************************************)
LEMMA StepRefines ==
  ASSUME StateTypes, [Next]_vars
  PROVE  [Abs!AbsNext]_(Abs!absVars)
<1>. USE DEF StateTypes, devVars, Abs!AbsNext, Abs!absVars
<1>1. ASSUME NEW d \in Devices, NEW i \in Interrupts, QueueLock(d, i)
      PROVE  UNCHANGED Abs!absVars
  BY <1>1 DEF QueueLock
<1>2. ASSUME NEW d \in Devices, QueueInsert(d)
      PROVE  \E i \in Interrupts : Abs!Raise(i)
  BY <1>2 DEF QueueInsert, Abs!Raise
<1>3. ASSUME NEW d \in Devices, QueueNotify(d) \/ QueueSetHint(d)
      PROVE  UNCHANGED Abs!absVars
  BY <1>3 DEF QueueNotify, QueueSetHint, WaitPcs
<1>4. CASE TestHint
  <2>1. CASE hint
    BY <1>4, <2>1 DEF TestHint, WaitPcs, Abs!BeginAccept
  <2>2. CASE ~hint
    BY <1>4, <2>2 DEF TestHint, WaitPcs
  <2>. QED
    BY <2>1, <2>2
<1>5. CASE DelayedTrap
  BY <1>5 DEF DelayedTrap, WaitPcs, Abs!ChangePriority
<1>6. ASSUME NEW i \in Interrupts, ScanTakes(i)
      PROVE  Abs!Take(i)
  BY <1>6 DEF ScanTakes, Abs!Take, Abs!NextToTake, Abs!Unmasked, Deliverable,
              Abs!RanksBefore, RanksBefore, WaitPcs
<1>7. CASE ScanTakesNone
  BY <1>7 DEF ScanTakesNone, WaitPcs, check_pending_interrupts, Deliverable,
              Abs!EndAccept, Abs!Unmasked
<1>8. ASSUME NEW l \in Levels, ExecSetPriority(l) \/ ExecYellowPush(l)
      PROVE  Abs!ChangePriority(l)
  BY <1>8 DEF ExecSetPriority, ExecYellowPush, WaitPcs, Abs!ChangePriority
<1>9. ASSUME NEW i \in Interrupts, ExecQueue(i)
      PROVE  Abs!Raise(i)
  BY <1>9 DEF ExecQueue, WaitPcs, Abs!Raise
<1>10. ASSUME NEW i \in Interrupts, ExecUnqueue(i)
       PROVE  Abs!Withdraw
  BY <1>10 DEF ExecUnqueue, WaitPcs, Abs!Withdraw
<1>11. CASE ExecReset
  BY <1>11 DEF ExecReset, WaitPcs
<1>12. CASE Reset
  BY <1>12 DEF Reset, WaitPcs, Abs!ChangePriority
<1>13. CASE ClearLevel
  BY <1>13 DEF ClearLevel, WaitPcs, Abs!Withdraw
<1>14. CASE ExecWait
  BY <1>14 DEF ExecWait, WaitPcs, Abs!BeginWait
<1>15. CASE WaitLock \/ WaitTimeout \/ WaitRelock
  BY <1>15 DEF WaitLock, WaitTimeout, WaitRelock, WaitPcs
<1>16. CASE WaitCheck
  BY <1>16 DEF WaitCheck, WaitPcs, check_pending_interrupts, Deliverable,
               Abs!EndWait, Abs!Unmasked
<1>17. CASE UNCHANGED vars
  BY <1>17 DEF vars
<1>. QED
  BY <1>1, <1>2, <1>3, <1>4, <1>5, <1>6, <1>7, <1>8, <1>9, <1>10, <1>11, <1>12,
     <1>13, <1>14, <1>15, <1>16, <1>17
     DEF Next, DeviceCall, CpuStep, Scan, Instruction, Levels

(***************************************************************************)
(* Queue, hint, lock and condition variable together implement the         *)
(* abstract interrupt controller, for every set of requests and threads.   *)
(***************************************************************************)
THEOREM ControllerIsImplemented == SafetySpec => ImplementsControllerSafely
<1>1. Init => Abs!AbsInit
  BY DEF Init, Abs!AbsInit, WaitPcs
<1>2. IInv /\ [Next]_vars => [Abs!AbsNext]_(Abs!absVars)
  BY StepRefines DEF IInv
<1>. QED
  BY <1>1, <1>2, Inductive, PTL
     DEF SafetySpec, ImplementsControllerSafely, Abs!AbsSafety
=============================================================================
