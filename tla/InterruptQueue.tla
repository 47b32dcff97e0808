--------------------------- MODULE InterruptQueue ---------------------------
(***************************************************************************)
(* The interrupt queue of class cpu (cpu.cpp) and the threads that share   *)
(* it.  Device threads (clock, console, DZ11, DC11, DEQNA) call            *)
(* queue_interrupt; the CPU thread runs step() in a loop: it exchanges the *)
(* any_queued_interrupts hint with false, scans the queue under qi_lock    *)
(* when the hint was set, and executes one instruction.  Instructions that *)
(* touch this state are modelled: those that change the priority, WAIT,    *)
(* RESET, the ones that store into a device register that raises or        *)
(* withdraws a request, and a push into the yellow stack zone.  A trap     *)
(* that faults while it is processed is module CpuTrap's subject.          *)
(*                                                                         *)
(* A critical section that no unlocked reader can observe is one step.     *)
(* The one of queue_interrupt is three: the CPU reads the hint (step) and  *)
(* the queue (the WAIT loop) and clears the queue (RESET) without qi_lock. *)
(***************************************************************************)
EXTENDS Naturals, FiniteSets

CONSTANTS Interrupts,   \* <<level, vector>> pairs the devices may raise
          Devices,      \* threads other than the CPU thread
          NoDevice      \* value of qi_lock when it is free

ASSUME InterruptsAssumption == Interrupts \subseteq (0..7) \X Nat
ASSUME DevicesAssumption == NoDevice \notin Devices

Levels == 0..7

VARIABLES queued,       \* queued_interrupts, as a set of <<level, vector>>
          hint,         \* any_queued_interrupts
          lock,         \* the thread that holds qi_lock
          dpc,          \* where each device thread is in queue_interrupt
          arg,          \* the request each device thread is queueing
          cpc,          \* where the CPU thread is
          spl,          \* getPSW_spl()
          delayed,      \* delayed_trap.has_value()
          clearing,     \* the level init_interrupt_queue is about to clear
          seen          \* history: requests whose queue_interrupt had
                        \* returned when this step() tested the hint

vars == <<queued, hint, lock, dpc, arg, cpc, spl, delayed, clearing, seen>>

devVars == <<lock, dpc, arg>>

DevicePcs == {"idle", "insert", "notify", "sethint"}

\* "test": top of step().  "delayed", "scan": step() found the hint set.
\* "exec": dispatch of one instruction.  "clear": init_interrupt_queue.
\* "wlock", "sleep", "wake", "wcheck": the WAIT loop.
WaitPcs == {"wlock", "sleep", "wake", "wcheck"}
CpuPcs == {"test", "delayed", "scan", "exec", "clear"} \cup WaitPcs

Deliverable(i) == i[1] > spl

RanksBefore(i, j) == i[1] < j[1] \/ (i[1] = j[1] /\ i[2] <= j[2])

\* check_pending_interrupts()
check_pending_interrupts == \E i \in queued : Deliverable(i)

Init ==
  /\ queued = {}
  /\ hint = FALSE
  /\ lock = NoDevice
  /\ dpc = [d \in Devices |-> "idle"]
  /\ arg \in [Devices -> Interrupts]
  /\ cpc = "test"
  /\ spl = 0
  /\ delayed = FALSE
  /\ clearing = 0
  /\ seen = {}

-----------------------------------------------------------------------------
(* queue_interrupt, called by a device thread.                             *)

QueueLock(d, i) ==
  /\ dpc[d] = "idle"
  /\ lock = NoDevice
  /\ lock' = d
  /\ dpc' = [dpc EXCEPT ![d] = "insert"]
  /\ arg' = [arg EXCEPT ![d] = i]
  /\ UNCHANGED <<queued, hint, cpc, spl, delayed, clearing, seen>>

QueueInsert(d) ==
  /\ dpc[d] = "insert"
  /\ queued' = queued \cup {arg[d]}
  /\ dpc' = [dpc EXCEPT ![d] = "notify"]
  /\ UNCHANGED <<hint, lock, arg, cpc, spl, delayed, clearing, seen>>

\* Mutant: queue_interrupt does not notify qi_cv.
QueueNotifyForgotten(d) ==
  /\ dpc[d] = "notify"
  /\ cpc' = cpc
  /\ dpc' = [dpc EXCEPT ![d] = "sethint"]
  /\ UNCHANGED <<queued, hint, lock, arg, spl, delayed, clearing, seen>>

\* qi_cv.notify_one(): only the CPU thread ever waits on it.
QueueNotify(d) ==
  /\ dpc[d] = "notify"
  /\ cpc' = IF cpc = "sleep" THEN "wake" ELSE cpc
  /\ dpc' = [dpc EXCEPT ![d] = "sethint"]
  /\ UNCHANGED <<queued, hint, lock, arg, spl, delayed, clearing, seen>>

\* The lock is dropped at the end of the scope, after the hint is set.
QueueSetHint(d) ==
  /\ dpc[d] = "sethint"
  /\ hint' = TRUE
  /\ lock' = NoDevice
  /\ dpc' = [dpc EXCEPT ![d] = "idle"]
  /\ UNCHANGED <<queued, arg, cpc, spl, delayed, clearing, seen>>

-----------------------------------------------------------------------------
(* cpu::step() up to the fetch of the instruction.                         *)

\* Requests that a device thread has inserted but not yet announced.
InFlight == {arg[d] : d \in {e \in Devices : dpc[e] \in {"notify", "sethint"}}}

\* any_queued_interrupts.exchange(false)
TestHint ==
  /\ cpc = "test"
  /\ hint' = FALSE
  /\ cpc' = IF ~hint THEN "exec" ELSE IF delayed THEN "delayed" ELSE "scan"
  /\ seen' = queued \ InFlight
  /\ UNCHANGED <<queued, devVars, spl, delayed, clearing>>

\* trap(delayed_trap.value(), 7); delayed_trap.reset().  The pushes of the
\* trap may touch the yellow zone again: the hint is set, the trap dropped.
DelayedTrap ==
  /\ cpc = "delayed"
  /\ spl' = 7
  /\ delayed' = FALSE
  /\ hint' \in {hint, TRUE}
  /\ cpc' = "scan"
  /\ UNCHANGED <<queued, devVars, clearing, seen>>

\* Mutant: the trap is taken without new_ipl.
ScanTakesKeepsPriority(i) ==
  /\ cpc = "scan"
  /\ lock = NoDevice
  /\ i \in queued
  /\ Deliverable(i)
  /\ \A j \in queued : Deliverable(j) => RanksBefore(i, j)
  /\ queued' = queued \ {i}
  /\ spl' = spl
  /\ hint' = TRUE
  /\ delayed' \in {delayed, TRUE}
  /\ seen' = {}
  /\ cpc' = "exec"
  /\ UNCHANGED <<devVars, clearing>>

\* execute_any_pending_interrupt() finds a request above the priority.  The
\* pushes of its trap may touch the yellow zone.
ScanTakes(i) ==
  /\ cpc = "scan"
  /\ lock = NoDevice
  /\ i \in queued
  /\ Deliverable(i)
  /\ \A j \in queued : Deliverable(j) => RanksBefore(i, j)
  /\ queued' = queued \ {i}
  /\ spl' = i[1]
  /\ hint' = TRUE
  /\ delayed' \in {delayed, TRUE}
  /\ seen' = {}
  /\ cpc' = "exec"
  /\ UNCHANGED <<devVars, clearing>>

\* Mutant: line 314 sits behind the test of the level.
HintForgotten == hint

HintAfterScan == hint \/ queued # {}

\* Mutant: the scan ends before level 6.
ScanTakesNoneShort ==
  /\ cpc = "scan"
  /\ lock = NoDevice
  /\ \A i \in queued : Deliverable(i) => i[1] >= 6
  /\ hint' = HintAfterScan
  /\ cpc' = "exec"
  /\ UNCHANGED <<queued, devVars, spl, delayed, clearing, seen>>

\* It finds none, but remembers that masked requests are still queued.
ScanTakesNone ==
  /\ cpc = "scan"
  /\ lock = NoDevice
  /\ ~check_pending_interrupts
  /\ hint' = HintAfterScan
  /\ cpc' = "exec"
  /\ UNCHANGED <<queued, devVars, spl, delayed, clearing, seen>>

-----------------------------------------------------------------------------
(* One instruction.                                                        *)

\* No effect on this state, or SPL, RTI, RTT, a trap, a store into the PSW.
ExecSetPriority(l) ==
  /\ cpc = "exec"
  /\ spl' = l
  /\ cpc' = "test"
  /\ UNCHANGED <<queued, hint, devVars, delayed, clearing, seen>>

\* Mutant: push_stack does not set the hint.
ExecYellowPushSilent(l) ==
  /\ cpc = "exec"
  /\ spl' = l
  /\ delayed' = TRUE
  /\ hint' = hint
  /\ cpc' = "test"
  /\ UNCHANGED <<queued, devVars, clearing, seen>>

\* push_stack in the yellow zone, by JSR, a move to a previous space's stack
\* or a trap (which also sets the priority).
ExecYellowPush(l) ==
  /\ cpc = "exec"
  /\ spl' = l
  /\ delayed' = TRUE
  /\ hint' = TRUE
  /\ cpc' = "test"
  /\ UNCHANGED <<queued, devVars, clearing, seen>>

\* A store into a device register that calls queue_interrupt.
ExecQueue(i) ==
  /\ cpc = "exec"
  /\ lock = NoDevice
  /\ queued' = queued \cup {i}
  /\ hint' = TRUE
  /\ cpc' = "test"
  /\ UNCHANGED <<devVars, spl, delayed, clearing, seen>>

\* A store into a device register that calls unqueue_interrupt.
ExecUnqueue(i) ==
  /\ cpc = "exec"
  /\ lock = NoDevice
  /\ queued' = queued \ {i}
  /\ cpc' = "test"
  /\ UNCHANGED <<hint, devVars, spl, delayed, clearing, seen>>

\* RESET in kernel mode: init_interrupt_queue() without qi_lock.
ExecReset ==
  /\ cpc = "exec"
  /\ clearing' = 0
  /\ cpc' = "clear"
  /\ UNCHANGED <<queued, hint, devVars, spl, delayed, seen>>

\* cpu::reset(), from the debugger, between two instructions.
Reset ==
  /\ cpc = "test"
  /\ spl' = 0
  /\ clearing' = 0
  /\ cpc' = "clear"
  /\ UNCHANGED <<queued, hint, devVars, delayed, seen>>

ClearLevel ==
  /\ cpc = "clear"
  /\ queued' = {i \in queued : i[1] # clearing}
  /\ clearing' = (clearing + 1) % 8
  /\ cpc' = IF clearing = 7 THEN "test" ELSE "clear"
  /\ UNCHANGED <<hint, devVars, spl, delayed, seen>>

ExecWait ==
  /\ cpc = "exec"
  /\ cpc' = "wlock"
  /\ UNCHANGED <<queued, hint, devVars, spl, delayed, clearing, seen>>

\* Under qi_lock: wait_for when nothing is pending, which releases the lock.
WaitLock ==
  /\ cpc = "wlock"
  /\ lock = NoDevice
  /\ cpc' = IF check_pending_interrupts THEN "wcheck" ELSE "sleep"
  /\ UNCHANGED <<queued, hint, devVars, spl, delayed, clearing, seen>>

\* 100 ms have passed.
WaitTimeout ==
  /\ cpc = "sleep"
  /\ cpc' = "wake"
  /\ UNCHANGED <<queued, hint, devVars, spl, delayed, clearing, seen>>

\* wait_for takes the lock again, lck.unlock() drops it.
WaitRelock ==
  /\ cpc = "wake"
  /\ lock = NoDevice
  /\ cpc' = "wcheck"
  /\ UNCHANGED <<queued, hint, devVars, spl, delayed, clearing, seen>>

\* Mutant: the WAIT loop skips the level above the priority.
WaitCheckOffByOne ==
  /\ cpc = "wcheck"
  /\ cpc' = IF \E i \in queued : i[1] > spl + 1 THEN "test" ELSE "wlock"
  /\ UNCHANGED <<queued, hint, devVars, spl, delayed, clearing, seen>>

\* while(check_pending_interrupts() == false), without the lock.
WaitCheck ==
  /\ cpc = "wcheck"
  /\ cpc' = IF check_pending_interrupts THEN "test" ELSE "wlock"
  /\ UNCHANGED <<queued, hint, devVars, spl, delayed, clearing, seen>>

-----------------------------------------------------------------------------
DeviceCall(d) == QueueInsert(d) \/ QueueNotify(d) \/ QueueSetHint(d)

Scan == ScanTakesNone \/ \E i \in Interrupts : ScanTakes(i)

Instruction ==
  \/ \E l \in Levels : ExecSetPriority(l) \/ ExecYellowPush(l)
  \/ \E i \in Interrupts : ExecQueue(i) \/ ExecUnqueue(i)
  \/ ExecReset
  \/ ExecWait

CpuStep ==
  \/ TestHint \/ DelayedTrap \/ Scan \/ Instruction \/ ClearLevel
  \/ WaitLock \/ WaitTimeout \/ WaitRelock \/ WaitCheck

Next ==
  \/ \E d \in Devices : \E i \in Interrupts : QueueLock(d, i)
  \/ \E d \in Devices : DeviceCall(d)
  \/ CpuStep
  \/ Reset

(***************************************************************************)
(* A thread inside queue_interrupt finishes it, and the CPU thread keeps   *)
(* running.  Devices need not raise anything.  qi_lock is requested by a   *)
(* handful of threads that hold it for a few instructions and then do      *)
(* other work, so a thread that keeps asking for it gets it: strong        *)
(* fairness for the steps that acquire it.                                 *)
(***************************************************************************)
Fairness ==
  /\ \A d \in Devices : WF_vars(DeviceCall(d))
  /\ WF_vars(CpuStep)
  /\ SF_vars(Scan)
  /\ SF_vars(WaitLock)
  /\ SF_vars(WaitRelock)

SafetySpec == Init /\ [][Next]_vars
Spec == SafetySpec /\ Fairness

-----------------------------------------------------------------------------
TypeOK ==
  /\ queued \subseteq Interrupts
  /\ hint \in BOOLEAN
  /\ lock \in Devices \cup {NoDevice}
  /\ dpc \in [Devices -> DevicePcs]
  /\ arg \in [Devices -> Interrupts]
  /\ cpc \in CpuPcs
  /\ spl \in Levels
  /\ delayed \in BOOLEAN
  /\ clearing \in Levels
  /\ seen \subseteq Interrupts

(***************************************************************************)
(* No request is forgotten: as long as the queue holds a request whose     *)
(* queue_interrupt has returned, the hint is set or the scan it triggered  *)
(* is still to come.  Otherwise step() would never look again              *)
(* (cpu.cpp:2714 exchanges the hint before the scan, 314 restores it).     *)
(***************************************************************************)
NoLostRequest ==
  queued \ InFlight # {} => hint \/ cpc \in {"delayed", "scan"}

(***************************************************************************)
(* No yellow-zone trap is forgotten: delayed_trap is only looked at when   *)
(* the hint is set (cpu.cpp:2716), so a pending one implies the hint.      *)
(***************************************************************************)
NoLostDelayedTrap == delayed /\ cpc # "delayed" => hint

(***************************************************************************)
(* The CPU never sleeps in WAIT next to a request it could take, except    *)
(* while the thread that queued it is about to notify (cpu.cpp:1515-1517). *)
(* A missed wakeup would only show as a latency of up to 100 ms.           *)
(***************************************************************************)
NoMissedWakeup ==
  cpc = "sleep" /\ check_pending_interrupts =>
    \E d \in Devices : dpc[d] = "notify"

(***************************************************************************)
(* Interrupts are precise to the instruction: when an instruction starts,  *)
(* every request whose queue_interrupt had returned before this step()     *)
(* began is masked, unless this step() has just taken another request.     *)
(***************************************************************************)
PromptDelivery ==
  cpc = "exec" => \A i \in seen \cap queued : ~Deliverable(i)

\* What the declaration of check_pending_interrupts says (cpu.h:82): "needs
\* the 'qi_lock'-lock".  The WAIT loop evaluates it after lck.unlock().
CheckedUnderLock == cpc = "wcheck" => lock = NoDevice

\* A WAIT that has a request to take ends: execution goes on.
WaitEnds ==
  (cpc \in WaitPcs /\ check_pending_interrupts) ~> (cpc = "test")

-----------------------------------------------------------------------------
Abs == INSTANCE InterruptController
         WITH pending   <- queued,
              priority  <- spl,
              waiting   <- cpc \in WaitPcs,
              accepting <- cpc \in {"delayed", "scan"}

\* The queue, its hint, its lock and its condition variable implement the
\* abstract interrupt controller, liveness included.
ImplementsController == Abs!AbsSpec

\* The safety half of the same refinement.
ImplementsControllerSafely == Abs!AbsSafety
=============================================================================
