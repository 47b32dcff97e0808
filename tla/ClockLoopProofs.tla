---------------------------- MODULE ClockLoopProofs --------------------------
(***************************************************************************)
(* The line clock and the run loop, which share the running flag of the    *)
(* console: the run loop sets it, the clock's timer thread looks at it.    *)
(*                                                                         *)
(* LineClock: its three promises, and what a tick may still do after the   *)
(* program or the debugger has turned the clock off.  None of the three is *)
(* inductive alone: each of them depends on where the timer thread stands  *)
(* between its critical sections when the register, the running flag or    *)
(* the queue changes.                                                      *)
(*                                                                         *)
(* RunLoop: what can be proved without fairness, for every number of keys  *)
(* and signals, namely the halves of its liveness properties that say what *)
(* no interleaving of the five parties does.  An event that stops a run or *)
(* ends the program is not taken away, and only a ^e is written over the   *)
(* last TERMINATE; main() waits for each thread in its turn; the console   *)
(* knows of every run.                                                     *)
(***************************************************************************)
EXTENDS LineClock, SequenceTheorems, TLAPS

CONSTANTS Keys, MaxKeys, MaxSignals
VARIABLES event, input, dpc, cmd, turbo, kpc, key, saw, ppc, mpc, typed, signals

Loop == INSTANCE RunLoop

\* The bounds of RunLoop are numbers.
LoopBounds == MaxKeys \in Nat /\ MaxSignals \in Nat

-----------------------------------------------------------------------------
(* The line clock.                                                         *)

\* The interrupts that can still be delivered after the enable bit went:
\* one in the queue, and one that the timer thread is about to queue.
Outstanding == queued + (IF tpc = "queue" THEN 1 ELSE 0)

\* Those that were delivered late and those still to come are two at most.
LateBudget == "enable" \notin lf_csr => late + Outstanding <= 2

\* One tick at most outlives the run.
TickBudget ==
  /\ running => since = 0
  /\ since + (IF tpc = "sleep" THEN 0 ELSE 1) <= 1

\* From set_lf_crs_b7 on, bit 7 is set unless the program wrote it away.
Marked ==
  tpc \in {"test", "queue"} \/ queued = 1 => "monitor" \in lf_csr \/ wrote = 1

\* Nothing is late while interrupts are enabled.
NoneLateWhileEnabled == "enable" \in lf_csr => late = 0

IInv ==
  TypeOK /\ LateBudget /\ NoneLateWhileEnabled /\ TickBudget /\ Marked

\* The promises hold in the initial states.
LEMMA InitIInv == Init => IInv
  <1> SUFFICES ASSUME Init PROVE IInv
    OBVIOUS
  <1> USE DEF Init
  <1>1. TypeOK
    <2>1. lf_csr \subseteq Bits
      OBVIOUS
    <2>2. late \in 0..Many /\ since \in 0..Many
      BY DEF Many
    <2> QED BY <2>1, <2>2 DEF TypeOK
  <1>2. LateBudget /\ NoneLateWhileEnabled
    BY DEF LateBudget, NoneLateWhileEnabled, Outstanding
  <1>3. TickBudget /\ Marked
    BY DEF TickBudget, Marked
  <1> QED BY <1>1, <1>2, <1>3 DEF IInv

\* What the budgets leave is what the run checks.
LEMMA IInvBounds == IInv => InterruptsFollowTheClock
  <1> SUFFICES ASSUME IInv PROVE InterruptsFollowTheClock
    OBVIOUS
  <1> USE DEF IInv, TypeOK, Many
  <1>1. LateInterruptsBounded
    BY DEF LateBudget, Outstanding, NoneLateWhileEnabled, LateInterruptsBounded
  <1>2. QuietWhenStopped
    BY DEF TickBudget, QuietWhenStopped
  <1>3. InterruptIsMarked
    BY DEF Marked, InterruptIsMarked
  <1> QED BY <1>1, <1>2, <1>3 DEF InterruptsFollowTheClock

\* Every step of the timer thread keeps the promises.
LEMMA TimerIInv ==
  ASSUME IInv, Timer
  PROVE  IInv'
  <1> USE DEF IInv, TypeOK, LateBudget, Outstanding, NoneLateWhileEnabled,
              TickBudget, Marked, Bits, Many
  <1>1. CASE Tick
    BY <1>1 DEF Tick
  <1>2. CASE SetMonitor
    BY <1>2 DEF SetMonitor
  <1>3. CASE TestEnable
    BY <1>3 DEF TestEnable
  <1>4. CASE Queue
    BY <1>4 DEF Queue, AtMost
  <1> QED BY <1>1, <1>2, <1>3, <1>4 DEF Timer

\* So does every step of the CPU thread and of the debugger.
LEMMA CpuIInv ==
  ASSUME IInv,
         \/ \E v \in SUBSET Bits : write_word(v)
         \/ reset \/ ClearQueue \/ Take \/ SetRunning
  PROVE  IInv'
  <1> USE DEF IInv, TypeOK, LateBudget, Outstanding, NoneLateWhileEnabled,
              TickBudget, Marked, Bits, Many
  <1>1. ASSUME NEW v \in SUBSET Bits, write_word(v)
        PROVE  IInv'
    BY <1>1 DEF write_word
  <1>2. CASE reset
    BY <1>2 DEF reset
  <1>3. CASE ClearQueue
    BY <1>3 DEF ClearQueue
  <1>4. CASE Take
    BY <1>4 DEF Take, AtMost
  <1>5. CASE SetRunning
    BY <1>5 DEF SetRunning
  <1> QED BY <1>1, <1>2, <1>3, <1>4, <1>5

\* The promises are kept for ever.
LEMMA IInvAlways == Spec => []IInv
  <1>1. IInv /\ [Next]_vars => IInv'
    <2> SUFFICES ASSUME IInv, [Next]_vars PROVE IInv'
      OBVIOUS
    <2>1. CASE UNCHANGED vars
      BY <2>1 DEF vars, IInv, TypeOK, LateBudget, Outstanding,
                  NoneLateWhileEnabled, TickBudget, Marked
    <2> QED BY <2>1, TimerIInv, CpuIInv DEF Next
  <1> QED BY <1>1, InitIInv, PTL DEF Spec

(***************************************************************************)
(* The clock's variables keep their types: the counters of late interrupts *)
(* and of ticks after the end of a run stay inside their bounds.           *)
(***************************************************************************)
THEOREM TypeCorrect == Spec => []TypeOK
  <1>1. IInv => TypeOK
    BY DEF IInv
  <1> QED BY <1>1, IInvAlways, PTL

(***************************************************************************)
(* Whatever the order in which the program writes the register or executes *)
(* RESET, the debugger stops the run and the timer thread goes through     *)
(* do_interrupt (kw11-l.cpp:143-215): at most two interrupts come late, at *)
(* most one tick outlives the run and a queued interrupt has its bit 7.    *)
(***************************************************************************)
THEOREM FollowsTheClock == Spec => []InterruptsFollowTheClock
  BY IInvAlways, IInvBounds, PTL

-----------------------------------------------------------------------------
(* The run loop.                                                           *)

\* A key that the console thread has read and not yet acted upon.
Pending == IF kpc \in {"look", "act"} THEN 1 ELSE 0

\* Every token of the input buffer was typed, and so was the key in hand.
KeysAreCounted ==
  /\ Len(input) + Pending <= typed
  /\ kpc \in {"look", "act"} => key \in Keys

\* The debugger thread executes the command that it says it does.
CommandIsKnown ==
  /\ dpc \in Loop!Commands => cmd = dpc
  /\ Loop!InRun \/ dpc \in {"flag", "unflag"} => cmd \in {"go", "single"}

\* The console is told of every run (debugger.cpp:1818): a ^e that it looks at
\* while instructions are executed is not taken for input (console.cpp:365).
RunIsFlagged == Loop!InRun \/ dpc = "unflag" => running

\* When the debugger thread has ended there is an event that ends the event
\* loop of the main thread as well.
EndIsSeen == dpc = "ended" => event # "none"

\* main() joins the debugger thread before it stops the console thread, both
\* before it deletes the bus (main.cpp:832), and the panel thread, which may
\* still look at the bus, only after that (console_posix.cpp:72).
CleanUpIsLast ==
  /\ mpc \in {"stopping", "deleting", "gone"} => dpc = "ended"
  /\ mpc \in {"deleting", "gone"} => kpc = "ended"
  /\ mpc = "gone" => ppc = "ended"

\* Nothing but a ^e is written over the TERMINATE that main() stores at the end
\* (main.cpp:838), and a panel thread that main() waits for without having been
\* told to stop will see that TERMINATE or never end.
LastEventKept ==
  mpc \in {"stopping", "deleting", "gone"} => event \in {"terminate", "interrupt"}

\* The inductive invariant of the run loop.
LoopIInv ==
  /\ Loop!TypeOK /\ KeysAreCounted /\ CommandIsKnown
  /\ RunIsFlagged /\ EndIsSeen /\ CleanUpIsLast /\ LastEventKept

\* Only a command of the operator takes an event away: no instruction, no key,
\* no signal and no end of a run does, so that what was set in a run is seen by
\* the next test of the loop (debugger.cpp:1821, 1833), and what was set after the
\* prompt was left is seen by the main thread.
EventStays ==
  [][event # "none" /\ event' = "none" => dpc \in {"go", "single", "reset"}]_(Loop!vars)

USE DEF LoopBounds

LEMMA LoopInitIInv ==
  ASSUME LoopBounds, Loop!Init
  PROVE  LoopIInv
  <1>1. input = <<>> /\ Len(input) = 0 /\ input \in Seq(Keys)
    BY DEF Loop!Init
  <1>2. input \in Seq(Keys) /\ Len(input) <= MaxKeys
    BY <1>1
  <1>3. dpc = "check" /\ event = "none" /\ cmd = "none" /\ key = "none"
        /\ kpc = "test" /\ mpc = "ui" /\ ppc = "runs" /\ running \in BOOLEAN /\ turbo \in BOOLEAN
        /\ saw \in BOOLEAN /\ typed = 0 /\ signals = 0
    BY DEF Loop!Init
  <1>4. Loop!TypeOK
    BY <1>2, <1>3 DEF Loop!TypeOK, Loop!Events
  <1> QED
    BY <1>1, <1>3, <1>4 DEF LoopIInv, KeysAreCounted, Pending, CommandIsKnown, RunIsFlagged,
       Loop!InRun, EndIsSeen, CleanUpIsLast, LastEventKept, Loop!Commands

\* What is left when the first token is taken.
LEMMA TakenInput ==
  ASSUME input \in Seq(Keys), input # <<>>
  PROVE  Tail(input) \in Seq(Keys) /\ Len(Tail(input)) = Len(input) - 1 /\ Head(input) \in Keys
  BY HeadTailProperties

\* What every step of the debugger thread leaves alone.
LEMMA DebuggerLeaves ==
  ASSUME Loop!Debugger \/ Loop!WaitEnds
  PROVE  UNCHANGED <<kpc, key, saw, mpc, typed, signals>> /\ ppc' \in {ppc, "told"}
         /\ (ppc = "ended" => ppc' = "ended")
  BY DEF Loop!Debugger, Loop!Prompt, Loop!Emulation, Loop!WaitEnds, Loop!Check,
         Loop!ReadGivesUp, Loop!ReadCommand, Loop!GoOrSingle, Loop!ResetCommand,
         Loop!TurboCommand, Loop!PanelCommand, Loop!TestCommand, Loop!QuitCommand,
         Loop!End, Loop!Flag, Loop!LoopTest, Loop!Breakpoint, Loop!Fetch, Loop!FetchThrows,
         Loop!Step, Loop!StepHalt,
         Loop!StepWait, Loop!Unflag, Loop!cons, Loop!world

\* Nothing is put into the input buffer by the debugger thread.
LEMMA DebuggerInput ==
  ASSUME Loop!TypeOK, Loop!Debugger \/ Loop!WaitEnds
  PROVE  input' \in Seq(Keys) /\ Len(input') \in Nat /\ Len(input') <= Len(input)
  <1>1. input \in Seq(Keys) /\ Len(input) \in Nat
    BY DEF Loop!TypeOK
  <1>2. UNCHANGED input \/ (input # <<>> /\ input' = Tail(input)) \/ input' = <<>>
    BY DEF Loop!Debugger, Loop!Prompt, Loop!Emulation, Loop!WaitEnds, Loop!Check,
           Loop!ReadGivesUp, Loop!ReadCommand, Loop!GoOrSingle, Loop!ResetCommand,
           Loop!TurboCommand, Loop!PanelCommand, Loop!TestCommand, Loop!QuitCommand,
           Loop!End, Loop!Flag, Loop!LoopTest, Loop!Breakpoint, Loop!Fetch, Loop!FetchThrows,
           Loop!Step,
           Loop!StepHalt, Loop!StepWait, Loop!Unflag
  <1>3. CASE input # <<>> /\ input' = Tail(input)
    BY <1>1, <1>3, TakenInput
  <1>4. CASE input' = <<>>
    BY <1>1, <1>4
  <1> QED  BY <1>1, <1>2, <1>3, <1>4

\* Where the debugger thread is, and with which command.
LEMMA DebuggerPlace ==
  ASSUME LoopIInv, Loop!Debugger \/ Loop!WaitEnds
  PROVE  /\ event' \in Loop!Events /\ running' \in BOOLEAN /\ turbo' \in BOOLEAN
         /\ dpc' \in Loop!Commands \cup {"check", "read", "flag", "loop", "fetch", "step", "wait",
                                    "unflag", "end", "ended"}
         /\ cmd' \in Loop!Commands \cup {"none"}
         /\ CommandIsKnown' /\ RunIsFlagged' /\ EndIsSeen'
         /\ dpc # "ended"
  <1> USE DEF LoopIInv, Loop!TypeOK, CommandIsKnown, RunIsFlagged, EndIsSeen, Loop!InRun,
              Loop!Events, Loop!Commands
  <1>1. CASE Loop!Check
    BY <1>1 DEF Loop!Check
  <1>2. CASE Loop!ReadGivesUp
    BY <1>2 DEF Loop!ReadGivesUp
  <1>3. CASE Loop!ReadCommand
    BY <1>3 DEF Loop!ReadCommand
  <1>4. CASE Loop!GoOrSingle
    BY <1>4 DEF Loop!GoOrSingle
  <1>5. CASE Loop!ResetCommand \/ Loop!TurboCommand \/ Loop!PanelCommand \/ Loop!TestCommand
    BY <1>5 DEF Loop!ResetCommand, Loop!TurboCommand, Loop!PanelCommand, Loop!TestCommand
  <1>6. CASE Loop!QuitCommand
    BY <1>6 DEF Loop!QuitCommand
  <1>7. CASE Loop!End
    BY <1>7 DEF Loop!End
  <1>8. CASE Loop!Flag \/ Loop!LoopTest \/ Loop!Unflag
    BY <1>8 DEF Loop!Flag, Loop!LoopTest, Loop!Unflag
  <1>9. CASE Loop!Breakpoint \/ Loop!Fetch \/ Loop!FetchThrows
    BY <1>9 DEF Loop!Breakpoint, Loop!Fetch, Loop!FetchThrows
  <1>10. CASE Loop!Step \/ Loop!StepHalt
    BY <1>10 DEF Loop!Step, Loop!StepHalt, Loop!AfterStep
  <1>11. CASE Loop!StepWait \/ Loop!WaitEnds
    BY <1>11 DEF Loop!StepWait, Loop!WaitEnds, Loop!AfterStep
  <1> QED
    BY <1>1, <1>2, <1>3, <1>4, <1>5, <1>6, <1>7, <1>8, <1>9, <1>10, <1>11
       DEF Loop!Debugger, Loop!Prompt, Loop!Emulation

LEMMA DebuggerIInv ==
  ASSUME LoopBounds, LoopIInv, Loop!Debugger \/ Loop!WaitEnds
  PROVE  LoopIInv'
  <1>1. input' \in Seq(Keys) /\ Len(input') \in Nat /\ Len(input') <= Len(input)
    BY DebuggerInput DEF LoopIInv
  <1>2. UNCHANGED <<kpc, key, saw, mpc, typed, signals>> /\ ppc' \in {ppc, "told"}
    BY DebuggerLeaves
  <1>3. Loop!TypeOK'
    <2>1. ppc' \in {"runs", "told", "ended"}
      BY <1>2 DEF LoopIInv, Loop!TypeOK
    <2>2. /\ kpc' \in {"test", "key", "look", "act", "ended"} /\ key' \in Keys \cup {"none"}
          /\ saw' \in BOOLEAN /\ mpc' \in {"ui", "join", "stopping", "deleting", "gone"}
          /\ typed' \in 0..MaxKeys /\ signals' \in 0..MaxSignals
      BY <1>2 DEF LoopIInv, Loop!TypeOK
    <2>3. Len(input') <= MaxKeys
      BY <1>1 DEF LoopIInv, Loop!TypeOK
    <2> QED  BY <1>1, <2>1, <2>2, <2>3, DebuggerPlace DEF Loop!TypeOK
  <1>4. KeysAreCounted'
    BY <1>1, <1>2 DEF LoopIInv, Loop!TypeOK, KeysAreCounted, Pending
  <1>5. CleanUpIsLast' /\ LastEventKept'
    BY <1>2, DebuggerLeaves, DebuggerPlace DEF LoopIInv, CleanUpIsLast, LastEventKept, Loop!TypeOK
  <1> QED  BY <1>3, <1>4, <1>5, DebuggerPlace DEF LoopIInv

\* A key that is in hand becomes an event or the last token of the input.
LEMMA ConsoleActs ==
  ASSUME Loop!ConsoleAct
  PROVE  \/ event' \in {"terminate", "interrupt"} /\ UNCHANGED input
         \/ input' = Append(input, key) /\ UNCHANGED event
  <1>1. CASE ~saw /\ key = "^c"
    BY <1>1 DEF Loop!ConsoleAct
  <1>2. CASE saw /\ key = "^e"
    BY <1>2 DEF Loop!ConsoleAct
  <1>3. CASE ~(~saw /\ key = "^c") /\ ~(saw /\ key = "^e")
    BY <1>3 DEF Loop!ConsoleAct
  <1> QED  BY <1>1, <1>2, <1>3

LEMMA ConsoleIInv ==
  ASSUME LoopBounds, LoopIInv, Loop!Console \/ \E k \in Keys : Loop!ConsoleKey(k)
  PROVE  LoopIInv'
  <1>0. Loop!Console \/ \E k \in Keys : Loop!ConsoleKey(k)
    OBVIOUS
  <1> USE DEF LoopIInv, Loop!TypeOK, KeysAreCounted, Pending, CommandIsKnown, RunIsFlagged,
              EndIsSeen, Loop!InRun, CleanUpIsLast, LastEventKept, Loop!Events, Loop!debug,
              Loop!world
  <1>1. CASE Loop!ConsoleTest \/ Loop!ConsoleTimeout
    BY <1>1 DEF Loop!ConsoleTest, Loop!ConsoleTimeout
  <1>2. CASE Loop!ConsoleLook
    BY <1>2 DEF Loop!ConsoleLook
  <1>3. ASSUME NEW k \in Keys, Loop!ConsoleKey(k)  PROVE LoopIInv'
    BY <1>3 DEF Loop!ConsoleKey
  <1>4. CASE Loop!ConsoleAct
    <2>0. MaxKeys \in Nat
      OBVIOUS
    <2>1. /\ kpc = "act" /\ kpc' = "test" /\ key' = "none" /\ saw' \in BOOLEAN
          /\ UNCHANGED <<running, dpc, cmd, turbo, ppc, mpc, typed, signals>>
      BY <1>4 DEF Loop!ConsoleAct
    <2>2. key \in Keys /\ Len(input) + 1 <= typed /\ typed \in Nat /\ typed <= MaxKeys
      BY <2>1
    <2>3. \/ event' \in {"terminate", "interrupt"} /\ UNCHANGED input
          \/ input' = Append(input, key) /\ UNCHANGED event
      BY <1>4, ConsoleActs
    <2>4. input \in Seq(Keys) /\ Len(input) \in Nat
      OBVIOUS
    <2>5. input' \in Seq(Keys) /\ Len(input') \in Nat /\ Len(input') <= Len(input) + 1
      BY ONLY <2>2, <2>3, <2>4
    <2>6. event' \in Loop!Events /\ (event # "none" => event' # "none")
      BY <2>3
    <2>7. Loop!TypeOK' /\ KeysAreCounted'
      <3>1. running' \in BOOLEAN /\ turbo' \in BOOLEAN /\ saw' \in BOOLEAN
        BY <2>1
      <3>2. Len(input') <= typed'
        BY ONLY <2>1, <2>2, <2>5
      <3>3. Len(input') <= MaxKeys
        BY ONLY <2>0, <2>2, <2>5
      <3>4. KeysAreCounted'
        BY <2>1, <3>2
      <3> HIDE DEF KeysAreCounted
      <3> QED  BY <2>1, <2>5, <2>6, <3>1, <3>3, <3>4
    <2>8. CommandIsKnown' /\ RunIsFlagged' /\ EndIsSeen' /\ CleanUpIsLast'
      BY <2>1, <2>6
    <2>9. LastEventKept'
      BY <2>1, <2>3
    <2> HIDE DEF Loop!TypeOK, KeysAreCounted, CommandIsKnown, RunIsFlagged, EndIsSeen,
                 CleanUpIsLast, LastEventKept
    <2> QED  BY <2>7, <2>8, <2>9
  <1> HIDE DEF LoopIInv
  <1> QED  BY ONLY <1>0, <1>1, <1>2, <1>3, <1>4 DEF Loop!Console

LEMMA MainIInv ==
  ASSUME LoopBounds, LoopIInv, Loop!PanelEnds \/ Loop!Main \/ Loop!Signal
  PROVE  LoopIInv'
  <1> USE DEF LoopIInv, Loop!TypeOK, KeysAreCounted, Pending, CommandIsKnown, RunIsFlagged,
              EndIsSeen, Loop!InRun, CleanUpIsLast, LastEventKept, Loop!Events, Loop!debug,
              Loop!cons,
              Loop!world
  <1>1. CASE Loop!PanelEnds \/ Loop!MainUi \/ Loop!MainStop \/ Loop!MainJoinPanel
    BY <1>1 DEF Loop!PanelEnds, Loop!MainUi, Loop!MainStop, Loop!MainJoinPanel
  <1>2. CASE Loop!MainJoin
    BY <1>2 DEF Loop!MainJoin
  <1>3. CASE Loop!Signal
    BY <1>3 DEF Loop!Signal
  <1> QED  BY <1>1, <1>2, <1>3 DEF Loop!Main

\* LoopIInv holds whatever the threads, the operator and the signals do, also with
\* the clock off.
THEOREM RunLoopInductive ==
  ASSUME LoopBounds
  PROVE  Loop!Spec => []LoopIInv
  <1>1. LoopIInv /\ [Loop!Next]_(Loop!vars) => LoopIInv'
    <2> SUFFICES ASSUME LoopIInv, [Loop!Next]_(Loop!vars)  PROVE LoopIInv'
      OBVIOUS
    <2>1. CASE UNCHANGED Loop!vars
      BY <2>1 DEF Loop!vars, Loop!debug, Loop!cons, Loop!world, LoopIInv, Loop!TypeOK,
         KeysAreCounted, Pending, CommandIsKnown, RunIsFlagged, EndIsSeen, Loop!InRun,
         CleanUpIsLast, LastEventKept
    <2> QED  BY <2>1, DebuggerIInv, ConsoleIInv, MainIInv DEF Loop!Next
  <1> QED  BY <1>1, LoopInitIInv, PTL DEF Loop!Spec

\* The state has its types: the input buffer is no longer than what was typed.
THEOREM LoopTypes ==
  ASSUME LoopBounds
  PROVE  Loop!Spec => []Loop!TypeOK
  BY RunLoopInductive, PTL DEF LoopIInv

\* The console knows of every run; the main thread goes on from its event loop
\* once the debugger thread has ended; it joins the threads one after the other;
\* and its TERMINATE stays, but for a ^e.
THEOREM RunEndsInOrder ==
  ASSUME LoopBounds
  PROVE  Loop!Spec => [](RunIsFlagged /\ EndIsSeen /\ CleanUpIsLast /\ LastEventKept)
  BY RunLoopInductive, PTL DEF LoopIInv

\* No step but that of a command takes an event away (the safety half of
\* EventStopsRun and of EndIsFinal).
THEOREM EventsStay == Loop!Spec => EventStays
  <1>1. ASSUME Loop!Next, event # "none", event' = "none"
        PROVE  dpc \in {"go", "single", "reset"}
    <2>1. CASE Loop!Debugger \/ Loop!WaitEnds
      BY <1>1, <2>1
         DEF Loop!Debugger, Loop!Prompt, Loop!Emulation, Loop!WaitEnds, Loop!Check,
             Loop!ReadGivesUp, Loop!ReadCommand, Loop!GoOrSingle, Loop!ResetCommand,
             Loop!TurboCommand, Loop!PanelCommand, Loop!TestCommand, Loop!QuitCommand,
             Loop!End, Loop!Flag, Loop!LoopTest, Loop!Breakpoint, Loop!Fetch, Loop!FetchThrows,
             Loop!Step,
             Loop!StepHalt, Loop!StepWait, Loop!Unflag
    <2>2. CASE Loop!ConsoleAct
      BY <1>1, <2>2, ConsoleActs
    <2>3. CASE \/ Loop!ConsoleTest \/ Loop!ConsoleTimeout \/ Loop!ConsoleLook
               \/ (\E k \in Keys : Loop!ConsoleKey(k)) \/ Loop!PanelEnds
               \/ Loop!Main \/ Loop!Signal
      BY <1>1, <2>3 DEF Loop!ConsoleTest, Loop!ConsoleTimeout, Loop!ConsoleLook,
         Loop!ConsoleKey, Loop!Main, Loop!MainUi, Loop!MainJoin, Loop!MainStop,
         Loop!MainJoinPanel, Loop!PanelEnds, Loop!Signal
    <2> QED  BY <1>1, <2>1, <2>2, <2>3 DEF Loop!Next, Loop!Console
  <1>2. [Loop!Next]_(Loop!vars) =>
          [event # "none" /\ event' = "none" => dpc \in {"go", "single", "reset"}]_(Loop!vars)
    BY <1>1
  <1> QED  BY <1>2, PTL DEF Loop!Spec, EventStays
=============================================================================
