------------------------------ MODULE RunLoop ------------------------------
(***************************************************************************)
(* Starting and stopping the emulation: the stop_event that four parties   *)
(* write without a lock, and the running flag of the console.              *)
(*   - the debugger thread (debugger.cpp) reads commands, clears the event *)
(*     and runs instructions until it is set; HALT sets it in between;     *)
(*   - the console thread (console.cpp) turns keys into events or puts     *)
(*     them in the input buffer, which the debugger and the emulated       *)
(*     program read;                                                       *)
(*   - the signal handler (main.cpp) asks for termination;                 *)
(*   - the panel thread of the console (console_posix.cpp) refreshes the   *)
(*     panels until it sees TERMINATE or is told to stop by 'dp';          *)
(*   - the main thread waits for the others and cleans up.                 *)
(* A command is one token of the input buffer, not a line of characters.   *)
(* A wait that times out and starts over (read_line, wait_for_key) is a    *)
(* stuttering step; the system may stop there, and stops when main returns. *)
(***************************************************************************)
EXTENDS Naturals, Sequences

CONSTANTS Keys,           \* what the operator types: commands and control keys
          MaxKeys,        \* bound: how much the operator types
          MaxSignals      \* bound: SIGTERM or SIGINT deliveries

Commands == {"go", "single", "reset", "turbo", "test", "dp", "quit"}
Events == {"none", "halt", "interrupt", "terminate"}

ASSUME KeysAssumption == Keys \subseteq Commands \cup {"^c", "^e", "y", "n"}
ASSUME BoundsAssumption == MaxKeys \in Nat /\ MaxSignals \in Nat

VARIABLES event,          \* *stop_event
          running,        \* the console's running_flag
          input,          \* input_buffer
          dpc, cmd,       \* the debugger thread, the command it executes
          turbo,          \* state.turbo
          kpc, key, saw,  \* the console thread, its key, the flag it read
          ppc,            \* the panel thread: runs, told to stop, ended
          mpc,            \* the main thread
          typed, signals  \* how many keys and signals there were

debug == <<dpc, cmd, turbo>>
cons == <<kpc, key, saw>>
world == <<typed, signals>>
vars == <<event, running, input, debug, cons, ppc, mpc, world>>

\* The debugger thread inside emulation_do's loop.
InRun == dpc \in {"loop", "fetch", "step", "wait"}

Init ==
  /\ event = "none"
  /\ running = FALSE
  /\ input = <<>>
  /\ dpc = "check" /\ cmd = "none"
  /\ turbo = FALSE
  /\ kpc = "test" /\ key = "none" /\ saw = FALSE
  /\ ppc = "runs"
  /\ mpc = "ui"
  /\ typed = 0 /\ signals = 0

-----------------------------------------------------------------------------
(* The debugger thread: debugger(), read_line(), debugger_do().            *)

Check ==
  /\ dpc = "check"
  /\ dpc' = IF event = "terminate" THEN "end" ELSE "read"
  /\ UNCHANGED <<event, running, input, cmd, turbo, cons, ppc, mpc, world>>

\* Mutant: read_line only drops the character.
ReadGivesUpNot ==
  /\ dpc = "read" /\ event = "terminate"
  /\ input' = IF input = <<>> THEN <<>> ELSE Tail(input)
  /\ dpc' = "read"
  /\ UNCHANGED <<event, running, cmd, turbo, cons, ppc, mpc, world>>

\* read_line gives up, also when it has just taken a character.
ReadGivesUp ==
  /\ dpc = "read" /\ event = "terminate"
  /\ input' = IF input = <<>> THEN <<>> ELSE Tail(input)
  /\ dpc' = "check"
  /\ UNCHANGED <<event, running, cmd, turbo, cons, ppc, mpc, world>>

\* Keys that are no commands are skipped or refused.
ReadCommand ==
  /\ dpc = "read" /\ event # "terminate" /\ input # <<>>
  /\ input' = Tail(input)
  /\ IF Head(input) \in Commands
     THEN cmd' = Head(input) /\ dpc' = Head(input)
     ELSE UNCHANGED <<cmd, dpc>>
  /\ UNCHANGED <<event, running, turbo, cons, ppc, mpc, world>>

\* cmd_go, cmd_single
GoOrSingle ==
  /\ dpc \in {"go", "single"}
  /\ event' = "none"
  /\ dpc' = "flag"
  /\ UNCHANGED <<running, input, cmd, turbo, cons, ppc, mpc, world>>

\* cmd_reset
ResetCommand ==
  /\ dpc = "reset"
  /\ event' = "none"
  /\ dpc' = "check"
  /\ UNCHANGED <<running, input, cmd, turbo, cons, ppc, mpc, world>>

\* cmd_turbo
TurboCommand ==
  /\ dpc = "turbo"
  /\ turbo' = ~turbo
  /\ dpc' = "check"
  /\ UNCHANGED <<event, running, input, cmd, cons, ppc, mpc, world>>

\* cmd_dp: stop_panel_thread().
PanelCommand ==
  /\ dpc = "dp"
  /\ ppc' = IF ppc = "runs" THEN "told" ELSE ppc
  /\ dpc' = "check"
  /\ UNCHANGED <<event, running, input, cmd, turbo, cons, mpc, world>>

\* cmd_test with -r: tests until the event is set.
TestCommand ==
  /\ dpc = "test"
  /\ dpc' = IF event = "none" THEN "test" ELSE "check"
  /\ UNCHANGED <<event, running, input, cmd, turbo, cons, ppc, mpc, world>>

\* cmd_quit: wait_for_key takes characters until one of them is y or n.
QuitCommand ==
  /\ dpc = "quit" /\ input # <<>>
  /\ input' = Tail(input)
  /\ dpc' = CASE Head(input) = "y" -> "end" [] Head(input) = "n" -> "check"
              [] OTHER -> "quit"
  /\ UNCHANGED <<event, running, cmd, turbo, cons, ppc, mpc, world>>

End ==
  /\ dpc = "end"
  /\ event' = "terminate"
  /\ dpc' = "ended"
  /\ UNCHANGED <<running, input, cmd, turbo, cons, ppc, mpc, world>>

-----------------------------------------------------------------------------
(* emulation_do().                                                         *)

Flag ==
  /\ dpc = "flag"
  /\ running' = TRUE
  /\ dpc' = "loop"
  /\ UNCHANGED <<event, input, cmd, turbo, cons, ppc, mpc, world>>

\* Mutant: only a HALT ends the loop.
LoopTestHaltOnly ==
  /\ dpc = "loop"
  /\ dpc' = IF event = "halt" THEN "unflag" ELSE IF turbo THEN "step" ELSE "fetch"
  /\ UNCHANGED <<event, running, input, cmd, turbo, cons, ppc, mpc, world>>

LoopTest ==
  /\ dpc = "loop"
  /\ dpc' = IF event # "none" THEN "unflag" ELSE IF turbo THEN "step" ELSE "fetch"
  /\ UNCHANGED <<event, running, input, cmd, turbo, cons, ppc, mpc, world>>

\* A breakpoint that stops, which 'single' ignores.
Breakpoint ==
  /\ dpc = "fetch" /\ cmd # "single"
  /\ dpc' = "unflag"
  /\ UNCHANGED <<event, running, input, cmd, turbo, cons, ppc, mpc, world>>

\* b->read_word(pc) outside step(): the instruction is there ...
Fetch ==
  /\ dpc = "fetch"
  /\ dpc' = "step"
  /\ UNCHANGED <<event, running, input, cmd, turbo, cons, ppc, mpc, world>>

\* ... or the fetch faults: "Problem: %d", and the flag stays set.
FetchThrows ==
  /\ dpc = "fetch"
  /\ dpc' = "check"
  /\ UNCHANGED <<event, running, input, cmd, turbo, cons, ppc, mpc, world>>

\* After the n-th instruction of 'single' the loop ends; turbo does not count.
AfterStep ==
  \/ dpc' = "loop"
  \/ cmd = "single" /\ ~turbo /\ dpc' = "unflag"

\* step(): any instruction, reads of the keyboard included.
Step ==
  /\ dpc = "step"
  /\ \/ input' = input
     \/ input # <<>> /\ input' = Tail(input)
  /\ AfterStep
  /\ UNCHANGED <<event, running, cmd, turbo, cons, ppc, mpc, world>>

\* HALT in kernel mode, or a third nested trap.
StepHalt ==
  /\ dpc = "step"
  /\ event' = "halt"
  /\ AfterStep
  /\ UNCHANGED <<running, input, cmd, turbo, cons, ppc, mpc, world>>

StepWait ==
  /\ dpc = "step"
  /\ dpc' = "wait"
  /\ UNCHANGED <<event, running, input, cmd, turbo, cons, ppc, mpc, world>>

\* A WAIT ends with an interrupt, never with an event.
WaitEnds ==
  /\ dpc = "wait"
  /\ AfterStep
  /\ UNCHANGED <<event, running, input, cmd, turbo, cons, ppc, mpc, world>>

Unflag ==
  /\ dpc = "unflag"
  /\ running' = FALSE
  /\ dpc' = "check"
  /\ UNCHANGED <<event, input, cmd, turbo, cons, ppc, mpc, world>>

-----------------------------------------------------------------------------
(* The console thread: console::operator().                                *)

ConsoleTest ==
  /\ kpc = "test"
  /\ kpc' = IF event = "terminate" \/ mpc = "stopping" THEN "ended" ELSE "key"
  /\ UNCHANGED <<event, running, input, debug, key, saw, ppc, mpc, world>>

\* wait_for_char_ll(500) returns a key ...
ConsoleKey(k) ==
  /\ kpc = "key" /\ typed < MaxKeys
  /\ key' = k
  /\ typed' = typed + 1
  /\ kpc' = "look"
  /\ UNCHANGED <<event, running, input, debug, saw, ppc, mpc, signals>>

\* Mutant: it waits for a key without a timeout.
ConsoleTimeoutNever ==
  /\ kpc = "key" /\ typed < MaxKeys
  /\ kpc' = "test"
  /\ UNCHANGED <<event, running, input, debug, key, saw, ppc, mpc, world>>

\* ... or nothing.
ConsoleTimeout ==
  /\ kpc = "key"
  /\ kpc' = "test"
  /\ UNCHANGED <<event, running, input, debug, key, saw, ppc, mpc, world>>

ConsoleLook ==
  /\ kpc = "look"
  /\ saw' = running
  /\ kpc' = "act"
  /\ UNCHANGED <<event, running, input, debug, key, ppc, mpc, world>>

\* ^c ends the program when nothing runs, ^e stops what runs, and everything
\* else is input.
ConsoleAct ==
  /\ kpc = "act"
  /\ kpc' = "test" /\ key' = "none" /\ saw' = FALSE
  /\ CASE ~saw /\ key = "^c" -> event' = "terminate" /\ UNCHANGED input
       [] saw /\ key = "^e" -> event' = "interrupt" /\ UNCHANGED input
       [] OTHER -> input' = Append(input, key) /\ UNCHANGED event
  /\ UNCHANGED <<running, debug, ppc, mpc, world>>

-----------------------------------------------------------------------------
(* The main thread after start-up, and the signal handler.                 *)

\* ui_event_loop() of the console polls the event.
MainUi ==
  /\ mpc = "ui" /\ event # "none"
  /\ mpc' = "join"
  /\ UNCHANGED <<event, running, input, debug, cons, ppc, world>>

MainJoin ==
  /\ mpc = "join" /\ dpc = "ended"
  /\ event' = "terminate"
  /\ mpc' = "stopping"
  /\ UNCHANGED <<running, input, debug, cons, ppc, world>>

\* cnsl->stop_thread() joins the console thread, and the bus is deleted ...
MainStop ==
  /\ mpc = "stopping" /\ kpc = "ended"
  /\ mpc' = "deleting"
  /\ UNCHANGED <<event, running, input, debug, cons, ppc, world>>

\* ... before ~console_posix() joins the panel thread.
MainJoinPanel ==
  /\ mpc = "deleting" /\ ppc = "ended"
  /\ mpc' = "gone"
  /\ UNCHANGED <<event, running, input, debug, cons, ppc, world>>

\* console_posix::panel_update_thread() looks at the event between two frames.
PanelEnds ==
  /\ \/ ppc = "told"
     \/ ppc = "runs" /\ event = "terminate"
  /\ ppc' = "ended"
  /\ UNCHANGED <<event, running, input, debug, cons, mpc, world>>

\* sw_handler: "Terminating..."
Signal ==
  /\ mpc # "gone" /\ signals < MaxSignals
  /\ event' = "terminate"
  /\ signals' = signals + 1
  /\ UNCHANGED <<running, input, debug, cons, ppc, mpc, typed>>

-----------------------------------------------------------------------------
Prompt ==
  \/ Check \/ ReadGivesUp \/ ReadCommand \/ GoOrSingle \/ ResetCommand
  \/ TurboCommand \/ PanelCommand \/ TestCommand \/ QuitCommand \/ End

Emulation ==
  \/ Flag \/ LoopTest \/ Breakpoint \/ Fetch \/ FetchThrows
  \/ Step \/ StepHalt \/ StepWait \/ Unflag

Debugger == Prompt \/ Emulation

Console == ConsoleTest \/ ConsoleTimeout \/ ConsoleLook \/ ConsoleAct

Main == MainUi \/ MainJoin \/ MainStop \/ MainJoinPanel

Next ==
  \/ Debugger \/ WaitEnds
  \/ Console \/ \E k \in Keys : ConsoleKey(k)
  \/ PanelEnds \/ Main \/ Signal

(***************************************************************************)
(* The threads keep running; the operator and the signals need not come,   *)
(* and nothing promises that an interrupt ends a WAIT.                     *)
(***************************************************************************)
Fairness ==
  WF_vars(Debugger) /\ WF_vars(Console) /\ WF_vars(PanelEnds) /\ WF_vars(Main)

Spec == Init /\ [][Next]_vars /\ Fairness

-----------------------------------------------------------------------------
TypeOK ==
  /\ event \in Events
  /\ running \in BOOLEAN
  /\ input \in Seq(Keys) /\ Len(input) <= MaxKeys
  /\ dpc \in Commands \cup {"check", "read", "flag", "loop", "fetch", "step", "wait",
                            "unflag", "end", "ended"}
  /\ cmd \in Commands \cup {"none"}
  /\ turbo \in BOOLEAN
  /\ kpc \in {"test", "key", "look", "act", "ended"}
  /\ key \in Keys \cup {"none"}
  /\ saw \in BOOLEAN
  /\ ppc \in {"runs", "told", "ended"}
  /\ mpc \in {"ui", "join", "stopping", "deleting", "gone"}
  /\ typed \in 0..MaxKeys /\ signals \in 0..MaxSignals

\* An event that is set while instructions are executed stops them, whoever
\* set it and whatever else is written to it; only a WAIT that no interrupt
\* ends can hold it up, as WAIT does not look at the event (cpu.cpp:1506).
EventStopsRun == InRun /\ event # "none" ~> ~InRun \/ [](dpc = "wait")

\* Once the debugger thread has left its loop the process ends: no thread waits
\* for another that waits for it.  The one way to hang: a ^e that the console
\* thread takes for one to a run, as the flag was or still is set, is written
\* over the TERMINATE (console.cpp:370) before the panel thread has seen it, and
\* main() waits in the console's destructor (console_posix.cpp:71).
PanelMissedEnd == mpc = "deleting" /\ ppc = "runs" /\ event = "interrupt"
EndIsFinal == dpc = "end" ~> mpc = "gone" \/ PanelMissedEnd

\* A request for termination is obeyed when it comes before the debugger has
\* read one of the commands that clear the event (debugger.cpp:795, 827, 1017), and
\* neither a HALT nor a ^e is written over it.  A WAIT that no interrupt ends
\* and the prompt of 'quit' (debugger.cpp:252) can hold it up for ever.
TerminateObeyed ==
  event = "terminate" /\ dpc \notin {"go", "single", "reset"}
    ~> \/ mpc = "gone"
       \/ event \in {"halt", "interrupt"}
       \/ [](dpc \in {"wait", "quit"})

\* The help of 'go' (debugger.cpp:1661): "run until trap or ^e".
GoUntilInterrupt == InRun /\ event = "interrupt" ~> ~InRun

\* What the signal handler says (main.cpp:86): "Terminating...".
SignalTerminates == signals > 0 ~> mpc = "gone"

\* The help of 'test' (debugger.cpp:1697): "-r to continue until ^e is
\* pressed".
TestUntilInterrupt == dpc = "test" /\ kpc = "act" /\ key = "^e" ~> dpc # "test"
=============================================================================
