----------------------------- MODULE LineClock -----------------------------
(***************************************************************************)
(* The KW11-L line clock (kw11-l.cpp): a timer thread and the CPU thread   *)
(* share the status register under lc_csr_lock, but do_interrupt sets bit  *)
(* 7 and looks at the interrupt enable bit in two critical sections and    *)
(* queues the interrupt after both.  The CPU may write the register or     *)
(* execute RESET in between, and the debugger may stop the run.            *)
(*                                                                         *)
(* queue_interrupt(6, 0100) and the CPU's taking of it are one step each;  *)
(* module InterruptQueue has the details.                                  *)
(***************************************************************************)
EXTENDS Naturals

Bits == {"monitor", "enable"}       \* bits 7 and 6 of the register
Many == 3                           \* bound: where the counters stop

VARIABLES lf_csr,         \* the bits that are set
          running,        \* the console's running flag
          tpc,            \* the timer thread, in tick() and do_interrupt()
          cpc,            \* the CPU thread: in an instruction, or in RESET
          queued,         \* how often <<6, 0100>> is queued: 0 or 1
          late,           \* history: interrupts taken since the program
                          \* disabled them (up to Many)
          since,          \* history: requests queued since the run stopped
          wrote           \* history: 1 when the program wrote the register
                          \* since the last tick

vars == <<lf_csr, running, tpc, cpc, queued, late, since, wrote>>

AtMost(n) == IF n > Many THEN Many ELSE n

Init ==
  /\ lf_csr = {}
  /\ running = FALSE
  /\ tpc = "sleep"
  /\ cpc = "program"
  /\ queued = 0
  /\ late = 0
  /\ since = 0
  /\ wrote = 0

-----------------------------------------------------------------------------
(* The timer thread.                                                       *)

\* clock_nanosleep returns, tick() reads the running flag.
Tick ==
  /\ tpc = "sleep"
  /\ tpc' = IF running THEN "set" ELSE "sleep"
  /\ UNCHANGED <<lf_csr, running, cpc, queued, late, since, wrote>>

\* set_lf_crs_b7()
SetMonitor ==
  /\ tpc = "set"
  /\ lf_csr' = lf_csr \cup {"monitor"}
  /\ wrote' = 0
  /\ tpc' = "test"
  /\ UNCHANGED <<running, cpc, queued, late, since>>

\* Mutant: every tick interrupts.
TestEnableAlways ==
  /\ tpc = "test"
  /\ tpc' = "queue"
  /\ UNCHANGED <<lf_csr, running, cpc, queued, late, since, wrote>>

\* Mutant: get_lf_crs() == 64.
TestEnableEquals ==
  /\ tpc = "test"
  /\ tpc' = IF lf_csr = {"enable"} THEN "queue" ELSE "sleep"
  /\ UNCHANGED <<lf_csr, running, cpc, queued, late, since, wrote>>

\* get_lf_crs() & 64
TestEnable ==
  /\ tpc = "test"
  /\ tpc' = IF "enable" \in lf_csr THEN "queue" ELSE "sleep"
  /\ UNCHANGED <<lf_csr, running, cpc, queued, late, since, wrote>>

\* queue_interrupt(6, 0100)
Queue ==
  /\ tpc = "queue"
  /\ queued' = 1
  /\ since' = IF running THEN since ELSE AtMost(since + 1)
  /\ tpc' = "sleep"
  /\ UNCHANGED <<lf_csr, running, cpc, late, wrote>>

-----------------------------------------------------------------------------
(* The CPU thread.                                                         *)

\* write_word: the count of late interrupts starts when they are disabled.
write_word(v) ==
  /\ running /\ cpc = "program"
  /\ lf_csr' = v
  /\ wrote' = 1
  /\ late' = IF "enable" \in lf_csr \/ "enable" \in v THEN 0 ELSE late
  /\ UNCHANGED <<running, tpc, cpc, queued, since>>

\* RESET, or the debugger's 'reset hard': kw11_l::reset(true) ...
reset ==
  /\ cpc = "program"
  /\ lf_csr' = {}
  /\ wrote' = 1
  /\ late' = IF "enable" \in lf_csr THEN 0 ELSE late
  /\ cpc' = "reset"
  /\ UNCHANGED <<running, tpc, queued, since>>

\* ... and, once all devices are reset, init_interrupt_queue().
ClearQueue ==
  /\ cpc = "reset"
  /\ queued' = 0
  /\ cpc' = "program"
  /\ UNCHANGED <<lf_csr, running, tpc, late, since, wrote>>

\* The CPU takes the interrupt, at a priority below 6.
Take ==
  /\ running /\ cpc = "program" /\ queued = 1
  /\ queued' = 0
  /\ late' = IF "enable" \in lf_csr THEN late ELSE AtMost(late + 1)
  /\ UNCHANGED <<lf_csr, running, tpc, cpc, since, wrote>>

\* emulation_do() starts and ends.
SetRunning ==
  /\ cpc = "program"
  /\ running' = ~running
  /\ since' = 0
  /\ UNCHANGED <<lf_csr, tpc, cpc, queued, late, wrote>>

-----------------------------------------------------------------------------
Timer == Tick \/ SetMonitor \/ TestEnable \/ Queue

Next ==
  \/ Timer
  \/ \E v \in SUBSET Bits : write_word(v)
  \/ reset \/ ClearQueue \/ Take \/ SetRunning

(***************************************************************************)
(* The timer thread runs (it has the highest round robin priority), and    *)
(* the program does not keep its priority at 6 or above for ever.          *)
(***************************************************************************)
Fairness == WF_vars(Timer) /\ SF_vars(Take) /\ WF_vars(ClearQueue)

Spec == Init /\ [][Next]_vars /\ Fairness

-----------------------------------------------------------------------------
TypeOK ==
  /\ lf_csr \subseteq Bits
  /\ running \in BOOLEAN
  /\ tpc \in {"sleep", "set", "test", "queue"}
  /\ cpc \in {"program", "reset"}
  /\ queued \in {0, 1}
  /\ late \in 0..Many
  /\ since \in 0..Many
  /\ wrote \in {0, 1}

(***************************************************************************)
(* A program that has disabled the clock's interrupts still gets some, but *)
(* never more than two: one that was queued, and one whose tick had looked *)
(* at the register before it was written.                                  *)
(***************************************************************************)
LateInterruptsBounded == late <= 2

\* When the debugger has stopped the run, at most one more tick is queued.
QuietWhenStopped == since <= 1

\* A handler that looks at bit 7 finds it set, unless the program itself
\* wrote the register after the tick.
InterruptIsMarked == queued = 1 => "monitor" \in lf_csr \/ wrote = 1

(***************************************************************************)
(* What the three critical sections of do_interrupt and the one look at    *)
(* the running flag (kw11-l.cpp:143-215) still guarantee together.         *)
(***************************************************************************)
InterruptsFollowTheClock ==
  LateInterruptsBounded /\ QuietWhenStopped /\ InterruptIsMarked

\* As long as interrupts stay enabled and the run goes on, the clock ticks.
ClockTicks ==
  <>[](running /\ "enable" \in lf_csr) => []<><<Take>>_vars
=============================================================================
