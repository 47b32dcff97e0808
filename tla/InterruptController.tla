------------------------ MODULE InterruptController ------------------------
(***************************************************************************)
(* What the interrupt machinery of class cpu promises to the emulated      *)
(* program: a set of requests, a processor priority, and a processor that  *)
(* takes the least request above its priority.  Threads, the mutex, the    *)
(* condition variable and the any_queued_interrupts hint of cpu.cpp do not *)
(* exist at this level.                                                    *)
(***************************************************************************)
EXTENDS Naturals

CONSTANT Interrupts     \* <<level, vector>> pairs the devices may raise

VARIABLES pending,      \* requests raised and not yet taken
          priority,     \* processor priority, bits 5..7 of the PSW
          waiting,      \* the processor executes a WAIT instruction
          accepting     \* between two instructions, it looks for a request

absVars == <<pending, priority, waiting, accepting>>

Unmasked(i) == i[1] > priority

\* Requests are ranked by level first and by vector within a level.
RanksBefore(i, j) == i[1] < j[1] \/ (i[1] = j[1] /\ i[2] <= j[2])

\* The request the processor takes next: the least one above its priority.
NextToTake(i) ==
  /\ i \in pending
  /\ Unmasked(i)
  /\ \A j \in pending : Unmasked(j) => RanksBefore(i, j)

AbsInit ==
  /\ pending = {}
  /\ priority = 0
  /\ waiting = FALSE
  /\ accepting = FALSE

Raise(i) ==
  /\ pending' = pending \cup {i}
  /\ UNCHANGED <<priority, waiting, accepting>>

\* An instruction makes a device withdraw its request, or is a RESET and
\* drops some of them.  Only instructions do: while the processor waits or
\* looks for a request, none disappears.
Withdraw ==
  /\ ~waiting /\ ~accepting
  /\ pending' \in SUBSET pending
  /\ UNCHANGED <<priority, waiting, accepting>>

BeginAccept ==
  /\ ~waiting /\ ~accepting
  /\ accepting' = TRUE
  /\ UNCHANGED <<pending, priority, waiting>>

\* The processor takes it and continues at that request's level.
Take(i) ==
  /\ accepting
  /\ NextToTake(i)
  /\ pending' = pending \ {i}
  /\ priority' = i[1]
  /\ accepting' = FALSE
  /\ UNCHANGED waiting

\* It takes none only when there is none that it could take.
EndAccept ==
  /\ accepting
  /\ \A i \in pending : ~Unmasked(i)
  /\ accepting' = FALSE
  /\ UNCHANGED <<pending, priority, waiting>>

\* SPL, RTI, RTT, a trap or a store into the PSW; the trap may be one that
\* was delayed, which comes between two instructions.
ChangePriority(l) ==
  /\ ~waiting
  /\ priority' = l
  /\ UNCHANGED <<pending, waiting, accepting>>

BeginWait ==
  /\ ~waiting /\ ~accepting
  /\ waiting' = TRUE
  /\ UNCHANGED <<pending, priority, accepting>>

\* WAIT ends only when there is a request the processor can take.
EndWait ==
  /\ waiting
  /\ \E i \in pending : Unmasked(i)
  /\ waiting' = FALSE
  /\ UNCHANGED <<pending, priority, accepting>>

AbsNext ==
  \/ \E i \in Interrupts : Raise(i) \/ Take(i)
  \/ Withdraw
  \/ BeginAccept \/ EndAccept
  \/ \E l \in 0..7 : ChangePriority(l)
  \/ BeginWait
  \/ EndWait

AbsSafety == AbsInit /\ [][AbsNext]_absVars

(***************************************************************************)
(* The liveness half of the promise: no request stays, for ever, the one   *)
(* that the processor would take next.  It is all that can be promised:    *)
(* the lowest level goes first (cpu.cpp:312), so an endless stream of      *)
(* requests at level 4, with handlers that lower the priority in their     *)
(* first instruction, keeps a request at level 6 waiting for ever.         *)
(***************************************************************************)
Served == \A i \in Interrupts : []<>~NextToTake(i)

AbsSpec == AbsSafety /\ Served
=============================================================================
