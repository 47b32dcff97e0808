----------------------------- MODULE ConsoleTty -----------------------------
(***************************************************************************)
(* The keyboard side of the console terminal: the console thread puts a    *)
(* character in the input buffer (console.cpp) and calls notify_rx         *)
(* (tty.cpp); the CPU thread reads and writes the registers TKS and TKB,   *)
(* and calls notify_rx too.  TKS is an ordinary word that both threads     *)
(* read, change and write back without a lock.                             *)
(*                                                                         *)
(* The program is free to read and write the registers when it likes; its  *)
(* interrupt handler reads TKB once.  The transmitter (TPS, TPB) belongs   *)
(* to the CPU thread alone and is not in this module.                      *)
(***************************************************************************)
EXTENDS Naturals, Sequences

CONSTANT MaxChars         \* bound: how many characters are typed

ASSUME MaxCharsAssumption == MaxChars \in Nat

Bits == {"done", "enable"}          \* bits 7 and 6 of TKS

VARIABLES TKS,            \* the bits that are set
          buffer,         \* input_buffer; the n-th character typed is n
          typed,          \* how many were typed
          got,            \* the last character the program read from TKB
          kpc, ktmp,      \* the console thread, and the word it loaded
          cpc, ctmp,      \* the CPU thread, and the word it loaded
          rx,             \* how often <<4, 060>> is queued: 0 or 1
          handler,        \* 1 while the handler has not yet read TKB
          armed           \* history: 1 when the program enabled interrupts
                          \* while nothing was typed, and has left them so

vars == <<TKS, buffer, typed, got, kpc, ktmp, cpc, ctmp, rx, handler, armed>>
cpuVars == <<cpc, ctmp, handler, armed, got>>
kbVars == <<kpc, ktmp, typed>>

Init ==
  /\ TKS = {}
  /\ buffer = <<>>
  /\ typed = 0
  /\ got = 0
  /\ kpc = "idle" /\ ktmp = {}
  /\ cpc = "idle" /\ ctmp = {}
  /\ rx = 0
  /\ handler = 0
  /\ armed = 0

-----------------------------------------------------------------------------
(* The console thread: push, then notify_rx().                             *)

KeyPush ==
  /\ kpc = "idle" /\ typed < MaxChars
  /\ typed' = typed + 1
  /\ buffer' = Append(buffer, typed + 1)
  /\ kpc' = "load"
  /\ UNCHANGED <<TKS, ktmp, cpuVars, rx>>

KeyLoad ==
  /\ kpc = "load"
  /\ ktmp' = TKS
  /\ kpc' = "store"
  /\ UNCHANGED <<TKS, buffer, typed, cpuVars, rx>>

\* Mutant: registers[TKS] = 128.
KeyStoreOnly ==
  /\ kpc = "store"
  /\ TKS' = {"done"}
  /\ kpc' = "test"
  /\ UNCHANGED <<buffer, typed, ktmp, cpuVars, rx>>

\* registers[TKS] |= 128
KeyStore ==
  /\ kpc = "store"
  /\ TKS' = ktmp \cup {"done"}
  /\ kpc' = "test"
  /\ UNCHANGED <<buffer, typed, ktmp, cpuVars, rx>>

\* Mutant: no interrupt when the bit was set already.
KeyTestEdge(word) ==
  /\ kpc = "test"
  /\ kpc' = IF "enable" \in word /\ "done" \notin ktmp THEN "queue" ELSE "idle"
  /\ ktmp' = {}
  /\ UNCHANGED <<TKS, buffer, typed, cpuVars, rx>>

\* The test reads the word again, or uses the one that was stored.
KeyTest(word) ==
  /\ kpc = "test"
  /\ kpc' = IF "enable" \in word THEN "queue" ELSE "idle"
  /\ ktmp' = {}
  /\ UNCHANGED <<TKS, buffer, typed, cpuVars, rx>>

\* queue_interrupt(4, 060)
KeyQueue ==
  /\ kpc = "queue"
  /\ rx' = 1
  /\ kpc' = "idle"
  /\ UNCHANGED <<TKS, buffer, typed, ktmp, cpuVars>>

-----------------------------------------------------------------------------
(* The CPU thread: read_word(TKS), read_word(TKB), write_word(TKS).        *)

\* The word and the state of the buffer ...
TksLoad ==
  /\ cpc = "idle"
  /\ ctmp' = (TKS \ {"done"}) \cup (IF buffer = <<>> THEN {} ELSE {"done"})
  /\ cpc' = "tks"
  /\ UNCHANGED <<TKS, buffer, got, kbVars, rx, handler, armed>>

\* ... are written back.
TksStore ==
  /\ cpc = "tks"
  /\ TKS' = ctmp
  /\ ctmp' = {}
  /\ cpc' = "idle"
  /\ UNCHANGED <<buffer, got, kbVars, rx, handler, armed>>

\* wait_char(1) takes a character, or finds none for a millisecond: the
\* program reads a 0 that nobody typed.
TkbPop ==
  /\ cpc = "idle"
  /\ IF buffer = <<>>
     THEN UNCHANGED <<got, buffer, cpc>>
     ELSE got' = Head(buffer) /\ buffer' = Tail(buffer) /\ cpc' = "poll"
  /\ handler' = 0
  /\ UNCHANGED <<TKS, kbVars, ctmp, rx, armed>>

\* Mutant: the CPU does not look for more characters.
TkbPollNot ==
  /\ cpc = "poll"
  /\ cpc' = "idle"
  /\ UNCHANGED <<TKS, buffer, got, kbVars, ctmp, rx, handler, armed>>

\* Another character is there: the CPU thread calls notify_rx() as well.
TkbPoll ==
  /\ cpc = "poll"
  /\ cpc' = IF buffer = <<>> THEN "idle" ELSE "load"
  /\ UNCHANGED <<TKS, buffer, got, kbVars, ctmp, rx, handler, armed>>

NotifyLoad ==
  /\ cpc = "load"
  /\ ctmp' = TKS
  /\ cpc' = "store"
  /\ UNCHANGED <<TKS, buffer, got, kbVars, rx, handler, armed>>

NotifyStore ==
  /\ cpc = "store"
  /\ TKS' = ctmp \cup {"done"}
  /\ cpc' = "test"
  /\ UNCHANGED <<buffer, got, kbVars, ctmp, rx, handler, armed>>

NotifyTest(word) ==
  /\ cpc = "test"
  /\ cpc' = IF "enable" \in word THEN "queue" ELSE "idle"
  /\ ctmp' = {}
  /\ UNCHANGED <<TKS, buffer, got, kbVars, rx, handler, armed>>

NotifyQueue ==
  /\ cpc = "queue"
  /\ rx' = 1
  /\ cpc' = "idle"
  /\ UNCHANGED <<TKS, buffer, got, kbVars, ctmp, handler, armed>>

\* The handler is entered, at a priority below 4.
Take ==
  /\ cpc = "idle" /\ rx = 1 /\ handler = 0
  /\ rx' = 0
  /\ handler' = 1
  /\ UNCHANGED <<TKS, buffer, got, kbVars, cpc, ctmp, armed>>

\* write_word(TKS, v)
write_word(v) ==
  /\ cpc = "idle"
  /\ TKS' = v
  /\ armed' = IF /\ "enable" \in v
                 /\ armed = 1 \/ (buffer = <<>> /\ kpc = "idle")
              THEN 1 ELSE 0
  /\ UNCHANGED <<buffer, got, kbVars, cpc, ctmp, rx, handler>>

\* RESET: tty::reset(true) ...
reset ==
  /\ cpc = "idle"
  /\ TKS' = {}
  /\ armed' = 0
  /\ cpc' = "reset"
  /\ UNCHANGED <<buffer, got, kbVars, ctmp, rx, handler>>

\* ... and in the end init_interrupt_queue().
ClearQueue ==
  /\ cpc = "reset"
  /\ rx' = 0
  /\ cpc' = "idle"
  /\ UNCHANGED <<TKS, buffer, got, kbVars, ctmp, handler, armed>>

-----------------------------------------------------------------------------
Keyboard ==
  \/ KeyPush \/ KeyLoad \/ KeyStore \/ KeyQueue
  \/ KeyTest(TKS) \/ KeyTest(ktmp)

Cpu ==
  \/ TksLoad \/ TksStore
  \/ TkbPop \/ TkbPoll \/ NotifyLoad \/ NotifyStore \/ NotifyQueue
  \/ NotifyTest(TKS) \/ NotifyTest(ctmp)
  \/ Take
  \/ \E v \in SUBSET Bits : write_word(v)
  \/ reset \/ ClearQueue

Next == Keyboard \/ Cpu

SafetySpec == Init /\ [][Next]_vars

(***************************************************************************)
(* A thread finishes a call it has begun, the CPU takes interrupts, and    *)
(* its handler reads TKB.  The operator need not type anything.            *)
(***************************************************************************)
Fairness ==
  /\ WF_vars(KeyLoad \/ KeyStore \/ KeyTest(TKS) \/ KeyTest(ktmp) \/ KeyQueue)
  /\ WF_vars(cpc # "idle" /\ Cpu)
  /\ SF_vars(Take)
  /\ SF_vars(handler = 1 /\ TkbPop)

Spec == SafetySpec /\ Fairness

-----------------------------------------------------------------------------
TypeOK ==
  /\ TKS \subseteq Bits
  /\ buffer \in Seq(1..MaxChars)
  /\ typed \in 0..MaxChars
  /\ got \in 0..MaxChars
  /\ kpc \in {"idle", "load", "store", "test", "queue"}
  /\ ktmp \subseteq Bits
  /\ cpc \in {"idle", "tks", "poll", "load", "store", "test", "queue", "reset"}
  /\ ctmp \subseteq Bits
  /\ rx \in {0, 1}
  /\ handler \in {0, 1}
  /\ armed \in {0, 1}

(***************************************************************************)
(* No character is left lying in the buffer: once the program has enabled  *)
(* interrupts (with nothing typed yet, see below), then as long as there   *)
(* are characters, an interrupt is queued, or its handler is about to read *)
(* one, or one of the threads is on its way to queue one.  That needs the  *)
(* renewed notify_rx of tty.cpp:88, as a second request with the same      *)
(* vector is not queued separately.                                        *)
(*   A program that enables interrupts while characters are there gets     *)
(* none for them, and one that does so while the console thread is in      *)
(* notify_rx may find the enable bit gone: armed excludes these two cases. *)
(***************************************************************************)
NoCharacterStuck ==
  armed = 1 /\ buffer # <<>> =>
    \/ rx = 1 \/ handler = 1
    \/ kpc # "idle"
    \/ cpc \in {"poll", "load", "store", "test", "queue"}

\* The enable bit of such a program stays set, although two threads write the
\* word back with what they loaded before.
EnableKept == armed = 1 => "enable" \in TKS

\* What was typed is read, as long as interrupts stay enabled.
CharactersArrive == armed = 1 /\ buffer # <<>> ~> armed = 0 \/ buffer = <<>>
=============================================================================
