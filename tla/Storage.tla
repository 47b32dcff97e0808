------------------------------ MODULE Storage ------------------------------
(***************************************************************************)
(* The disk controllers RK05 (rk05.cpp), RL02 (rl02.cpp) and RP06          *)
(* (rp06.cpp) on a disk back-end.  A store into the command register runs  *)
(* the whole command on the CPU's thread: the program sees nothing before  *)
(* its end, but the back-end and its server move in between.               *)
(*                                                                         *)
(* A page of memory is as big as a sector, and a transfer is of whole      *)
(* sectors.  The disk is the one of one attached drive; a command is for   *)
(* that drive or for one that is not attached.  The registers a command is *)
(* given (position, address, count) are chosen when it starts.             *)
(***************************************************************************)
EXTENDS DiskBackend

CONSTANTS Starts,         \* bound: sectors where a transfer starts
          MaxCount,       \* bound: sectors of a transfer
          MaxCommands     \* bound: commands

\* A transfer of MaxCount sectors stays among the sectors of the model.
ASSUME StartsAssumption ==
  /\ MaxCount \in Nat /\ MaxCommands \in Nat
  /\ \A s \in Starts : s..(s + MaxCount - 1) \subseteq Sectors

VARIABLES controller,     \* rk05, rl02 or rp06
          drive,          \* the attached drive
          ie,             \* whether the program asks for interrupts
          pc,             \* idle, transfer or finish
          cmd,            \* the command
          done,           \* sectors transferred
          at,             \* sector, surface (head) and cylinder (track)
          reg,            \* of the controller
          mem,            \* the pages of memory
          raised,         \* its interrupt is queued
          commands,
          before,         \* memory and disk as the command found them
          stopped         \* RL02: the sector where it came to a stop, if that is known

controllerVars ==
  <<controller, drive, ie, pc, cmd, done, at, reg, mem, raised, commands, before, stopped>>
vars == <<backendVars, controllerVars>>

SectorsPerTrack == 2
Heads == 2
Tracks == 2
Positions == [c : 0..(Tracks - 1), h : 0..(Heads - 1), s : 0..(SectorsPerTrack - 1)]

Offset(p) == (p.c * Heads + p.h) * SectorsPerTrack + p.s

\* mutant: the head is not reset at the end of a cylinder
AdvanceKeepsHead(p) ==
  IF p.s + 1 < SectorsPerTrack THEN [p EXCEPT !.s = @ + 1]
  ELSE IF p.h + 1 < Heads THEN [p EXCEPT !.s = 0, !.h = @ + 1]
  ELSE [p EXCEPT !.s = 0, !.c = @ + 1]

\* One sector on, over the end of a track and of a cylinder.
Advance(p) ==
  IF p.s + 1 < SectorsPerTrack THEN [p EXCEPT !.s = @ + 1]
  ELSE IF p.h + 1 < Heads THEN [p EXCEPT !.s = 0, !.h = @ + 1]
  ELSE [c |-> p.c + 1, h |-> 0, s |-> 0]

Origin == [c |-> 0, h |-> 0, s |-> 0]
Pages == 0..(MaxCount - 1)
Absent == 2               \* a drive that is not attached
Unknown == -1             \* no sector

\* The disk address is drive and da; error: bits of the RK05's ERROR; failed:
\* bits 15 and 14 of CS (RK05), 15 and 10 of CSR (RL02); found: the RK05's
\* search complete; cc: the RP06's; mpr: the sector whose header the RL02's
\* multi-purpose register holds, if it does.
Cleared == [drive |-> 0, da |-> Origin, ba |-> 0, wc |-> 0, error |-> {}, failed |-> FALSE,
            ready |-> FALSE, found |-> FALSE, cc |-> 0, mpr |-> Unknown]

Transfers == {"read", "write"}
Functions ==
  Transfers \cup CASE controller = "rk05" -> {"reset", "seek", "other"}
                   [] controller = "rl02" -> {"status", "seek", "header", "other"}
                   [] controller = "rp06" -> {"ignored", "search", "other"}

Transferring == cmd.f \in Transfers
Attached == cmd.device # Absent

NoCommand == [f |-> "other", start |-> Origin, page |-> 0, count |-> 1,
              inhibit |-> FALSE, device |-> 0]

StorageInit ==
  /\ BackendInit
  /\ controller \in {"rk05", "rl02", "rp06"}
  /\ drive \in IF controller = "rk05" THEN {0, 1} ELSE {0}
  /\ pc = "idle" /\ done = 0 /\ at = Origin /\ reg = Cleared
  /\ ie \in BOOLEAN /\ cmd = NoCommand
  /\ mem \in [Pages -> Values \ {Blank, Zero}] /\ \A p, q \in Pages : p # q => mem[p] # mem[q]
  /\ raised = FALSE /\ commands = 0
  /\ before = [mem |-> mem, disk |-> seen] /\ stopped = Offset(Origin)

-----------------------------------------------------------------------------
\* What the program may ask: only a transfer uses the address and the count.
Commands ==
  {k \in [f : Functions, start : {p \in Positions : Offset(p) \in Starts},
          page : Pages, count : 1..MaxCount, inhibit : BOOLEAN, device : {drive, Absent}] :
     /\ k.page + k.count <= MaxCount
     /\ k.f \notin Transfers \/ k.device = Absent => k.page = 0 /\ k.count = 1
     /\ k.inhibit => controller = "rk05" /\ k.f \in Transfers
     /\ k.device = Absent => controller # "rp06" /\ ~k.inhibit}

Given(k) == [reg EXCEPT !.drive = k.device, !.da = k.start, !.ba = k.page, !.wc = k.count]

StartRk05(k) ==
  LET r == [Given(k) EXCEPT !.failed = FALSE, !.found = FALSE, !.ready = FALSE]
      absent == k.f \in Transfers /\ k.device = Absent
  IN  /\ at' = k.start
      /\ reg' = CASE absent -> [r EXCEPT !.error = @ \cup {128}, !.failed = TRUE]
                  [] k.f = "reset" -> [r EXCEPT !.error = {}]
                  [] k.f = "seek" -> [r EXCEPT !.found = TRUE]
                  [] OTHER -> r
      /\ pc' = IF k.f \in Transfers /\ ~absent THEN "transfer" ELSE "finish"

\* A seek moves by a number of tracks, and stops at the first and at the last.
\* What the multi-purpose register holds after a status or a transfer is no
\* position.
StartRl02(k) ==
  LET absent == k.device = Absent
      r == [Given(k) EXCEPT !.failed = absent, !.ready = FALSE]
      m == IF k.f = "header" THEN Offset(at) ELSE Unknown
  IN  /\ reg' = IF absent \/ k.f \in {"seek", "other"} THEN r ELSE [r EXCEPT !.mpr = m]
      /\ \/ absent /\ UNCHANGED at
         \/ ~absent /\ k.f = "seek" /\ \E by \in -2..2 :
              at' = [at EXCEPT !.c = IF @ + by < 0 THEN 0
                                     ELSE IF @ + by >= Tracks THEN Tracks - 1 ELSE @ + by]
         \/ ~absent /\ k.f \in Transfers /\ at' = k.start
         \/ ~absent /\ k.f \notin Transfers \cup {"seek"} /\ UNCHANGED at
      /\ pc' = IF k.f \in Transfers /\ ~absent THEN "transfer" ELSE "finish"

StartRp06(k) ==
  /\ reg' = [Given(k) EXCEPT !.ready = FALSE, !.cc = IF k.f = "search" THEN k.start.c ELSE @]
  /\ pc' = IF k.f \in Transfers THEN "transfer" ELSE "finish"
  /\ UNCHANGED at

Start ==
  /\ pc = "idle" /\ ~raised /\ commands < MaxCommands
  /\ commands' = commands + 1
  /\ \E k \in Commands :
       /\ cmd' = k
       /\ CASE controller = "rk05" -> StartRk05(k)
            [] controller = "rl02" -> StartRl02(k)
            [] controller = "rp06" -> StartRp06(k)
  /\ UNCHANGED <<controller, drive, ie, done, mem, raised, before, stopped, backendVars>>

-----------------------------------------------------------------------------
(***************************************************************************)
(* The transfer, a sector per call of the back-end.                        *)
(***************************************************************************)
First == Offset(cmd.start)

\* mutant: every sector comes from the first page
CallBackendSamePage ==
  /\ pc = "transfer"
  /\ Call(cmd.f, First + done, mem[cmd.page])
  /\ UNCHANGED controllerVars

CallBackend ==
  /\ pc = "transfer"
  /\ Call(cmd.f, First + done, mem[cmd.page + done])
  /\ UNCHANGED controllerVars

\* The RK05 adds 2 for every byte it reads.
update_bus_address ==
  IF controller = "rk05" /\ ~cmd.inhibit
  THEN [reg EXCEPT !.ba = @ + (IF cmd.f = "read" THEN 2 ELSE 1)]
  ELSE reg

SectorDone ==
  /\ pc = "transfer" /\ status = "ok" /\ Collect
  /\ done' = done + 1
  /\ mem' = IF cmd.f = "read" THEN [mem EXCEPT ![cmd.page + done] = buffer] ELSE mem
  /\ at' = IF controller = "rp06" THEN at ELSE Advance(at)
  /\ reg' = update_bus_address
  /\ pc' = IF done' = cmd.count THEN "finish" ELSE pc
  /\ UNCHANGED <<controller, drive, ie, cmd, raised, commands, before, stopped>>

\* Only the RK05 tells.
SectorFailed ==
  /\ pc = "transfer" /\ status = "failed" /\ Collect
  /\ reg' = IF controller = "rk05"
            THEN [reg EXCEPT !.error = @ \cup {32}, !.failed = TRUE] ELSE reg
  /\ pc' = "finish"
  /\ UNCHANGED <<controller, drive, ie, cmd, done, at, mem, raised, commands, before, stopped>>

Interrupts ==
  CASE controller = "rk05" -> TRUE
    [] controller = "rl02" -> ~Attached \/ cmd.f \notin {"status", "other"}
    [] controller = "rp06" -> cmd.f # "other"

\* The RK05 writes the disk address back, without the drive; the RL02 and the
\* RP06 leave it as it was given.
FinishedRegisters ==
  CASE controller = "rk05" ->
         IF Transferring /\ Attached
         THEN [reg EXCEPT !.wc = 0, !.ready = TRUE, !.da = at, !.drive = 0]
         ELSE [reg EXCEPT !.wc = 0, !.ready = TRUE]
    [] controller = "rl02" -> reg
    [] controller = "rp06" -> [reg EXCEPT !.wc = IF Transferring THEN 0 ELSE @,
                                          !.ready = Interrupts]

Finish ==
  /\ pc = "finish" /\ pc' = "idle"
  /\ reg' = FinishedRegisters
  /\ raised' = (ie /\ Interrupts)
  /\ cmd' = NoCommand /\ done' = 0
  /\ before' = [mem |-> mem, disk |-> seen]
  /\ stopped' = IF controller # "rl02" \/ ~Attached THEN stopped
                ELSE IF Transferring THEN First + done
                ELSE IF cmd.f = "seek" THEN Unknown ELSE stopped
  /\ UNCHANGED <<controller, drive, ie, at, mem, commands, backendVars>>

-----------------------------------------------------------------------------
(***************************************************************************)
(* What the program does between commands.                                 *)
(***************************************************************************)
Between ==
  /\ pc = "idle"
  /\ UNCHANGED <<controller, drive, ie, pc, cmd, done, mem, commands, before, backendVars>>

AcceptInterrupt == Between /\ raised /\ raised' = FALSE /\ UNCHANGED <<at, reg, stopped>>

\* The RK05 drops the error before it answers; the RP06 only shows RDY.
ReadControl ==
  /\ Between
  /\ reg' = CASE controller = "rk05" -> [reg EXCEPT !.failed = FALSE, !.ready = TRUE]
              [] controller = "rl02" -> [reg EXCEPT !.ready = TRUE]
              [] controller = "rp06" -> reg
  /\ UNCHANGED <<at, raised, stopped>>

ReadError ==
  /\ Between /\ controller = "rk05"
  /\ reg' = [reg EXCEPT !.error = {}]
  /\ UNCHANGED <<at, raised, stopped>>

\* Each read of the multi-purpose register shifts the next word into it.
ReadMpr ==
  /\ Between /\ controller = "rl02"
  /\ reg' = [reg EXCEPT !.mpr = Unknown]
  /\ UNCHANGED <<at, raised, stopped>>

\* RESET (soft) or a reset of the debugger (hard)
Reset ==
  /\ Between /\ commands > 0
  /\ \E hard \in BOOLEAN : reg' = IF hard THEN Cleared ELSE reg
  /\ at' = IF controller = "rl02" THEN Origin ELSE at
  /\ stopped' = IF controller = "rl02" THEN Offset(Origin) ELSE stopped
  /\ UNCHANGED raised

Command == CallBackend \/ SectorDone \/ SectorFailed \/ Finish
ClientStep == Client /\ UNCHANGED controllerVars
ServerStep == Server /\ UNCHANGED controllerVars

Next == Start \/ Command \/ AcceptInterrupt \/ ReadControl \/ ReadError \/ ReadMpr \/ Reset
        \/ ClientStep \/ ServerStep

\* A command runs on, the server answers what reaches it, and a server that
\* is down comes back: the client waits for that for ever.
Fairness ==
  /\ WF_vars(Command) /\ WF_vars(ClientStep)
  /\ WF_vars((Serve \/ ServeError) /\ UNCHANGED controllerVars)
  /\ WF_vars(Restart /\ UNCHANGED controllerVars)

Spec == StorageInit /\ [][Next]_vars /\ Fairness

-----------------------------------------------------------------------------
\* The back-end is a disk: through the overlay, lost connections and sectors
\* that are sent again, a read answers what is on it and a write that
\* succeeded is on it (disk_backend_file.cpp:84, disk_backend_nbd.cpp:249).
ImplementsDisk == D!Spec

\* A transfer moves its first sectors, in order, and touches no other page
\* and no other sector, however often a sector was started over; only the
\* sector whose write did not succeed may be either old or new, and a gap
\* between the end of a file and a sector written behind it reads as zeros.
TransferIsPrefix ==
  LET Moved(n) == n \in 0..(done - 1)
      page == cmd.page
  IN  /\ mem = [p \in Pages |-> IF cmd.f = "read" /\ Moved(p - page)
                                THEN before.disk[First + (p - page)] ELSE before.mem[p]]
      /\ \A s \in Sectors :
           \/ seen[s] = IF cmd.f = "write" /\ Moved(s - First)
                        THEN before.mem[page + (s - First)] ELSE before.disk[s]
           \/ /\ cmd.f = "write" /\ s = First + done /\ done < cmd.count
              /\ seen[s] = before.mem[page + done]
           \/ /\ cmd.f = "write" /\ backend = [kind |-> "file", use_overlay |-> FALSE]
              /\ s < First /\ before.disk[s] = NoData /\ seen[s] = Zero

\* What the RK05's registers tell of a transfer: the disk address is behind
\* the last sector moved (of drive 0, whichever it was of), the bus address
\* behind the last page written, and there is an error exactly if that was
\* not the last one.
Rk05Tells ==
  /\ reg'.failed <=> done < cmd.count
  /\ reg'.failed => reg'.error # {}
  /\ IF Attached THEN Offset(reg'.da) = First + done /\ reg'.drive = 0
                 ELSE reg'.da = cmd.start /\ reg'.drive = Absent
  /\ cmd.f = "write" /\ ~cmd.inhibit => reg'.ba = cmd.page + done

\* The RL02's tell nothing, an error is only that of a drive that is not
\* there; but a read header that follows shows where it came to a stop.
Rl02Tells ==
  /\ reg'.failed <=> ~Attached
  /\ reg'.da = cmd.start /\ reg'.ba = cmd.page
  /\ cmd.f = "header" /\ Attached /\ stopped # Unknown => reg'.mpr = stopped

\* What a program reads when a command has ended says how far it came, as far
\* as its controller says anything (rk05.cpp:201, rl02.cpp:250; the RP06 does
\* not).
EndTellsProgress ==
  [][pc = "finish" /\ pc' = "idle" =>
       /\ controller = "rk05" /\ Transferring => Rk05Tells
       /\ controller = "rl02" => Rl02Tells]_vars

\* Every command ends, whatever happens to the connection and the server,
\* unless a refused or a closed connection has ended the emulator.
CommandEnds == (pc # "idle") ~> (pc = "idle" \/ status = "aborted")

=============================================================================
