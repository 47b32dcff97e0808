---------------------------- MODULE StorageProofs ----------------------------
(***************************************************************************)
(* Proofs about Storage: the back-end is a disk for the controller that    *)
(* calls it (the refinement of Disk), and a transfer is the prefix that    *)
(* position and error bits say it is, for any disk and number of commands. *)
(*                                                                         *)
(* What makes them inductive: what is on the wire belongs to the call that *)
(* is being answered, and while a transfer runs that call is of the sector *)
(* that comes next.                                                        *)
(***************************************************************************)
EXTENDS Storage, TLAPS

\* Places on a disk; a transfer may end behind the last cylinder.
Places == [c : Nat, h : 0..1, s : 0..1]

Wires == {Idle, [is |-> "request"]} \cup [is : {"reply"}, error : BOOLEAN, value : Values]

Regs == [drive : Int, da : Places, ba : Int, wc : Int, error : SUBSET Nat, failed : BOOLEAN,
         ready : BOOLEAN, found : BOOLEAN, cc : Int, mpr : Int]

AnyCommand == [f : Transfers \cup {"reset", "seek", "other", "status", "header", "ignored", "search"},
               start : Positions, page : Nat, count : Nat, inhibit : BOOLEAN, device : {0, 1, Absent}]

BackendTypes == BackendTypeOK /\ wire \in Wires

ControllerTypes ==
  /\ controller \in {"rk05", "rl02", "rp06"} /\ pc \in {"idle", "transfer", "finish"}
  /\ drive \in {0, 1} /\ stopped \in Int
  /\ cmd \in AnyCommand /\ done \in Nat /\ at \in Places /\ reg \in Regs
  /\ mem \in [Pages -> Values]
  /\ before \in [mem : [Pages -> Values], disk : [Sectors -> Values \cup {NoData}]]

-----------------------------------------------------------------------------
\* The sectors of the disk hold something; without snapshots no sector is in memory.
DiskHolds ==
  /\ \A s \in Sectors : s < Size => content[s] \in Values
  /\ ~backend.use_overlay => DOMAIN overlay = {}

\* What is on the wire, and where an answer is waited for.
OnTheWire ==
  /\ wire # Idle => status \in {"sent", "header"} /\ fd = "open"
  /\ status \in {"sent", "header"} => ~Overlaid
  /\ status = "header" => Reading
  /\ wire.is = "request" => status = "sent"
  /\ wire.is = "reply" /\ wire.error = FALSE =>
       /\ wire.value = content[sector]
       /\ ~Reading => content[sector] = request.value
  /\ status = "header" /\ wire.is = "reply" => wire.error = FALSE

\* What a call that succeeded has done.
Answered ==
  status = "ok" => IF Reading THEN buffer = seen[sector] ELSE seen[sector] = request.value

BackendInv == BackendTypes /\ DiskHolds /\ OnTheWire /\ Answered

\* The command, and the call it waits for.
Waits ==
  /\ pc # "transfer" => status = "none"
  /\ pc = "idle" => cmd = NoCommand /\ done = 0 /\ before = [mem |-> mem, disk |-> seen]
  /\ pc = "transfer" =>
       /\ cmd.f \in Transfers /\ Attached
       /\ done < cmd.count /\ cmd.page + cmd.count <= MaxCount /\ Offset(cmd.start) \in Starts
  /\ pc = "transfer" /\ status # "none" =>
       request = [kind |-> cmd.f, sector |-> First + done, value |-> mem[cmd.page + done]]

\* Where the transfer is, or where it came to a stop.
AtIs ==
  /\ pc = "transfer" \/ (pc = "finish" /\ Transferring /\ Attached) =>
       (controller # "rp06" => Offset(at) = First + done)
  /\ controller = "rl02" /\ stopped # Unknown =>
       \/ Offset(at) = stopped
       \/ pc # "idle" /\ Attached /\ (Transferring \/ cmd.f = "seek")

\* The registers as the command found them, and what it has changed of them.
Rk05Is ==
  controller = "rk05" /\ pc # "idle" =>
    /\ reg.da = cmd.start /\ reg.drive = cmd.device
    /\ cmd.f = "write" /\ cmd.inhibit = FALSE => reg.ba = cmd.page + done
    /\ pc = "transfer" => reg.failed = FALSE
    /\ pc = "finish" /\ Transferring =>
         \/ reg.failed = TRUE /\ reg.error # {} /\ done < cmd.count
         \/ reg.failed = FALSE /\ done = cmd.count /\ Attached

Rl02Is ==
  controller = "rl02" /\ pc # "idle" =>
    /\ reg.da = cmd.start /\ reg.ba = cmd.page
    /\ reg.failed = ~Attached
    /\ cmd.f = "header" /\ Attached => reg.mpr = Offset(at)

IInv ==
  BackendInv /\ ControllerTypes /\ Waits /\ TransferIsPrefix /\ AtIs /\ Rk05Is /\ Rl02Is

-----------------------------------------------------------------------------
(***************************************************************************)
(* The disk seen through the overlay.                                      *)
(***************************************************************************)

LEMMA SeenIs ==
  /\ DOMAIN seen = Sectors
  /\ \A s \in Sectors : seen[s] = IF s \in DOMAIN overlay THEN overlay[s] ELSE content[s]
  BY DEF seen

LEMMA RequestTypes ==
  ASSUME BackendTypes
  PROVE  /\ sector \in Sectors /\ request.value \in Values /\ request.kind \in {"read", "write"}
         /\ backend.kind \in {"file", "nbd"} /\ backend.use_overlay \in BOOLEAN
         /\ ~Reading <=> request.kind = "write"
  BY DEF BackendTypes, BackendTypeOK, sector, Reading

\* What the controllers see is of the right type.
LEMMA SeenTypes ==
  ASSUME BackendTypes
  PROVE  seen \in [Sectors -> Values \cup {NoData}]
  BY DEF BackendTypes, BackendTypeOK, seen

\* Behind the overlay, a call is of the content.
LEMMA BehindOverlay ==
  ASSUME BackendTypes, DiskHolds, ~Overlaid
  PROVE  /\ sector \notin DOMAIN overlay /\ seen[sector] = content[sector]
         /\ ~Reading => DOMAIN overlay = {}
  <1>1. sector \notin DOMAIN overlay /\ (~Reading => DOMAIN overlay = {})
    BY RequestTypes DEF Overlaid, DiskHolds
  <1> QED BY <1>1, RequestTypes, SeenIs

\* A write that no overlay takes changes the sector and no other.
LEMMA ContentWritten ==
  ASSUME BackendTypes, DiskHolds, ~Overlaid, ~Reading, UNCHANGED overlay,
         content' = [content EXCEPT ![sector] = request.value]
  PROVE  seen' = [seen EXCEPT ![sector] = request.value]
  <1>1. DOMAIN overlay = {} /\ content \in [Sectors -> Values \cup {NoData}]
    BY BehindOverlay DEF BackendTypes, BackendTypeOK
  <1>2. seen = content /\ seen' = content'
    BY <1>1 DEF seen
  <1> QED BY <1>2

\* A write into a file changes the sector, and the gap in front of it.
LEMMA FileWritten ==
  ASSUME BackendTypes, DiskHolds, FileWrite
  PROVE  /\ seen = content /\ seen' = content'
         /\ content' = [s \in Sectors |-> IF s = sector THEN request.value
                                         ELSE IF s < sector /\ content[s] = NoData THEN Zero
                                         ELSE content[s]]
  <1>1. ~Overlaid /\ ~Reading /\ UNCHANGED overlay
    BY DEF FileWrite, ToFile
  <1>2. DOMAIN overlay = {} /\ content \in [Sectors -> Values \cup {NoData}]
    BY <1>1, BehindOverlay DEF BackendTypes, BackendTypeOK
  <1>3. content' = [s \in Sectors |-> IF s = sector THEN request.value
                                     ELSE IF s < sector /\ content[s] = NoData THEN Zero
                                     ELSE content[s]]
    BY DEF FileWrite
  <1>4. content = [s \in Sectors |-> content[s]] /\ content' = [s \in Sectors |-> content'[s]]
    BY <1>2, <1>3
  <1>5. seen = [s \in Sectors |-> content[s]] /\ seen' = [s \in Sectors |-> content'[s]]
    BY <1>1, <1>2 DEF seen
  <1> QED BY <1>3, <1>4, <1>5

LEMMA OverlayWritten ==
  ASSUME BackendTypes, UNCHANGED content,
         overlay' = [s \in DOMAIN overlay \cup {sector} |->
                      IF s = sector THEN request.value ELSE overlay[s]]
  PROVE  seen' = [seen EXCEPT ![sector] = request.value]
  BY RequestTypes DEF seen

\* Nothing is on the wire unless an answer is waited for.
LEMMA WireIs ==
  ASSUME BackendTypes
  PROVE  /\ wire.is = "none" <=> wire = Idle
         /\ wire.is = "reply" => wire.error \in BOOLEAN /\ wire.value \in Values
  BY DEF BackendTypes, Wires, Idle

LEMMA WireIdle ==
  ASSUME wire' = Idle, status' \notin {"sent", "header"}
  PROVE  OnTheWire'
  BY DEF OnTheWire, Idle

LEMMA WireDropped ==
  ASSUME OnTheWire, wire' = Idle, UNCHANGED <<status, request, overlay, backend>>
  PROVE  OnTheWire'
  BY DEF OnTheWire, Idle, Overlaid, Reading, sector

\* The abstract status of the call.
phase == IF status \in {"ok", "failed", "none"} THEN status ELSE "busy"

LEMMA Stutters ==
  ASSUME UNCHANGED <<seen, request, buffer>>, phase' = phase
  PROVE  UNCHANGED D!vars
  BY DEF D!vars, phase

-----------------------------------------------------------------------------
(***************************************************************************)
(* The call: each step keeps the back-end's invariant, and is a step of    *)
(* the disk or none.                                                       *)
(***************************************************************************)
Keeps == BackendInv' /\ [D!Next]_D!vars

LEMMA NoRequestTypes ==
  /\ Blank \in Values /\ Zero \in Values
  /\ NoRequest \in [kind : {"read", "write"}, sector : Sectors, value : Values]
  BY SizeAssumption, ValuesAssumption DEF NoRequest

\* A step that only the wire, the connection or the server takes part in.
LEMMA Behind ==
  ASSUME BackendInv, UNCHANGED <<content, overlay, request, buffer, backend>>,
         BackendTypes', OnTheWire', status' # "ok", phase' = phase
  PROVE  Keeps
  <1>1. UNCHANGED seen
    BY DEF seen
  <1>2. DiskHolds' /\ Answered'
    BY DEF BackendInv, DiskHolds, Answered
  <1> QED BY <1>1, <1>2, Stutters DEF Keeps, BackendInv

\* A read is answered, a call fails.
LEMMA Reads ==
  ASSUME BackendInv, UNCHANGED <<content, overlay, request, backend>>, phase = "busy",
         BackendTypes', wire' = Idle, status' = "ok", Reading,
         buffer' = seen[sector], seen[sector] \in Values
  PROVE  Keeps
  <1>1. UNCHANGED seen /\ phase' = "ok"
    BY DEF seen, phase
  <1>2. D!ReadDone
    BY <1>1, ValuesAssumption DEF D!ReadDone, D!Busy, phase, Reading, sector
  <1>3. DiskHolds' /\ Answered'
    BY <1>1 DEF BackendInv, DiskHolds, Answered, sector, Reading
  <1>4. OnTheWire'
    BY WireIdle
  <1> QED BY <1>2, <1>3, <1>4 DEF Keeps, BackendInv, D!Next

LEMMA Fails ==
  ASSUME BackendInv, UNCHANGED <<content, overlay, request, buffer, backend>>, phase = "busy",
         BackendTypes', wire' = Idle, status' = "failed"
  PROVE  Keeps
  <1>1. UNCHANGED seen /\ phase' = "failed"
    BY DEF seen, phase
  <1>2. D!Fails
    BY <1>1 DEF D!Fails, phase
  <1>3. DiskHolds' /\ Answered'
    BY DEF BackendInv, DiskHolds, Answered
  <1>4. OnTheWire'
    BY WireIdle
  <1> QED BY <1>2, <1>3, <1>4 DEF Keeps, BackendInv, D!Next

\* A write is done.
LEMMA Writes ==
  ASSUME BackendInv, UNCHANGED <<request, buffer, backend>>, phase = "busy",
         BackendTypes', wire' = Idle, status' = "ok", ~Reading, DiskHolds',
         seen' \in {D!Stored, D!StoredBehindGap}
  PROVE  Keeps
  <1>1. phase' = "ok"
    BY DEF phase
  <1>2. request.kind = "write"
    BY RequestTypes DEF BackendInv
  <1>3. D!WriteDone
    BY <1>1, <1>2 DEF D!WriteDone, D!Busy, phase
  <1>4. seen'[sector] = request.value
    <2>1. seen \in [Sectors -> Values \cup {NoData}] /\ sector \in Sectors
      BY SeenTypes, RequestTypes DEF BackendInv
    <2> QED BY <2>1 DEF D!Stored, D!StoredBehindGap, sector
  <1>5. Answered'
    BY <1>4 DEF Answered, Reading, sector
  <1>6. OnTheWire'
    BY WireIdle
  <1> QED BY <1>3, <1>5, <1>6 DEF Keeps, BackendInv, D!Next

-----------------------------------------------------------------------------
(***************************************************************************)
(* The steps of the client.                                                *)
(***************************************************************************)
LEMMA ClientTypes ==
  ASSUME BackendInv, Client
  PROVE  BackendTypes'
  <1> USE DEF BackendInv, BackendTypes, BackendTypeOK
  <1>1. /\ request \in [kind : {"read", "write"}, sector : Sectors, value : Values]
        /\ sector \in Sectors /\ request.value \in Values /\ Idle \in Wires
        /\ [is |-> "request"] \in Wires
    BY DEF sector, Wires
  <1>2. /\ \A w \in Wires : w.is \in {"none", "request", "reply"}
        /\ Idle.is = "none" /\ [is |-> "request"].is = "request"
    BY DEF Wires, Idle
  <1>3. Fault => faults' \in 0..MaxFaults
    BY SizeAssumption DEF Fault
  <1>4. CASE get_from_overlay
    <2>1. overlay[sector] \in Values
      BY <1>4 DEF get_from_overlay, Overlaid
    <2> QED BY <1>4, <2>1 DEF get_from_overlay
  <1>5. CASE store_mem_range_in_overlay
    <2>1. DOMAIN overlay' = DOMAIN overlay \cup {sector}
      BY <1>5 DEF store_mem_range_in_overlay
    <2>2. \A s \in DOMAIN overlay' : overlay'[s] \in Values
      BY <1>1, <1>5 DEF store_mem_range_in_overlay
    <2> QED BY <1>1, <1>5, <2>1, <2>2 DEF store_mem_range_in_overlay
  <1>6. CASE FileRead
    <2>1. content[sector] \in Values
      BY <1>1, <1>6 DEF FileRead
    <2> QED BY <1>6, <2>1 DEF FileRead
  <1>7. CASE FileWrite
    <2>1. content' \in [Sectors -> Values \cup {NoData}]
      BY <1>1, <1>7, ValuesAssumption DEF FileWrite
    <2> QED BY <1>7, <2>1 DEF FileWrite
  <1>8. CASE FileFails
    <2>1. faults' \in 0..MaxFaults
      BY <1>3, <1>8 DEF FileFails
    <2> QED BY <1>8, <2>1 DEF FileFails
  <1>9. CASE Connect \/ ConnectRefused
    BY <1>1, <1>2, <1>9 DEF Connect, ConnectRefused, NbdUnchanged
  <1>10. CASE SendRequest
    BY <1>1, <1>2, <1>10 DEF SendRequest, NbdUnchanged
  <1>11. CASE SendFails \/ AnswerLost
    BY <1>1, <1>2, <1>11 DEF SendFails, AnswerLost, StartOver, NbdUnchanged
  <1>12. CASE BadMagic
    <2>1. faults' \in 0..MaxFaults
      BY <1>3, <1>12 DEF BadMagic
    <2> QED BY <1>1, <1>2, <1>12, <2>1 DEF BadMagic, StartOver, NbdUnchanged
  <1>13. CASE ReplyHeader
    <2>1. wire' \in Wires /\ status' \in {"failed", "header", "ok"}
      BY <1>1, <1>13 DEF ReplyHeader
    <2> QED BY <1>2, <1>13, <2>1 DEF ReplyHeader, NbdUnchanged
  <1>14. CASE Payload
    <2>1. wire.value \in Values
      BY <1>14, WireIs DEF Payload
    <2> QED BY <1>1, <1>2, <1>14, <2>1 DEF Payload, NbdUnchanged
  <1> QED BY <1>4, <1>5, <1>6, <1>7, <1>8, <1>9, <1>10, <1>11, <1>12, <1>13, <1>14 DEF Client

\* The connection, the request and the loss of an answer are not seen.
LEMMA Connection ==
  ASSUME BackendInv, BackendTypes',
         Connect \/ ConnectRefused \/ SendRequest \/ SendFails \/ AnswerLost \/ BadMagic
  PROVE  Keeps
  <1>1. UNCHANGED <<content, overlay, request, buffer, backend>>
    BY DEF Connect, ConnectRefused, SendRequest, SendFails, AnswerLost, BadMagic, StartOver,
           NbdUnchanged
  <1>2. phase = "busy" /\ phase' = "busy" /\ status' # "ok"
    BY DEF Connect, ConnectRefused, SendRequest, SendFails, AnswerLost, BadMagic, StartOver,
           ToServer, phase
  <1>3. CASE SendRequest
    <2>1. status' = "sent" /\ ~Overlaid /\ UNCHANGED fd
          /\ wire' = IF fd = "open" THEN [is |-> "request"] ELSE Idle
      BY <1>3 DEF SendRequest, ToServer
    <2>2. ~Overlaid'
      BY <1>1, <2>1 DEF Overlaid, Reading, sector
    <2>3. OnTheWire'
      BY <2>1, <2>2 DEF OnTheWire, Idle
    <2> QED BY <1>1, <1>2, <2>3, Behind
  <1>4. CASE ~SendRequest
    <2>1. status' \in {"called", "aborted"}
      BY <1>4 DEF Connect, ConnectRefused, SendFails, AnswerLost, BadMagic, StartOver, ToServer
    <2>2. status = "called" => wire = Idle
      BY DEF BackendInv, OnTheWire
    <2>3. wire' = Idle
      BY <1>4, <2>2 DEF Connect, ConnectRefused, SendFails, AnswerLost, BadMagic, StartOver,
                        ToServer
    <2>4. OnTheWire'
      BY <2>1, <2>3, WireIdle
    <2> QED BY <1>1, <1>2, <2>4, Behind
  <1> QED BY <1>3, <1>4

LEMMA ClientKeeps ==
  ASSUME BackendInv, Client
  PROVE  Keeps
  <1>1. BackendTypes' /\ BackendTypes /\ DiskHolds /\ OnTheWire
    BY ClientTypes DEF BackendInv
  <1>2. status = "called" => wire = Idle /\ phase = "busy"
    BY DEF BackendInv, OnTheWire, phase
  <1>3. status \in {"sent", "header"} => phase = "busy" /\ ~Overlaid
    BY DEF BackendInv, OnTheWire, phase
  <1>4. CASE get_from_overlay
    <2>1. seen[sector] = overlay[sector] /\ overlay[sector] \in Values
      BY <1>1, <1>4, SeenIs, RequestTypes
         DEF get_from_overlay, Overlaid, BackendTypes, BackendTypeOK
    <2> QED BY <1>1, <1>2, <1>4, <2>1, Reads DEF get_from_overlay
  <1>5. CASE store_mem_range_in_overlay
    <2>1. seen' = [seen EXCEPT ![sector] = request.value]
      BY <1>1, <1>5, OverlayWritten DEF store_mem_range_in_overlay
    <2>2. DiskHolds'
      BY <1>1, <1>5 DEF store_mem_range_in_overlay, DiskHolds, Overlaid
    <2>3. seen' = D!Stored
      BY <2>1 DEF D!Stored, sector
    <2> QED BY <1>1, <1>2, <1>5, <2>2, <2>3, Writes DEF store_mem_range_in_overlay
  <1>6. CASE FileRead
    <2>1. seen[sector] = content[sector]
      BY <1>1, <1>6, BehindOverlay DEF FileRead, ToFile
    <2>2. content[sector] \in Values
      BY <1>1, <1>6, RequestTypes DEF FileRead, BackendTypes, BackendTypeOK
    <2> QED BY <1>1, <1>2, <1>6, <2>1, <2>2, Reads DEF FileRead, ToFile
  <1>7. CASE FileWrite
    <2>1. seen' = D!StoredBehindGap
      BY <1>1, <1>7, FileWritten DEF D!StoredBehindGap, sector
    <2>2. \A s \in Sectors : s < Size => content'[s] \in Values
      BY <1>1, <1>7, RequestTypes, ValuesAssumption DEF FileWrite, DiskHolds
    <2>3. DiskHolds'
      BY <1>1, <1>7, <2>2 DEF FileWrite, DiskHolds
    <2> QED BY <1>1, <1>2, <1>7, <2>1, <2>3, Writes DEF FileWrite, ToFile
  <1>8. CASE FileFails
    BY <1>1, <1>2, <1>8, Fails DEF FileFails, ToFile
  <1>9. CASE ReplyHeader
    <2>1. /\ status = "sent" /\ wire.is = "reply" /\ ~Overlaid /\ phase = "busy"
          /\ wire.error \in BOOLEAN
          /\ UNCHANGED <<content, overlay, request, buffer, backend, fd>>
      BY <1>1, <1>3, <1>9, WireIs DEF ReplyHeader, NbdUnchanged
    <2>2. CASE wire.error = TRUE
      BY <1>1, <1>9, <2>1, <2>2, Fails DEF ReplyHeader
    <2>3. CASE wire.error = FALSE /\ Reading
      <3>1. status' = "header" /\ wire' = wire
        BY <1>9, <2>3 DEF ReplyHeader
      <3>2. wire # Idle => fd = "open"
        BY <1>1 DEF OnTheWire
      <3>3. OnTheWire'
        BY <1>1, <2>1, <2>3, <3>1, <3>2 DEF OnTheWire, Overlaid, Reading, sector
      <3>4. phase' = "busy"
        BY <3>1 DEF phase
      <3> QED BY <1>1, <2>1, <3>1, <3>3, <3>4, Behind
    <2>4. CASE wire.error = FALSE /\ ~Reading
      <3>1. status' = "ok" /\ wire' = Idle
        BY <1>9, <2>4 DEF ReplyHeader
      <3>2. content[sector] = request.value
        BY <1>1, <2>1, <2>4 DEF OnTheWire
      <3>3. UNCHANGED seen /\ seen[sector] = request.value
        BY <1>1, <2>1, <3>2, BehindOverlay DEF seen
      <3>4. seen' = D!Stored
        BY <1>1, <3>3, SeenTypes DEF D!Stored, sector
      <3>5. DiskHolds'
        BY <1>1, <2>1 DEF DiskHolds
      <3> QED BY <1>1, <2>1, <2>4, <3>1, <3>4, <3>5, Writes
    <2> QED BY <2>1, <2>2, <2>3, <2>4
  <1>10. CASE Payload
    <2>1. /\ status = "header" /\ wire.is = "reply" /\ ~Overlaid /\ phase = "busy"
          /\ UNCHANGED <<content, overlay, request, backend>>
          /\ status' = "ok" /\ wire' = Idle /\ buffer' = wire.value
      BY <1>3, <1>10 DEF Payload, NbdUnchanged
    <2>2. Reading /\ wire.value = content[sector] /\ wire.value \in Values
      BY <1>1, <2>1, WireIs DEF OnTheWire
    <2>3. seen[sector] = content[sector]
      BY <1>1, <2>1, BehindOverlay
    <2> QED BY <1>1, <2>1, <2>2, <2>3, Reads
  <1> QED BY <1>1, <1>4, <1>5, <1>6, <1>7, <1>8, <1>9, <1>10, Connection DEF Client

-----------------------------------------------------------------------------
(***************************************************************************)
(* The steps of the server and the network.                                *)
(***************************************************************************)
LEMMA ServerTypes ==
  ASSUME BackendInv, Server
  PROVE  BackendTypes'
  <1> USE DEF BackendInv, BackendTypes, BackendTypeOK
  <1>1. sector \in Sectors /\ request.value \in Values /\ Idle \in Wires
    BY DEF sector, Wires
  <1>2. /\ \A w \in Wires : w.is \in {"none", "request", "reply"}
        /\ \A e \in BOOLEAN, v \in Values : Reply(e, v) \in Wires
    BY DEF Wires, Idle, Reply
  <1>3. Fault => faults' \in 0..MaxFaults
    BY SizeAssumption DEF Fault
  <1>4. CASE Serve
    <2>1. content' \in [Sectors -> Values \cup {NoData}] /\ content'[sector] \in Values
      <3>1. content[sector] \in Values
        BY <1>1, <1>4 DEF Serve, DiskHolds
      <3> QED BY <1>1, <1>4, <3>1 DEF Serve
    <2>2. wire' \in Wires
      BY <1>2, <1>4, <2>1 DEF Serve
    <2> QED BY <1>2, <1>4, <2>1, <2>2 DEF Serve, ClientUnchanged
  <1>5. CASE ServeError
    <2>1. wire' \in Wires
      BY <1>1, <1>2, <1>5 DEF ServeError
    <2>2. faults' \in 0..MaxFaults
      BY <1>3, <1>5 DEF ServeError
    <2> QED BY <1>2, <1>5, <2>1, <2>2 DEF ServeError, ClientUnchanged
  <1>6. CASE Drop \/ Crash
    <2>1. faults' \in 0..MaxFaults
      BY <1>3, <1>6 DEF Drop, Crash
    <2>2. wire' \in Wires /\ wire'.is \in {"none", "request", "reply"}
      BY <1>1, <1>2, <1>6 DEF Drop, Crash
    <2> QED BY <1>6, <2>1, <2>2 DEF Drop, Crash, ClientUnchanged
  <1>7. CASE Restart
    BY <1>7 DEF Restart, ClientUnchanged
  <1> QED BY <1>4, <1>5, <1>6, <1>7 DEF Server

LEMMA ServerKeeps ==
  ASSUME BackendInv, Server
  PROVE  Keeps
  <1>1. BackendTypes' /\ BackendTypes /\ DiskHolds /\ OnTheWire
    BY ServerTypes DEF BackendInv
  <1>2. UNCHANGED <<backend, overlay, request, status, buffer>> /\ phase' = phase
    BY DEF Server, Serve, ServeError, Drop, Crash, Restart, ClientUnchanged, phase
  <1>3. wire.is = "request" =>
          /\ status = "sent" /\ phase = "busy" /\ ~Overlaid /\ wire # Idle /\ fd = "open"
    BY <1>1 DEF OnTheWire, phase, Idle
  <1>4. CASE Serve /\ ~Reading
    <2>1. /\ wire.is = "request" /\ sector < Size /\ UNCHANGED fd
          /\ content' = [content EXCEPT ![sector] = request.value]
          /\ wire' = Reply(FALSE, content'[sector])
      BY <1>4 DEF Serve
    <2>2. seen' = [seen EXCEPT ![sector] = request.value]
      BY <1>1, <1>2, <1>3, <1>4, <2>1, ContentWritten
    <2>3. D!WriteLands
      BY <1>1, <1>2, <1>3, <1>4, <2>1, <2>2, RequestTypes
         DEF D!WriteLands, D!Busy, D!Stored, phase, sector
    <2>4. content'[sector] = request.value /\ request.value \in Values
          /\ \A s \in Sectors : s # sector => content'[s] = content[s]
      BY <1>1, <2>1, RequestTypes DEF BackendTypes, BackendTypeOK
    <2>5. DiskHolds'
      BY <1>1, <1>2, <2>4 DEF DiskHolds
    <2>6. UNCHANGED sector /\ ~Overlaid' /\ ~Reading'
      BY <1>2, <1>3, <1>4, <2>1 DEF sector, Overlaid, Reading
    <2>7. /\ wire'.is = "reply" /\ wire'.error = FALSE /\ wire'.value = content'[sector]
          /\ wire'.is # "request"
      BY <2>1 DEF Reply
    <2>8. OnTheWire'
      BY <1>2, <1>3, <2>1, <2>4, <2>6, <2>7 DEF OnTheWire
    <2>9. Answered'
      BY <1>2, <1>3, <2>1 DEF Answered
    <2> QED BY <1>1, <2>3, <2>5, <2>8, <2>9 DEF Keeps, BackendInv, D!Next
  <1>5. CASE ~(Serve /\ ~Reading)
    <2>1. UNCHANGED content
      BY <1>5 DEF Server, Serve, ServeError, Drop, Crash, Restart
    <2>2. UNCHANGED <<seen, sector>> /\ (Reading' <=> Reading) /\ (Overlaid' <=> Overlaid)
      BY <1>2, <2>1 DEF seen, sector, Reading, Overlaid
    <2>3. OnTheWire'
      <3>1. CASE Drop \/ Crash
        BY <1>1, <1>2, <3>1, WireDropped DEF Drop, Crash
      <3>2. CASE Restart
        BY <1>1, <1>2, <2>1, <2>2, <3>2 DEF Restart, OnTheWire
      <3>3. CASE Serve
        <4>1. wire.is = "request" /\ wire' = Reply(FALSE, content[sector]) /\ UNCHANGED fd
          BY <2>1, <3>3 DEF Serve, sector
        <4>2. /\ wire'.is = "reply" /\ wire'.error = FALSE /\ wire'.value = content[sector]
              /\ wire'.is # "request" /\ Reading
          BY <1>5, <3>3, <4>1 DEF Reply
        <4> QED BY <1>2, <1>3, <2>1, <2>2, <4>1, <4>2 DEF OnTheWire
      <3>4. CASE ServeError
        <4>1. wire.is = "request" /\ wire' = Reply(TRUE, request.value) /\ UNCHANGED fd
          BY <3>4 DEF ServeError
        <4>2. wire'.is = "reply" /\ wire'.error = TRUE /\ wire'.is # "request"
          BY <4>1 DEF Reply
        <4> QED BY <1>2, <1>3, <2>1, <2>2, <4>1, <4>2 DEF OnTheWire
      <3> QED BY <3>1, <3>2, <3>3, <3>4 DEF Server
    <2>4. DiskHolds' /\ Answered'
      BY <1>1, <1>2, <2>1, <2>2 DEF BackendInv, DiskHolds, Answered
    <2>5. UNCHANGED D!vars
      BY <1>2, <2>2, Stutters
    <2> QED BY <1>1, <2>3, <2>4, <2>5 DEF Keeps, BackendInv
  <1> QED BY <1>4, <1>5

\* Nothing but a file fills a gap.
LEMMA OnlyFileFills ==
  ASSUME BackendInv, Client \/ Server, ~FileWrite, NEW s \in Sectors, s # sector
  PROVE  seen'[s] = seen[s]
  <1>1. BackendTypes /\ DiskHolds /\ OnTheWire
    BY DEF BackendInv
  <1>2. CASE store_mem_range_in_overlay
    BY <1>1, <1>2, OverlayWritten DEF store_mem_range_in_overlay, seen
  <1>3. CASE Serve
    <2>1. ~Overlaid
      BY <1>1, <1>3 DEF Serve, OnTheWire, Idle
    <2> QED BY <1>1, <1>3, <2>1 DEF Serve, ClientUnchanged, seen, BackendTypes, BackendTypeOK
  <1>4. CASE ~store_mem_range_in_overlay /\ ~Serve
    <2>1. UNCHANGED <<content, overlay>>
      BY <1>4 DEF Client, get_from_overlay, FileRead, FileFails, Connect, ConnectRefused,
                  SendRequest, SendFails, ReplyHeader, Payload, AnswerLost, BadMagic, NbdUnchanged,
                  Server, ServeError, Drop, Crash, Restart, ClientUnchanged
    <2> QED BY <2>1 DEF seen
  <1> QED BY <1>2, <1>3, <1>4

LEMMA ClientServerKeepBackend ==
  ASSUME Client \/ Server
  PROVE  UNCHANGED backend
  BY DEF Client, get_from_overlay, store_mem_range_in_overlay, FileRead, FileWrite, FileFails,
         Connect, ConnectRefused, SendRequest, SendFails, ReplyHeader, Payload, AnswerLost,
         BadMagic, NbdUnchanged, Server, Serve, ServeError, Drop, Crash, Restart, ClientUnchanged

-----------------------------------------------------------------------------
(***************************************************************************)
(* The call and its end.                                                   *)
(***************************************************************************)
LEMMA CallKeeps ==
  ASSUME BackendInv, NEW kind \in {"read", "write"}, NEW s \in Sectors, NEW v \in Values,
         Call(kind, s, v)
  PROVE  Keeps
  <1>1. /\ UNCHANGED <<backend, content, overlay, buffer, wire, seen>>
        /\ status = "none" /\ status' = "called"
        /\ request' = [kind |-> kind, sector |-> s, value |-> v]
    BY DEF Call, seen
  <1>2. BackendTypes'
    BY <1>1 DEF Call, BackendInv, BackendTypes, BackendTypeOK
  <1>3. wire' = Idle
    BY <1>1 DEF BackendInv, OnTheWire
  <1>4. OnTheWire' /\ Answered' /\ DiskHolds'
    BY <1>1, <1>3, WireIdle DEF BackendInv, Answered, DiskHolds
  <1>5. phase = "none" /\ phase' = "busy"
    BY <1>1 DEF phase
  <1>6. D!Call(kind, s, v)
    BY <1>1, <1>5 DEF D!Call, phase
  <1> QED BY <1>2, <1>4, <1>6 DEF Keeps, BackendInv, D!Next

LEMMA CollectKeeps ==
  ASSUME BackendInv, Collect
  PROVE  Keeps
  <1>1. /\ UNCHANGED <<backend, content, overlay, buffer, wire, seen>>
        /\ status \in {"ok", "failed"} /\ status' = "none" /\ request' = NoRequest
    BY DEF Collect, seen
  <1>2. BackendTypes'
    BY <1>1, NoRequestTypes DEF Collect, BackendInv, BackendTypes, BackendTypeOK
  <1>3. wire' = Idle
    BY <1>1 DEF BackendInv, OnTheWire
  <1>4. OnTheWire' /\ Answered' /\ DiskHolds'
    BY <1>1, <1>3, WireIdle DEF BackendInv, Answered, DiskHolds
  <1>5. phase = status /\ phase' = "none"
    BY <1>1 DEF phase
  <1>6. D!Collect
    BY <1>1, <1>5, NoRequestTypes DEF D!Collect, D!Requests, phase
  <1> QED BY <1>2, <1>4, <1>6 DEF Keeps, BackendInv, D!Next

\* Nothing of the back-end moves.
LEMMA BackendStays ==
  ASSUME BackendInv, UNCHANGED backendVars
  PROVE  Keeps
  <1> USE DEF backendVars
  <1>1. UNCHANGED seen /\ phase' = phase
    BY DEF seen, phase
  <1>2. BackendTypes'
    BY DEF BackendInv, BackendTypes, BackendTypeOK
  <1>3. DiskHolds' /\ Answered' /\ OnTheWire'
    BY <1>1 DEF BackendInv, DiskHolds, Answered, OnTheWire, Overlaid, Reading, sector
  <1> QED BY <1>1, <1>2, <1>3, Stutters DEF Keeps, BackendInv

-----------------------------------------------------------------------------
(***************************************************************************)
(* The controller.                                                         *)
(***************************************************************************)

\* A sector on: the next number.
LEMMA AdvanceIs ==
  ASSUME NEW p \in Places
  PROVE  Advance(p) \in Places /\ Offset(Advance(p)) = Offset(p) + 1
  <1> USE DEF Places, SectorsPerTrack, Heads
  <1>1. p.c \in Nat /\ p.h \in 0..1 /\ p.s \in 0..1
    OBVIOUS
  <1>2. CASE p.s = 0
    <2>1. Advance(p) = [p EXCEPT !.s = 1]
      BY <1>2 DEF Advance
    <2>2. Advance(p) \in Places /\ Advance(p).c = p.c /\ Advance(p).h = p.h /\ Advance(p).s = 1
      BY <2>1
    <2> QED BY <1>1, <1>2, <2>2 DEF Offset
  <1>3. CASE p.s = 1 /\ p.h = 0
    <2>1. Advance(p) = [p EXCEPT !.s = 0, !.h = 1]
      BY <1>3 DEF Advance
    <2>2. Advance(p) = [c |-> p.c, h |-> 1, s |-> 0]
      BY <1>1, <2>1
    <2>3. Advance(p) \in Places /\ Advance(p).c = p.c /\ Advance(p).h = 1 /\ Advance(p).s = 0
      BY <1>1, <2>2
    <2> QED BY <1>1, <1>3, <2>3 DEF Offset
  <1>4. CASE p.s = 1 /\ p.h = 1
    <2>1. Advance(p) = [c |-> p.c + 1, h |-> 0, s |-> 0]
      BY <1>4 DEF Advance
    <2>2. Advance(p) \in Places /\ Advance(p).c = p.c + 1 /\ Advance(p).h = 0 /\ Advance(p).s = 0
      BY <1>1, <2>1
    <2> QED BY <1>1, <1>4, <2>2 DEF Offset
  <1> QED BY <1>1, <1>2, <1>3, <1>4

LEMMA PositionIs ==
  ASSUME NEW p \in Positions
  PROVE  p \in Places /\ Offset(p) \in Nat
  BY DEF Positions, Places, Offset, SectorsPerTrack, Heads, Tracks

\* The sector and the page that a transfer is at.
LEMMA Here ==
  ASSUME ControllerTypes, Waits, pc = "transfer"
  PROVE  /\ cmd.f \in {"read", "write"} /\ cmd.page \in Nat /\ cmd.count \in Nat
         /\ done \in Nat /\ First \in Nat
         /\ First + done \in Sectors /\ cmd.page + done \in Pages
         /\ mem[cmd.page + done] \in Values
  <1>1. /\ cmd.f \in {"read", "write"} /\ cmd.page \in Nat /\ cmd.count \in Nat
        /\ cmd.start \in Positions /\ done \in Nat
    BY DEF ControllerTypes, AnyCommand, Waits, Transfers
  <1>2. /\ done < cmd.count /\ cmd.page + cmd.count <= MaxCount /\ First \in Starts
        /\ First \in Nat
    BY <1>1, PositionIs DEF Waits, First
  <1>3. First..(First + MaxCount - 1) \subseteq Sectors /\ MaxCount \in Nat
    BY <1>2, StartsAssumption
  <1>4. First + done \in First..(First + MaxCount - 1)
    BY <1>1, <1>2, <1>3
  <1>5. cmd.page + done \in Pages
    BY <1>1, <1>2, <1>3 DEF Pages
  <1> QED BY <1>1, <1>2, <1>3, <1>4, <1>5 DEF ControllerTypes

\* A command the program may give.
LEMMA CommandIs ==
  ASSUME ControllerTypes, NEW k \in Commands
  PROVE  /\ k \in AnyCommand /\ k.f \in Functions /\ k.count >= 1
         /\ k.page + k.count <= MaxCount /\ Offset(k.start) \in Starts
         /\ k.device = Absent => k.count = 1
         /\ controller = "rp06" => k.device # Absent
  <1>1. /\ k \in [f : Functions, start : {p \in Positions : Offset(p) \in Starts},
                  page : Pages, count : 1..MaxCount, inhibit : BOOLEAN, device : {drive, Absent}]
        /\ k.page + k.count <= MaxCount
        /\ k.device = Absent => k.count = 1
        /\ k.device = Absent => controller # "rp06"
    BY DEF Commands
  <1>4. {drive, Absent} \subseteq {0, 1, Absent}
    BY DEF ControllerTypes
  <1>2. Functions \subseteq Transfers \cup {"reset", "seek", "other", "status", "header", "ignored", "search"}
    BY DEF Functions, ControllerTypes
  <1>3. Pages \subseteq Nat /\ 1..MaxCount \subseteq Nat /\ \A c \in 1..MaxCount : c >= 1
    BY StartsAssumption DEF Pages
  <1> QED BY <1>1, <1>2, <1>3, <1>4 DEF AnyCommand

LEMMA NoCommandIs ==
  NoCommand \in AnyCommand /\ NoCommand.f \notin Transfers /\ Origin \in Places /\ Cleared \in Regs
  BY DEF NoCommand, AnyCommand, Origin, Positions, Transfers, Places, Cleared, Regs,
         Tracks, Heads, SectorsPerTrack, Absent, Unknown

\* The start of a command.
LEMMA GivenIs ==
  ASSUME ControllerTypes, NEW k \in Commands
  PROVE  /\ Given(k) \in Regs /\ Given(k).failed = reg.failed /\ Given(k).error = reg.error
         /\ Given(k).da = k.start /\ Given(k).drive = k.device /\ Given(k).ba = k.page
  <1>1. k.start \in Places /\ k.page \in Int /\ k.count \in Int /\ k.device \in Int
    BY CommandIs, PositionIs DEF AnyCommand, Absent
  <1> QED BY <1>1 DEF Given, ControllerTypes, Regs

LEMMA StartRk05Is ==
  ASSUME ControllerTypes, NEW k \in Commands, StartRk05(k), controller = "rk05"
  PROVE  /\ at' = k.start /\ at' \in Places /\ reg' \in Regs
         /\ reg'.da = k.start /\ reg'.drive = k.device /\ reg'.ba = k.page
         /\ pc' \in {"transfer", "finish"}
         /\ pc' = "transfer" <=> k.f \in Transfers /\ k.device # Absent
         /\ pc' = "transfer" => reg'.failed = FALSE
         /\ pc' = "finish" /\ k.f \in Transfers => reg'.failed = TRUE /\ 128 \in reg'.error
  <1>1. Given(k) \in Regs /\ k \in AnyCommand /\ k.start \in Places
    BY GivenIs, CommandIs, PositionIs DEF AnyCommand
  <1> DEFINE r == [Given(k) EXCEPT !.failed = FALSE, !.found = FALSE, !.ready = FALSE]
             absent == k.f \in Transfers /\ k.device = Absent
  <1>2. /\ r \in Regs /\ r.failed = FALSE
        /\ r.da = k.start /\ r.drive = k.device /\ r.ba = k.page
    BY <1>1, GivenIs DEF Regs
  <1>3. /\ at' = k.start
        /\ reg' = CASE absent -> [r EXCEPT !.error = @ \cup {128}, !.failed = TRUE]
                    [] k.f = "reset" -> [r EXCEPT !.error = {}]
                    [] k.f = "seek" -> [r EXCEPT !.found = TRUE]
                    [] OTHER -> r
        /\ pc' = IF k.f \in Transfers /\ ~absent THEN "transfer" ELSE "finish"
    BY DEF StartRk05
  <1> HIDE DEF r
  <1>5. CASE absent
    <2>1. reg' = [r EXCEPT !.error = @ \cup {128}, !.failed = TRUE]
      BY <1>3, <1>5 DEF Transfers
    <2> DEFINE e == r.error \cup {128}
    <2>2. e \in SUBSET Nat /\ 128 \in e
      BY <1>2 DEF Regs
    <2>3. reg' = [r EXCEPT !.error = e, !.failed = TRUE]
      BY <2>1
    <2> HIDE DEF e
    <2>4. /\ reg' \in Regs /\ reg'.failed = TRUE /\ 128 \in reg'.error
          /\ reg'.da = r.da /\ reg'.drive = r.drive /\ reg'.ba = r.ba
      BY <1>2, <2>2, <2>3 DEF Regs
    <2> QED BY <1>1, <1>2, <1>3, <1>5, <2>4
  <1>6. CASE ~absent
    <2>1. \/ reg' = [r EXCEPT !.error = {}]
          \/ reg' = [r EXCEPT !.found = TRUE]
          \/ reg' = r
      BY <1>3, <1>6
    <2>2. /\ reg' \in Regs /\ reg'.failed = FALSE
          /\ reg'.da = r.da /\ reg'.drive = r.drive /\ reg'.ba = r.ba
      BY <1>2, <2>1 DEF Regs
    <2> QED BY <1>1, <1>2, <1>3, <1>6, <2>2
  <1> QED BY <1>5, <1>6

LEMMA StartRl02Is ==
  ASSUME ControllerTypes, NEW k \in Commands, StartRl02(k)
  PROVE  /\ at' \in Places /\ reg' \in Regs /\ pc' \in {"transfer", "finish"}
         /\ reg'.da = k.start /\ reg'.ba = k.page /\ reg'.failed = (k.device = Absent)
         /\ k.f = "header" /\ k.device # Absent => reg'.mpr = Offset(at)
         /\ pc' = "transfer" <=> k.f \in Transfers /\ k.device # Absent
         /\ pc' = "transfer" => at' = k.start
         /\ at' = at \/ (k.device # Absent /\ k.f \in Transfers \cup {"seek"})
  <1>1. Given(k) \in Regs /\ k.start \in Places /\ at \in Places
    BY GivenIs, CommandIs, PositionIs DEF AnyCommand, ControllerTypes
  <1>2. /\ reg' \in Regs /\ reg'.da = k.start /\ reg'.ba = k.page
        /\ reg'.failed = (k.device = Absent)
        /\ k.f = "header" /\ k.device # Absent => reg'.mpr = Offset(at)
    <2> DEFINE absent == k.device = Absent
               r == [Given(k) EXCEPT !.failed = absent, !.ready = FALSE]
               m == IF k.f = "header" THEN Offset(at) ELSE Unknown
    <2>1. reg' = IF absent \/ k.f \in {"seek", "other"} THEN r ELSE [r EXCEPT !.mpr = m]
      BY DEF StartRl02
    <2>2. absent \in BOOLEAN /\ m \in Int /\ (k.f = "header" => m = Offset(at))
      BY <1>1 DEF Unknown, Offset, Places, Heads, SectorsPerTrack
    <2>3. k.f = "header" /\ ~absent => ~(absent \/ k.f \in {"seek", "other"})
      OBVIOUS
    <2>4. ASSUME NEW b \in BOOLEAN, NEW s,
                 s = [Given(k) EXCEPT !.failed = b, !.ready = FALSE]
          PROVE  s \in Regs /\ s.da = k.start /\ s.ba = k.page /\ s.failed = b
      BY <1>1, <2>4, GivenIs DEF Regs
    <2>5. r \in Regs /\ r.da = k.start /\ r.ba = k.page /\ r.failed = absent
      BY <2>2, <2>4
    <2> HIDE DEF r, m
    <2>6. reg' \in {r, [r EXCEPT !.mpr = m]}
      BY <2>1
    <2>7. reg' \in Regs /\ reg'.da = k.start /\ reg'.ba = k.page /\ reg'.failed = r.failed
      BY <2>2, <2>5, <2>6 DEF Regs
    <2>8. ASSUME k.f = "header" /\ ~absent
          PROVE  reg'.mpr = Offset(at)
      <3>1. reg' = [r EXCEPT !.mpr = m] /\ m = Offset(at)
        BY <2>1, <2>2, <2>3, <2>8
      <3> QED BY <2>5, <3>1 DEF Regs
    <2> QED BY <2>5, <2>7, <2>8
  <1>3. /\ pc' \in {"transfer", "finish"}
        /\ pc' = "transfer" <=> k.f \in Transfers /\ k.device # Absent
    BY <1>1 DEF StartRl02
  <1>4. pc' = "transfer" => at' = k.start
    BY <1>1, <1>3 DEF StartRl02, Transfers
  <1>5. at' \in Places
    <2>1. ASSUME NEW by \in -2..2,
                 at' = [at EXCEPT !.c = IF @ + by < 0 THEN 0
                                        ELSE IF @ + by >= Tracks THEN Tracks - 1 ELSE @ + by]
          PROVE  at' \in Places
      BY <1>1, <2>1 DEF Places, Tracks
    <2> QED BY <1>1, <2>1 DEF StartRl02
  <1>6. at' = at \/ (k.device # Absent /\ k.f \in Transfers \cup {"seek"})
    BY DEF StartRl02
  <1> QED BY <1>2, <1>3, <1>4, <1>5, <1>6

LEMMA StartRp06Is ==
  ASSUME ControllerTypes, NEW k \in Commands, StartRp06(k), controller = "rp06"
  PROVE  /\ at' \in Places /\ reg' \in Regs /\ pc' \in {"transfer", "finish"}
         /\ pc' = "transfer" <=> k.f \in Transfers /\ k.device # Absent
  <1>1. /\ Given(k) \in Regs /\ k.device # Absent
        /\ k.start.c \in Int /\ at \in Places
    BY GivenIs, CommandIs DEF AnyCommand, Positions, ControllerTypes
  <1>2. reg' \in Regs
    BY <1>1 DEF StartRp06, Regs
  <1> QED BY <1>1, <1>2 DEF StartRp06

-----------------------------------------------------------------------------
(***************************************************************************)
(* The steps of a command.                                                 *)
(***************************************************************************)
KeepsAll == IInv' /\ [D!Next]_D!vars

\* Nothing has been moved yet, or any more.
LEMMA NothingMoved ==
  ASSUME done' = 0, mem' \in [Pages -> Values], before' = [mem |-> mem', disk |-> seen']
  PROVE  TransferIsPrefix'
  <1>1. before'.mem = mem' /\ before'.disk = seen'
    OBVIOUS
  <1>2. \A n \in Int : n \notin 0..(done' - 1)
    OBVIOUS
  <1>3. \A n : n \notin 0..(done' - 1)
    BY <1>2
  <1>4. mem' = [p \in Pages |-> mem'[p]]
    OBVIOUS
  <1> QED BY <1>1, <1>3, <1>4 DEF TransferIsPrefix

\* A step of the back-end alone moves no page.
LEMMA MovesNothing ==
  ASSUME TransferIsPrefix, UNCHANGED <<seen, mem, before, cmd, done, backend>>
  PROVE  TransferIsPrefix'
  BY DEF TransferIsPrefix, First

\* Nor does it change a register.
LEMMA RegistersStay ==
  ASSUME AtIs, Rk05Is, Rl02Is, UNCHANGED <<controller, pc, cmd, done, at, reg, stopped>>
  PROVE  AtIs' /\ Rk05Is' /\ Rl02Is'
  BY DEF AtIs, Rk05Is, Rl02Is, Transferring, Attached, First

LEMMA StartKeeps ==
  ASSUME IInv, Start
  PROVE  KeepsAll
  <1> USE DEF IInv
  <1>1. PICK k \in Commands :
          /\ cmd' = k
          /\ CASE controller = "rk05" -> StartRk05(k)
               [] controller = "rl02" -> StartRl02(k)
               [] controller = "rp06" -> StartRp06(k)
    BY DEF Start
  <1>2. /\ pc = "idle"
        /\ UNCHANGED <<controller, drive, ie, done, mem, raised, before, stopped, backendVars>>
        /\ UNCHANGED <<content, overlay, seen, status>>
    BY DEF Start, backendVars, seen
  <1>3. /\ k \in AnyCommand /\ k.f \in Functions /\ k.count >= 1
        /\ k.page + k.count <= MaxCount /\ Offset(k.start) \in Starts
        /\ k.device = Absent => k.count = 1
        /\ controller = "rp06" => k.device # Absent
        /\ k.start \in Positions
    BY CommandIs DEF AnyCommand
  <1>4. status = "none" /\ done = 0 /\ before = [mem |-> mem, disk |-> seen]
    BY <1>2 DEF Waits
  <1>rk. ASSUME controller = "rk05"
         PROVE  /\ at' = k.start /\ at' \in Places /\ reg' \in Regs
                /\ reg'.da = k.start /\ reg'.drive = k.device /\ reg'.ba = k.page
                /\ pc' \in {"transfer", "finish"}
                /\ pc' = "transfer" <=> k.f \in Transfers /\ k.device # Absent
                /\ pc' = "transfer" => reg'.failed = FALSE
                /\ pc' = "finish" /\ k.f \in Transfers => reg'.failed = TRUE /\ 128 \in reg'.error
    <2>1. StartRk05(k)
      BY <1>1, <1>rk
    <2> QED BY <1>rk, <2>1, StartRk05Is
  <1>rl. ASSUME controller = "rl02"
         PROVE  /\ at' \in Places /\ reg' \in Regs /\ pc' \in {"transfer", "finish"}
                /\ reg'.da = k.start /\ reg'.ba = k.page /\ reg'.failed = (k.device = Absent)
                /\ k.f = "header" /\ k.device # Absent => reg'.mpr = Offset(at)
                /\ pc' = "transfer" <=> k.f \in Transfers /\ k.device # Absent
                /\ pc' = "transfer" => at' = k.start
                /\ at' = at \/ (k.device # Absent /\ k.f \in Transfers \cup {"seek"})
    <2>1. StartRl02(k)
      BY <1>1, <1>rl
    <2> QED BY <1>rl, <2>1, StartRl02Is
  <1>rp. ASSUME controller = "rp06"
         PROVE  /\ at' \in Places /\ reg' \in Regs /\ pc' \in {"transfer", "finish"}
                /\ pc' = "transfer" <=> k.f \in Transfers /\ k.device # Absent
    <2>1. StartRp06(k)
      BY <1>1, <1>rp
    <2> QED BY <1>rp, <2>1, StartRp06Is
  <1>5. /\ at' \in Places /\ reg' \in Regs /\ pc' \in {"transfer", "finish"}
        /\ pc' = "transfer" <=> k.f \in Transfers /\ k.device # Absent
        /\ pc' = "transfer" /\ controller # "rp06" => at' = k.start
    BY <1>rk, <1>rl, <1>rp DEF ControllerTypes
  <1>6. Keeps
    BY <1>2, BackendStays
  <1>7. ControllerTypes'
    BY <1>1, <1>2, <1>3, <1>5 DEF ControllerTypes
  <1>8. Waits'
    <2>1. k.count \in Nat
      BY <1>3 DEF AnyCommand
    <2> QED BY <1>1, <1>2, <1>3, <1>4, <1>5, <2>1 DEF Waits, Attached
  <1>9. TransferIsPrefix'
    BY <1>2, <1>4, NothingMoved DEF ControllerTypes
  <1>10. AtIs'
    <2>1. First' = Offset(k.start) /\ Offset(k.start) \in Nat
      BY <1>1, <1>3, PositionIs DEF First
    <2>2. pc' = "transfer" \/ (pc' = "finish" /\ Transferring' /\ Attached') => pc' = "transfer"
      BY <1>1, <1>5 DEF Transferring, Attached
    <2>3. pc' = "transfer" /\ controller' # "rp06" => Offset(at') = First' + done'
      BY <1>2, <1>4, <1>5, <2>1
    <2>4. ASSUME controller' = "rl02", stopped' # Unknown
          PROVE  Offset(at') = stopped' \/ (Attached' /\ (Transferring' \/ cmd'.f = "seek"))
      <3>1. Offset(at) = stopped
        BY <1>2, <2>4 DEF AtIs
      <3>2. at' = at \/ (k.device # Absent /\ k.f \in Transfers \cup {"seek"})
        BY <1>2, <1>rl, <2>4
      <3> QED BY <1>1, <1>2, <3>1, <3>2 DEF Attached, Transferring
    <2> QED BY <1>5, <2>2, <2>3, <2>4 DEF AtIs
  <1>11. Rk05Is'
    <2>1. ASSUME controller' = "rk05"
          PROVE  /\ reg'.da = cmd'.start /\ reg'.drive = cmd'.device
                 /\ reg'.ba = cmd'.page + done'
                 /\ pc' = "transfer" => reg'.failed = FALSE
                 /\ pc' = "finish" /\ Transferring' =>
                      reg'.failed = TRUE /\ reg'.error # {} /\ done' < cmd'.count
      <3>1. controller = "rk05" /\ done' = 0 /\ k.page \in Nat /\ k.count \in Nat
        BY <1>2, <1>3, <1>4, <2>1 DEF AnyCommand
      <3>2. k.page = k.page + 0 /\ 0 < k.count
        BY <1>3, <3>1
      <3>3. reg'.da = cmd'.start /\ reg'.drive = cmd'.device /\ reg'.ba = cmd'.page + done'
        BY <1>1, <1>rk, <3>1, <3>2
      <3>4. pc' = "transfer" => reg'.failed = FALSE
        BY <1>rk, <3>1
      <3>5. pc' = "finish" /\ Transferring' =>
              reg'.failed = TRUE /\ reg'.error # {} /\ done' < cmd'.count
        BY <1>1, <1>rk, <3>1, <3>2 DEF Transferring
      <3> QED BY <3>3, <3>4, <3>5
    <2> QED BY <2>1 DEF Rk05Is
  <1>12. Rl02Is'
    <2>1. ASSUME controller' = "rl02"
          PROVE  /\ reg'.da = cmd'.start /\ reg'.ba = cmd'.page
                 /\ reg'.failed = ~Attached'
                 /\ cmd'.f = "header" /\ Attached' => reg'.mpr = Offset(at')
      <3>1. controller = "rl02"
        BY <1>2, <2>1
      <3>2. k.f = "header" => k.f \notin Transfers \cup {"seek"}
        BY DEF Transfers
      <3>3. reg'.failed = ~Attached'
        BY <1>1, <1>rl, <3>1, Zenon DEF Attached
      <3>4. cmd'.f = "header" /\ Attached' => reg'.mpr = Offset(at')
        BY <1>1, <1>rl, <3>1, <3>2 DEF Attached
      <3> QED BY <1>1, <1>rl, <3>1, <3>3, <3>4
    <2> QED BY <2>1 DEF Rl02Is
  <1> QED BY <1>6, <1>7, <1>8, <1>9, <1>10, <1>11, <1>12 DEF KeepsAll, Keeps

LEMMA CallBackendKeeps ==
  ASSUME IInv, CallBackend
  PROVE  KeepsAll
  <1> USE DEF IInv
  <1>1. /\ pc = "transfer" /\ Call(cmd.f, First + done, mem[cmd.page + done])
        /\ UNCHANGED controllerVars
    BY DEF CallBackend
  <1>2. Keeps
    BY <1>1, Here, CallKeeps
  <1>3. /\ UNCHANGED <<controller, drive, ie, pc, cmd, done, at, reg, mem, raised, commands, before, stopped>>
        /\ UNCHANGED <<seen, First, backend>>
        /\ request' = [kind |-> cmd.f, sector |-> First + done, value |-> mem[cmd.page + done]]
    BY <1>1 DEF controllerVars, Call, seen, First
  <1>4. ControllerTypes'
    BY <1>3 DEF ControllerTypes
  <1>5. Waits'
    BY <1>1, <1>3 DEF Waits, Attached
  <1>6. TransferIsPrefix' /\ AtIs' /\ Rk05Is' /\ Rl02Is'
    BY <1>3, MovesNothing, RegistersStay
  <1> QED BY <1>2, <1>4, <1>5, <1>6 DEF KeepsAll, Keeps

\* While a call is answered, what is seen of the disk may change at its sector.
LEMMA BackendKeeps ==
  ASSUME IInv, Client \/ Server, UNCHANGED controllerVars
  PROVE  KeepsAll
  <1> USE DEF IInv
  <1>1. Keeps
    BY ClientKeeps, ServerKeeps
  <1>2. /\ UNCHANGED <<controller, drive, ie, pc, cmd, done, at, reg, mem, raised, commands, before, stopped>>
        /\ UNCHANGED First
    BY DEF controllerVars, First
  <1>3. ControllerTypes'
    BY <1>2 DEF ControllerTypes
  <1>4. UNCHANGED request
    BY DEF Client, get_from_overlay, store_mem_range_in_overlay, FileRead, FileWrite, FileFails,
           Connect, ConnectRefused, SendRequest, SendFails, ReplyHeader, Payload, AnswerLost,
           BadMagic, NbdUnchanged, Server, Serve, ServeError, Drop, Crash, Restart,
           ClientUnchanged
  <1>5. status = "none" => status' = "none" /\ UNCHANGED seen
    <2>1. status = "none" => wire = Idle
      BY DEF BackendInv, OnTheWire
    <2>2. wire = Idle => wire.is = "none"
      BY DEF Idle
    <2>3. status = "none" => ~Client
      BY DEF Client, get_from_overlay, store_mem_range_in_overlay, FileRead, FileWrite, FileFails,
             Connect, ConnectRefused, SendRequest, SendFails, ReplyHeader, Payload, AnswerLost,
             BadMagic, ToFile, ToServer
    <2>4. status = "none" => UNCHANGED <<status, content, overlay>>
      BY <2>1, <2>2, <2>3 DEF Server, Serve, ServeError, Drop, Crash, Restart, ClientUnchanged
    <2> QED BY <2>4 DEF seen
  <1>6. status # "none" => pc = "transfer"
    BY DEF Waits
  <1>7. Waits'
    BY <1>2, <1>4, <1>5, <1>6 DEF Waits, Attached
  <1>8. AtIs' /\ Rk05Is' /\ Rl02Is'
    BY <1>2, RegistersStay
  <1>9. TransferIsPrefix'
    <2>1. CASE UNCHANGED seen
      BY <1>2, <2>1, MovesNothing, ClientServerKeepBackend
    <2>2. CASE ~UNCHANGED seen
      <3>1. pc = "transfer" /\ status # "none"
        BY <1>5, <1>6, <2>2
      <3>2. request = [kind |-> cmd.f, sector |-> First + done, value |-> mem[cmd.page + done]]
        BY <3>1 DEF Waits
      <3>3. D!WriteLands \/ D!WriteDone
        BY <1>1, <2>2 DEF Keeps, D!vars, D!Next, D!Call, D!ReadDone, D!Fails, D!Collect
      <3>4. request.kind = "write" /\ seen' \in {D!Stored, D!StoredBehindGap}
        BY <3>3 DEF D!WriteLands, D!WriteDone, D!Busy
      <3>5. cmd.f = "write"
        BY <3>2, <3>4
      <3>6. /\ cmd.page \in Nat /\ done \in Nat /\ First \in Nat /\ First + done \in Sectors
            /\ cmd.page + done \in Pages
        BY <3>1, Here
      <3>7. mem[cmd.page + done] = before.mem[cmd.page + done]
        BY <3>5, <3>6 DEF TransferIsPrefix
      <3>8. done < cmd.count
        BY <3>1 DEF Waits
      <3>9. seen \in [Sectors -> Values \cup {NoData}]
        BY SeenTypes DEF BackendInv
      <3>w. seen'[First + done] = mem[cmd.page + done]
        BY <3>2, <3>4, <3>6, <3>9 DEF D!Stored, D!StoredBehindGap
      <3>g. ASSUME NEW s \in Sectors, s # First + done
            PROVE  \/ seen'[s] = seen[s]
                   \/ /\ backend = [kind |-> "file", use_overlay |-> FALSE]
                      /\ s < First + done /\ seen[s] = NoData /\ seen'[s] = Zero
        <4>1. sector = First + done
          BY <3>2 DEF sector
        <4>2. CASE FileWrite
          <5>1. backend = [kind |-> "file", use_overlay |-> FALSE]
            BY <4>2 DEF FileWrite, ToFile, Overlaid, BackendInv, BackendTypes, BackendTypeOK
          <5>2. seen'[s] = IF s < sector /\ seen[s] = NoData THEN Zero ELSE seen[s]
            BY <3>g, <4>1, <4>2, FileWritten DEF BackendInv
          <5> QED BY <4>1, <5>1, <5>2
        <4>3. CASE ~FileWrite
          <5>1. seen'[s] = seen[s]
            BY <3>g, <4>1, <4>3, OnlyFileFills
          <5> QED BY <5>1
        <4> QED BY <4>2, <4>3
      <3>10. ASSUME NEW s \in Sectors
             PROVE  \/ seen'[s] = IF s - First \in 0..(done - 1)
                                  THEN before.mem[cmd.page + (s - First)] ELSE before.disk[s]
                    \/ /\ s = First + done /\ done < cmd.count
                       /\ seen'[s] = before.mem[cmd.page + done]
                    \/ /\ backend = [kind |-> "file", use_overlay |-> FALSE]
                       /\ s < First /\ before.disk[s] = NoData /\ seen'[s] = Zero
        <4>1. CASE s = First + done
          BY <3>w, <3>7, <3>8, <4>1
        <4>2. CASE s # First + done /\ seen'[s] = seen[s]
          BY <3>5, <4>2 DEF TransferIsPrefix
        <4>3. CASE s # First + done /\ seen'[s] # seen[s]
          <5>1. /\ backend = [kind |-> "file", use_overlay |-> FALSE]
                /\ s < First + done /\ seen[s] = NoData /\ seen'[s] = Zero
            BY <3>g, <4>3
          <5>2. s \in Nat /\ \A p \in Pages : before.mem[p] # NoData
            BY SizeAssumption, ValuesAssumption DEF ControllerTypes
          <5>3. ASSUME s - First \in 0..(done - 1)
                PROVE  FALSE
            <6>1. cmd.page + (s - First) \in Pages
              <7>1. MaxCount \in Nat /\ cmd.page + done \in 0..(MaxCount - 1)
                BY <3>6, StartsAssumption DEF Pages
              <7>2. s - First \in Nat /\ s - First < done
                BY <3>6, <5>2, <5>3
              <7> QED BY <3>6, <7>1, <7>2 DEF Pages
            <6>2. seen[s] = before.mem[cmd.page + (s - First)]
              BY <3>5, <3>6, <4>3, <5>1, <5>2, <5>3 DEF TransferIsPrefix
            <6> QED BY <5>1, <5>2, <6>1, <6>2
          <5>4. s < First
            BY <3>6, <5>1, <5>2, <5>3
          <5>5. before.disk[s] = NoData
            <6>1. Zero # NoData
              BY ValuesAssumption
            <6> QED BY <3>5, <3>6, <4>3, <5>1, <5>3, <6>1 DEF TransferIsPrefix
          <5> QED BY <5>1, <5>4, <5>5
        <4> QED BY <4>1, <4>2, <4>3
      <3>11. mem = [p \in Pages |-> before.mem[p]]
        BY <3>5 DEF TransferIsPrefix
      <3>12. UNCHANGED backend
        BY ClientServerKeepBackend
      <3> QED BY <1>2, <3>5, <3>10, <3>11, <3>12 DEF TransferIsPrefix
    <2> QED BY <2>1, <2>2
  <1> QED BY <1>1, <1>3, <1>7, <1>8, <1>9 DEF KeepsAll, Keeps

LEMMA BusAddressIs ==
  ASSUME ControllerTypes
  PROVE  /\ update_bus_address \in Regs /\ update_bus_address.failed = reg.failed
         /\ update_bus_address.da = reg.da /\ update_bus_address.drive = reg.drive
         /\ update_bus_address.error = reg.error /\ update_bus_address.mpr = reg.mpr
         /\ controller = "rl02" => update_bus_address.ba = reg.ba
         /\ controller = "rk05" /\ cmd.inhibit = FALSE /\ cmd.f = "write" =>
              update_bus_address.ba = reg.ba + 1
  BY DEF update_bus_address, ControllerTypes, Regs

LEMMA SectorDoneKeeps ==
  ASSUME IInv, SectorDone
  PROVE  KeepsAll
  <1> USE DEF IInv
  <1>1. /\ pc = "transfer" /\ status = "ok" /\ Collect
        /\ done' = done + 1
        /\ mem' = IF cmd.f = "read" THEN [mem EXCEPT ![cmd.page + done] = buffer] ELSE mem
        /\ at' = IF controller = "rp06" THEN at ELSE Advance(at)
        /\ reg' = update_bus_address
        /\ pc' = IF done' = cmd.count THEN "finish" ELSE pc
        /\ UNCHANGED <<controller, drive, ie, cmd, raised, commands, before, stopped>>
    BY DEF SectorDone
  <1>2. Keeps
    BY <1>1, CollectKeeps
  <1>3. status' = "none" /\ UNCHANGED <<seen, First, backend>>
    BY <1>1 DEF Collect, seen, First
  <1>4. /\ cmd.f \in {"read", "write"} /\ cmd.page \in Nat /\ cmd.count \in Nat
        /\ done \in Nat /\ First \in Nat /\ First + done \in Sectors
        /\ cmd.page + done \in Pages
    BY <1>1, Here
  <1>5. request = [kind |-> cmd.f, sector |-> First + done, value |-> mem[cmd.page + done]]
    BY <1>1 DEF Waits
  <1>6. buffer \in Values
    BY DEF BackendInv, BackendTypes, BackendTypeOK
  <1>7. done < cmd.count /\ Attached /\ cmd.f \in Transfers
    BY <1>1 DEF Waits
  <1>8. ControllerTypes'
    <2>1. at' \in Places
      BY <1>1, AdvanceIs DEF ControllerTypes
    <2>2. mem' \in [Pages -> Values]
      BY <1>1, <1>4, <1>6 DEF ControllerTypes
    <2>3. reg' \in Regs /\ pc' \in {"idle", "transfer", "finish"} /\ done' \in Nat
      BY <1>1, <1>4, BusAddressIs
    <2> QED BY <1>1, <2>1, <2>2, <2>3 DEF ControllerTypes
  <1>9. Waits'
    <2>1. pc' = "transfer" => done' < cmd.count
      BY <1>1, <1>4, <1>7
    <2>2. pc' # "idle"
      BY <1>1
    <2> QED BY <1>1, <1>3, <2>1, <2>2 DEF Waits, Attached
  <1>10. AtIs' /\ Rk05Is' /\ Rl02Is'
    <2>1. controller # "rp06" => Offset(at') = First' + done'
      <3>1. controller # "rp06" => Offset(at) = First + done
        BY <1>1 DEF AtIs
      <3>2. at \in Places
        BY DEF ControllerTypes
      <3> QED BY <1>1, <1>3, <1>4, <3>1, <3>2, AdvanceIs
    <2>2. Transferring' /\ Attached' /\ cmd'.f # "header"
      BY <1>1, <1>4, <1>7 DEF Transferring, Attached
    <2>3. AtIs'
      BY <1>1, <2>1, <2>2 DEF AtIs
    <2>4. pc' # "idle" /\ (pc' = "finish" => done' = cmd'.count)
      BY <1>1
    <2>5. Rk05Is'
      <3>1. ASSUME controller = "rk05"
            PROVE  /\ reg'.da = cmd'.start /\ reg'.drive = cmd'.device /\ reg'.failed = FALSE
                   /\ cmd'.f = "write" /\ cmd'.inhibit = FALSE => reg'.ba = cmd'.page + done'
        <4>1. /\ reg.da = cmd.start /\ reg.drive = cmd.device /\ reg.failed = FALSE
              /\ cmd.f = "write" /\ cmd.inhibit = FALSE => reg.ba = cmd.page + done
          BY <1>1, <3>1 DEF Rk05Is
        <4>2. /\ reg'.da = reg.da /\ reg'.drive = reg.drive /\ reg'.failed = reg.failed
              /\ cmd.inhibit = FALSE /\ cmd.f = "write" => reg'.ba = reg.ba + 1
          BY <1>1, <3>1, BusAddressIs
        <4>3. cmd.page + done + 1 = cmd.page + done'
          BY <1>1, <1>4
        <4> QED BY <1>1, <4>1, <4>2, <4>3
      <3> QED BY <1>1, <2>2, <2>4, <3>1 DEF Rk05Is
    <2>6. Rl02Is'
      <3>1. ASSUME controller = "rl02"
            PROVE  reg'.da = cmd'.start /\ reg'.ba = cmd'.page /\ reg'.failed = ~Attached'
        <4>1. reg.da = cmd.start /\ reg.ba = cmd.page
          BY <1>1, <3>1 DEF Rl02Is
        <4>2. reg.failed = ~Attached
          BY <1>1, <3>1, Zenon DEF Rl02Is
        <4>3. reg'.failed = reg.failed /\ (Attached' <=> Attached)
          BY <1>1, BusAddressIs DEF Attached
        <4>4. reg'.failed = ~Attached'
          BY <4>2, <4>3, Zenon
        <4> QED BY <1>1, <3>1, <4>1, <4>4, BusAddressIs
      <3> QED BY <1>1, <2>2, <3>1 DEF Rl02Is
    <2> QED BY <2>3, <2>5, <2>6
  <1>11. TransferIsPrefix'
    <2>1. seen[First + done] = IF cmd.f = "read" THEN buffer ELSE mem[cmd.page + done]
      BY <1>1, <1>4, <1>5 DEF BackendInv, Answered, Reading, sector
    <2>2. \A n \in Int : n \in 0..(done' - 1) <=> n \in 0..(done - 1) \/ n = done
      BY <1>1, <1>4
    <2>3. \A s \in Sectors : s - First \in Int /\ (s - First = done <=> s = First + done)
      BY <1>4, SizeAssumption
    <2>4. \A p \in Pages : p - cmd.page \in Int /\ (p - cmd.page = done <=> p = cmd.page + done)
      BY <1>4 DEF Pages
    <2>5. mem \in [Pages -> Values]
      BY DEF ControllerTypes
    <2>6. mem = [p \in Pages |-> IF cmd.f = "read" /\ p - cmd.page \in 0..(done - 1)
                                 THEN before.disk[First + (p - cmd.page)] ELSE before.mem[p]]
      BY DEF TransferIsPrefix
    <2>7. CASE cmd.f = "read"
      <3>1. \A s \in Sectors : seen[s] = before.disk[s]
        BY <2>7 DEF TransferIsPrefix
      <3>2. buffer = before.disk[First + done]
        BY <1>4, <2>1, <2>7, <3>1
      <3>3. ASSUME NEW p \in Pages
            PROVE  mem'[p] = IF p - cmd.page \in 0..(done' - 1)
                             THEN before.disk[First + (p - cmd.page)] ELSE before.mem[p]
        <4>1. CASE p = cmd.page + done
          <5>1. mem'[p] = buffer
            BY <1>1, <1>4, <2>5, <2>7, <4>1
          <5>2. p - cmd.page = done /\ p - cmd.page \in 0..(done' - 1)
            BY <1>1, <1>4, <2>4, <4>1
          <5> QED BY <3>2, <5>1, <5>2
        <4>2. CASE p # cmd.page + done
          <5>1. mem'[p] = mem[p]
            BY <1>1, <1>4, <2>5, <2>7, <4>2
          <5>2. p - cmd.page \in 0..(done' - 1) <=> p - cmd.page \in 0..(done - 1)
            BY <2>2, <2>4, <4>2
          <5>3. mem[p] = IF p - cmd.page \in 0..(done - 1)
                         THEN before.disk[First + (p - cmd.page)] ELSE before.mem[p]
            BY <2>6, <2>7
          <5> QED BY <5>1, <5>2, <5>3
        <4> QED BY <4>1, <4>2
      <3>4. mem' = [p \in Pages |-> IF p - cmd.page \in 0..(done' - 1)
                                    THEN before.disk[First + (p - cmd.page)] ELSE before.mem[p]]
        BY <1>1, <2>5, <2>7, <3>3
      <3> QED BY <1>1, <1>3, <2>7, <3>1, <3>4 DEF TransferIsPrefix
    <2>8. CASE cmd.f = "write"
      <3>1. mem' = mem /\ mem = [p \in Pages |-> before.mem[p]]
        BY <1>1, <2>6, <2>8
      <3>2. mem[cmd.page + done] = before.mem[cmd.page + done]
        BY <1>4, <3>1
      <3>3. ASSUME NEW s \in Sectors
            PROVE  \/ seen[s] = IF s - First \in 0..(done' - 1)
                                THEN before.mem[cmd.page + (s - First)] ELSE before.disk[s]
                   \/ /\ backend = [kind |-> "file", use_overlay |-> FALSE]
                      /\ s < First /\ before.disk[s] = NoData /\ seen[s] = Zero
        <4>1. CASE s = First + done
          <5>1. s - First = done /\ s - First \in 0..(done' - 1)
            BY <1>1, <1>4, <2>3, <4>1
          <5> QED BY <2>1, <2>8, <3>2, <4>1, <5>1
        <4>2. CASE s # First + done
          <5>1. s - First \in 0..(done' - 1) <=> s - First \in 0..(done - 1)
            BY <2>2, <2>3, <4>2
          <5>2. \/ seen[s] = IF s - First \in 0..(done - 1)
                             THEN before.mem[cmd.page + (s - First)] ELSE before.disk[s]
                \/ /\ backend = [kind |-> "file", use_overlay |-> FALSE]
                   /\ s < First /\ before.disk[s] = NoData /\ seen[s] = Zero
            BY <2>8, <4>2 DEF TransferIsPrefix
          <5> QED BY <5>1, <5>2
        <4> QED BY <4>1, <4>2
      <3> QED BY <1>1, <1>3, <2>8, <3>1, <3>3 DEF TransferIsPrefix
    <2> QED BY <1>4, <2>7, <2>8
  <1> QED BY <1>2, <1>8, <1>9, <1>10, <1>11 DEF KeepsAll, Keeps

LEMMA SectorFailedKeeps ==
  ASSUME IInv, SectorFailed
  PROVE  KeepsAll
  <1> USE DEF IInv
  <1> DEFINE e == reg.error \cup {32}
  <1>1. /\ pc = "transfer" /\ status = "failed" /\ Collect /\ pc' = "finish"
        /\ reg' = IF controller = "rk05" THEN [reg EXCEPT !.error = e, !.failed = TRUE] ELSE reg
        /\ UNCHANGED <<controller, drive, ie, cmd, done, at, mem, raised, commands, before, stopped>>
    BY DEF SectorFailed
  <1>2. Keeps
    BY <1>1, CollectKeeps
  <1>3. status' = "none" /\ UNCHANGED <<seen, First>>
    BY <1>1 DEF Collect, seen, First
  <1>4. e \in SUBSET Nat /\ 32 \in e
    BY DEF ControllerTypes, Regs
  <1> HIDE DEF e
  <1>5. /\ reg' \in Regs
        /\ reg'.da = reg.da /\ reg'.drive = reg.drive /\ reg'.ba = reg.ba /\ reg'.mpr = reg.mpr
        /\ controller = "rk05" => reg'.failed = TRUE /\ reg'.error # {}
        /\ controller # "rk05" => reg' = reg
    BY <1>1, <1>4 DEF ControllerTypes, Regs
  <1>6. ControllerTypes'
    BY <1>1, <1>5 DEF ControllerTypes
  <1>7. Waits'
    BY <1>1, <1>3 DEF Waits
  <1>8. TransferIsPrefix'
    BY <1>1, <1>3, MovesNothing DEF Collect
  <1>9. done < cmd.count
    BY <1>1 DEF Waits
  <1>10. AtIs'
    BY <1>1, <1>3 DEF AtIs, Transferring, Attached
  <1>11. Rk05Is'
    <2>1. ASSUME controller = "rk05"
          PROVE  /\ reg.da = cmd.start /\ reg.drive = cmd.device
                 /\ cmd.f = "write" /\ cmd.inhibit = FALSE => reg.ba = cmd.page + done
      BY <1>1, <2>1 DEF Rk05Is
    <2> QED BY <1>1, <1>5, <1>9, <2>1 DEF Rk05Is
  <1>12. Rl02Is'
    <2>1. ASSUME controller = "rl02" PROVE UNCHANGED reg
      BY <1>5, <2>1
    <2> QED BY <1>1, <2>1 DEF Rl02Is, Attached
  <1> QED BY <1>2, <1>6, <1>7, <1>8, <1>10, <1>11, <1>12 DEF KeepsAll, Keeps

LEMMA FirstIs ==
  ASSUME ControllerTypes
  PROVE  First \in Nat /\ done \in Nat /\ First + done \in Int
  <1>1. cmd.start \in Positions /\ done \in Nat
    BY DEF ControllerTypes, AnyCommand
  <1>2. First \in Nat
    BY <1>1, PositionIs DEF First
  <1> QED BY <1>1, <1>2

\* The registers as the program finds them.
LEMMA ReadyIs ==
  ASSUME NEW r \in Regs
  PROVE  LET n == [r EXCEPT !.wc = 0, !.ready = TRUE]
         IN  /\ n \in Regs /\ n.failed = r.failed /\ n.error = r.error /\ n.ba = r.ba
             /\ n.da = r.da /\ n.drive = r.drive
  <1>1. [r EXCEPT !.wc = 0] \in Regs
    BY DEF Regs
  <1>2. \A s \in Regs : [s EXCEPT !.ready = TRUE] \in Regs
    BY DEF Regs
  <1>3. [r EXCEPT !.wc = 0, !.ready = TRUE] = [[r EXCEPT !.wc = 0] EXCEPT !.ready = TRUE]
    OBVIOUS
  <1>4. [r EXCEPT !.wc = 0, !.ready = TRUE] \in Regs
    BY <1>1, <1>2, <1>3
  <1>5. LET n == [r EXCEPT !.wc = 0, !.ready = TRUE]
        IN  n.failed = r.failed /\ n.error = r.error
    BY DEF Regs
  <1>6. LET n == [r EXCEPT !.wc = 0, !.ready = TRUE]
        IN  n.ba = r.ba /\ n.da = r.da /\ n.drive = r.drive
    BY DEF Regs
  <1> QED BY <1>4, <1>5, <1>6, Zenon

LEMMA FinishedRk05 ==
  ASSUME ControllerTypes, controller = "rk05"
  PROVE  /\ FinishedRegisters \in Regs
         /\ FinishedRegisters.failed = reg.failed /\ FinishedRegisters.error = reg.error
         /\ FinishedRegisters.ba = reg.ba
         /\ FinishedRegisters.da = IF Transferring /\ Attached THEN at ELSE reg.da
         /\ FinishedRegisters.drive = IF Transferring /\ Attached THEN 0 ELSE reg.drive
  <1>1. reg \in Regs /\ at \in Places
    BY DEF ControllerTypes
  <1>2. FinishedRegisters = IF Transferring /\ Attached
                            THEN [reg EXCEPT !.wc = 0, !.ready = TRUE, !.da = at, !.drive = 0]
                            ELSE [reg EXCEPT !.wc = 0, !.ready = TRUE]
    BY DEF FinishedRegisters
  <1>3. CASE Transferring /\ Attached
    <2>1. FinishedRegisters = [reg EXCEPT !.wc = 0, !.ready = TRUE, !.da = at, !.drive = 0]
      BY <1>2, <1>3
    <2>2. /\ FinishedRegisters \in Regs
          /\ FinishedRegisters.failed = reg.failed /\ FinishedRegisters.error = reg.error
          /\ FinishedRegisters.ba = reg.ba
          /\ FinishedRegisters.da = at /\ FinishedRegisters.drive = 0
      <3> DEFINE n == [reg EXCEPT !.da = at, !.drive = 0]
      <3>1. /\ n \in Regs /\ n.failed = reg.failed /\ n.error = reg.error /\ n.ba = reg.ba
            /\ n.da = at /\ n.drive = 0
        <4>1. n \in Regs
          <5>1. \A r \in Regs, p \in Places : [r EXCEPT !.da = p] \in Regs
            BY DEF Regs
          <5>2. \A r \in Regs, i \in Int : [r EXCEPT !.drive = i] \in Regs
            BY DEF Regs
          <5>3. n = [[reg EXCEPT !.da = at] EXCEPT !.drive = 0] /\ 0 \in Int
            OBVIOUS
          <5> QED BY <1>1, <5>1, <5>2, <5>3
        <4>2. n.failed = reg.failed /\ n.error = reg.error
          BY <1>1 DEF Regs
        <4>3. n.ba = reg.ba /\ n.da = at /\ n.drive = 0
          BY <1>1 DEF Regs
        <4> QED BY <4>1, <4>2, <4>3
      <3>2. FinishedRegisters = [n EXCEPT !.wc = 0, !.ready = TRUE]
        BY <1>1, <2>1 DEF Regs
      <3> HIDE DEF n
      <3> QED BY <3>1, <3>2, ReadyIs
    <2> QED BY <1>3, <2>2
  <1>4. CASE ~(Transferring /\ Attached)
    <2>1. FinishedRegisters = [reg EXCEPT !.wc = 0, !.ready = TRUE]
      BY <1>2, <1>4
    <2>2. /\ FinishedRegisters \in Regs
          /\ FinishedRegisters.failed = reg.failed /\ FinishedRegisters.error = reg.error
          /\ FinishedRegisters.ba = reg.ba
          /\ FinishedRegisters.da = reg.da /\ FinishedRegisters.drive = reg.drive
      BY <1>1, <2>1, ReadyIs
    <2> QED BY <1>4, <2>2
  <1> QED BY <1>3, <1>4

LEMMA FinishedTypes ==
  ASSUME ControllerTypes
  PROVE  FinishedRegisters \in Regs /\ (controller = "rl02" => FinishedRegisters = reg)
  <1>1. reg \in Regs
    BY DEF ControllerTypes
  <1>2. CASE controller = "rk05"
    BY <1>2, FinishedRk05
  <1>3. CASE controller = "rl02"
    BY <1>1, <1>3 DEF FinishedRegisters
  <1>4. CASE controller = "rp06"
    <2> DEFINE b == Interrupts
               w == IF Transferring THEN 0 ELSE reg.wc
    <2>1. b \in BOOLEAN /\ w \in Int
      <3>1. b = (cmd.f # "other")
        BY <1>4 DEF Interrupts
      <3>2. w \in Int
        BY <1>1 DEF Regs
      <3> QED BY <3>1, <3>2
    <2>2. FinishedRegisters = [reg EXCEPT !.wc = w, !.ready = b]
      BY <1>4 DEF FinishedRegisters
    <2> HIDE DEF b, w
    <2> QED BY <1>1, <1>4, <2>1, <2>2 DEF Regs
  <1> QED BY <1>2, <1>3, <1>4 DEF ControllerTypes

LEMMA FinishKeeps ==
  ASSUME IInv, Finish
  PROVE  KeepsAll
  <1> USE DEF IInv
  <1>1. /\ pc = "finish" /\ pc' = "idle" /\ reg' = FinishedRegisters
        /\ cmd' = NoCommand /\ done' = 0
        /\ before' = [mem |-> mem, disk |-> seen]
        /\ stopped' = IF controller # "rl02" \/ ~Attached THEN stopped
                      ELSE IF Transferring THEN First + done
                      ELSE IF cmd.f = "seek" THEN Unknown ELSE stopped
        /\ UNCHANGED <<controller, drive, ie, at, mem, commands, backendVars>>
    BY DEF Finish
  <1>2. Keeps
    BY <1>1, BackendStays
  <1>3. status = "none" /\ UNCHANGED <<status, seen>>
    BY <1>1 DEF Waits, backendVars, seen
  <1>4. reg' \in Regs
    BY <1>1, FinishedTypes
  <1>s. stopped' \in Int
    BY <1>1, FirstIs DEF ControllerTypes, Unknown
  <1>5. ControllerTypes'
    <2>1. before' \in [mem : [Pages -> Values], disk : [Sectors -> Values \cup {NoData}]]
      BY <1>1, SeenTypes DEF BackendInv, ControllerTypes
    <2> QED BY <1>1, <1>4, <1>s, <2>1, NoCommandIs DEF ControllerTypes
  <1>6. Waits'
    BY <1>1, <1>3 DEF Waits
  <1>7. TransferIsPrefix'
    BY <1>1, <1>3, NothingMoved DEF ControllerTypes
  <1>8. AtIs'
    <2>1. ASSUME controller = "rl02", stopped' # Unknown
          PROVE  Offset(at) = stopped'
      BY <1>1, <2>1 DEF AtIs
    <2> QED BY <1>1, <2>1 DEF AtIs
  <1>9. Rk05Is' /\ Rl02Is'
    BY <1>1 DEF Rk05Is, Rl02Is
  <1> QED BY <1>2, <1>5, <1>6, <1>7, <1>8, <1>9 DEF KeepsAll, Keeps

LEMMA BetweenKeeps ==
  ASSUME IInv, AcceptInterrupt \/ ReadControl \/ ReadError \/ ReadMpr \/ Reset
  PROVE  KeepsAll
  <1> USE DEF IInv
  <1>1. /\ pc = "idle"
        /\ UNCHANGED <<controller, drive, ie, pc, cmd, done, mem, commands, before, backendVars>>
    BY DEF AcceptInterrupt, ReadControl, ReadError, ReadMpr, Reset, Between
  <1>2. Keeps
    BY <1>1, BackendStays
  <1>3. UNCHANGED <<status, seen, First, backend>>
    BY <1>1 DEF backendVars, seen, First
  <1>4. /\ UNCHANGED <<at, stopped>> \/ (at' = Origin /\ stopped' = Offset(Origin))
        /\ Offset(Origin) \in Int
    BY DEF AcceptInterrupt, ReadControl, ReadError, ReadMpr, Reset, Between, Origin, Offset,
           Heads, SectorsPerTrack
  <1>5. \/ reg' = reg
        \/ reg' = Cleared
        \/ reg' = [reg EXCEPT !.failed = FALSE, !.ready = TRUE]
        \/ reg' = [reg EXCEPT !.ready = TRUE]
        \/ reg' = [reg EXCEPT !.error = {}]
        \/ reg' = [reg EXCEPT !.mpr = Unknown]
    BY DEF AcceptInterrupt, ReadControl, ReadError, ReadMpr, Reset, Between, ControllerTypes
  <1>6. reg' \in Regs
    <2>1. reg \in Regs /\ Cleared \in Regs /\ Unknown \in Int
      BY NoCommandIs DEF ControllerTypes, Unknown
    <2>2. [reg EXCEPT !.failed = FALSE, !.ready = TRUE] \in Regs
      BY <2>1 DEF Regs
    <2>3. [reg EXCEPT !.ready = TRUE] \in Regs
      BY <2>1 DEF Regs
    <2>4. [reg EXCEPT !.error = {}] \in Regs
      BY <2>1 DEF Regs
    <2>5. [reg EXCEPT !.mpr = Unknown] \in Regs
      BY <2>1 DEF Regs
    <2> QED BY <1>5, <2>1, <2>2, <2>3, <2>4, <2>5
  <1>8. ControllerTypes'
    BY <1>1, <1>4, <1>6, NoCommandIs DEF ControllerTypes
  <1>9. Waits'
    BY <1>1, <1>3 DEF Waits
  <1>10. TransferIsPrefix'
    BY <1>1, <1>3, MovesNothing
  <1>11. AtIs' /\ Rk05Is' /\ Rl02Is'
    BY <1>1, <1>4 DEF AtIs, Rk05Is, Rl02Is
  <1> QED BY <1>2, <1>8, <1>9, <1>10, <1>11 DEF KeepsAll, Keeps

-----------------------------------------------------------------------------
(***************************************************************************)
(* The invariant.                                                          *)
(***************************************************************************)
LEMMA InitIInv == StorageInit => IInv /\ D!Init
  <1> SUFFICES ASSUME StorageInit PROVE IInv /\ D!Init
    OBVIOUS
  <1>1. BackendTypes
    <2>1. request \in [kind : {"read", "write"}, sector : Sectors, value : Values]
      BY NoRequestTypes DEF StorageInit, BackendInit
    <2>2. content \in [Sectors -> Values \cup {NoData}] /\ buffer \in Values
      BY NoRequestTypes DEF StorageInit, BackendInit
    <2>3. DOMAIN overlay = {}
      BY DEF StorageInit, BackendInit
    <2>4. /\ wire = Idle /\ wire.is = "none" /\ wire \in Wires /\ status = "none" /\ up = TRUE
          /\ fd \in {"none", "open"}
          /\ backend \in [kind : {"file", "nbd"}, use_overlay : BOOLEAN]
      BY DEF StorageInit, BackendInit, Idle, Wires
    <2>5. faults \in 0..MaxFaults
      BY SizeAssumption DEF StorageInit, BackendInit
    <2> QED BY <2>1, <2>2, <2>3, <2>4, <2>5 DEF BackendTypes, BackendTypeOK
  <1>2. status = "none" /\ wire = Idle /\ phase = "none" /\ pc = "idle"
    BY DEF StorageInit, BackendInit, phase
  <1>3. DiskHolds
    <2>1. DOMAIN overlay = {} /\ content = [s \in Sectors |-> IF s < Size THEN Blank ELSE NoData]
      BY DEF StorageInit, BackendInit
    <2> QED BY <2>1, NoRequestTypes DEF DiskHolds
  <1>4. OnTheWire /\ Answered
    BY <1>2 DEF OnTheWire, Answered, Idle
  <1>5. ControllerTypes
    <2>1. mem \in [Pages -> Values] /\ before = [mem |-> mem, disk |-> seen]
      BY DEF StorageInit
    <2>2. before \in [mem : [Pages -> Values], disk : [Sectors -> Values \cup {NoData}]]
      BY <1>1, <2>1, SeenTypes
    <2>3. /\ controller \in {"rk05", "rl02", "rp06"} /\ pc \in {"idle", "transfer", "finish"}
          /\ cmd \in AnyCommand /\ done \in Nat /\ at \in Places /\ reg \in Regs
          /\ drive \in {0, 1} /\ stopped \in Int /\ Offset(at) = stopped
      BY NoCommandIs DEF StorageInit, Origin, Offset, Heads, SectorsPerTrack
    <2> QED BY <2>1, <2>2, <2>3 DEF ControllerTypes
  <1>6. Waits
    BY <1>2 DEF Waits, StorageInit
  <1>7. AtIs /\ Rk05Is /\ Rl02Is
    BY <1>2 DEF AtIs, Rk05Is, Rl02Is, StorageInit
  <1>8. TransferIsPrefix
    <2>1. done = 0 /\ mem \in [Pages -> Values] /\ before.mem = mem /\ before.disk = seen
      BY <1>5 DEF StorageInit, ControllerTypes
    <2>2. \A n : n \notin 0..(done - 1)
      <3>1. \A n \in Int : n \notin 0..(done - 1)
        BY <2>1
      <3> QED BY <3>1
    <2>3. mem = [p \in Pages |-> mem[p]]
      BY <2>1
    <2> QED BY <2>1, <2>2, <2>3 DEF TransferIsPrefix
  <1>9. D!Init
    <2>1. /\ seen \in [Sectors -> Values \cup {NoData}] /\ buffer \in Values
          /\ request \in [kind : {"read", "write"}, sector : Sectors, value : Values]
      BY <1>1, SeenTypes DEF BackendTypes, BackendTypeOK
    <2> QED BY <1>2, <2>1 DEF D!Init, D!TypeOK, D!Requests, phase
  <1> QED BY <1>1, <1>3, <1>4, <1>5, <1>6, <1>7, <1>8, <1>9 DEF IInv, BackendInv

LEMMA NextKeeps == IInv /\ [Next]_vars => IInv' /\ [D!Next]_D!vars
  <1>1. ASSUME IInv, UNCHANGED vars
        PROVE  KeepsAll
    <2>1. /\ UNCHANGED <<controller, drive, ie, pc, cmd, done, at, reg, mem, raised, commands, before, stopped>>
          /\ UNCHANGED backendVars
      BY <1>1 DEF vars, controllerVars
    <2>2. Keeps
      BY <1>1, <2>1, BackendStays DEF IInv
    <2>3. UNCHANGED <<status, request, seen, First, backend>>
      BY <2>1 DEF backendVars, seen, First
    <2>4. ControllerTypes' /\ Waits'
      BY <1>1, <2>1, <2>3 DEF IInv, ControllerTypes, Waits, Attached
    <2>5. TransferIsPrefix' /\ AtIs' /\ Rk05Is' /\ Rl02Is'
      BY <1>1, <2>1, <2>3, MovesNothing, RegistersStay DEF IInv
    <2> QED BY <2>2, <2>4, <2>5 DEF KeepsAll, Keeps, IInv
  <1>2. ASSUME IInv, Next
        PROVE  KeepsAll
    BY <1>2, StartKeeps, CallBackendKeeps, SectorDoneKeeps, SectorFailedKeeps, FinishKeeps,
       BetweenKeeps, BackendKeeps DEF Next, Command, ClientStep, ServerStep
  <1> QED BY <1>1, <1>2 DEF KeepsAll

THEOREM Invariant == Spec => []IInv
  <1>1. StorageInit => IInv
    BY InitIInv
  <1>2. IInv /\ [Next]_vars => IInv'
    BY NextKeeps
  <1> QED BY <1>1, <1>2, PTL DEF Spec

\* The state of the back-end, and what is on its connection, is of its types
\* (disk_backend.h, disk_backend_nbd.cpp).
THEOREM TypeCorrect == Spec => []BackendTypeOK
  <1>1. IInv => BackendTypeOK
    BY DEF IInv, BackendInv, BackendTypes
  <1> QED BY <1>1, Invariant, PTL

\* Every step of client, server and network, seen through the overlay, is a
\* step of the disk the controller expects or none
\* (disk_backend_file.cpp:84, disk_backend_nbd.cpp:249).
THEOREM BackendIsDisk == Spec => ImplementsDisk
  <1>1. StorageInit => D!Init
    BY InitIInv
  <1>2. IInv /\ [Next]_vars => [D!Next]_D!vars
    BY NextKeeps
  <1> QED BY <1>1, <1>2, Invariant, PTL DEF Spec, ImplementsDisk, D!Spec

\* A transfer has moved its first sectors, in order, and touched nothing else
\* (rk05.cpp, rl02.cpp, rp06.cpp: the loop over the sectors).
THEOREM MovesPrefix == Spec => []TransferIsPrefix
  <1>1. IInv => TransferIsPrefix
    BY DEF IInv
  <1> QED BY <1>1, Invariant, PTL

LEMMA Rk05TellsIt ==
  ASSUME IInv, Finish, controller = "rk05", Transferring
  PROVE  Rk05Tells
  <1>1. reg' = FinishedRegisters /\ pc = "finish" /\ ControllerTypes
    BY DEF Finish, IInv
  <1>2. /\ reg.da = cmd.start /\ reg.drive = cmd.device
        /\ cmd.f = "write" /\ cmd.inhibit = FALSE => reg.ba = cmd.page + done
        /\ \/ reg.failed = TRUE /\ reg.error # {} /\ done < cmd.count
           \/ reg.failed = FALSE /\ done = cmd.count /\ Attached
    BY <1>1 DEF IInv, Rk05Is
  <1>3. reg'.failed <=> done < cmd.count
    <2>1. done \in Nat /\ cmd.count \in Nat
      BY <1>1 DEF ControllerTypes, AnyCommand
    <2> QED BY <1>1, <1>2, <2>1, FinishedRk05
  <1>4. reg'.failed => reg'.error # {}
    BY <1>1, <1>2, FinishedRk05
  <1>5. IF Attached THEN Offset(reg'.da) = First + done /\ reg'.drive = 0
                    ELSE reg'.da = cmd.start /\ reg'.drive = Absent
    <2>1. Attached => Offset(at) = First + done
      BY <1>1 DEF IInv, AtIs
    <2>2. ~Attached => cmd.device = Absent
      BY DEF Attached
    <2> QED BY <1>1, <1>2, <2>1, <2>2, FinishedRk05
  <1>6. cmd.f = "write" /\ ~cmd.inhibit => reg'.ba = cmd.page + done
    <2>1. cmd.inhibit \in BOOLEAN
      BY <1>1 DEF ControllerTypes, AnyCommand
    <2> QED BY <1>1, <1>2, <2>1, FinishedRk05
  <1> QED BY <1>3, <1>4, <1>5, <1>6 DEF Rk05Tells

LEMMA Rl02TellsIt ==
  ASSUME IInv, Finish, controller = "rl02"
  PROVE  Rl02Tells
  <1>1. reg' = reg /\ pc = "finish"
    BY FinishedTypes DEF Finish, IInv
  <1>2. reg.da = cmd.start /\ reg.ba = cmd.page
    BY <1>1 DEF IInv, Rl02Is
  <1>3. reg.failed = ~Attached
    BY <1>1, Zenon DEF IInv, Rl02Is
  <1>4. reg'.failed <=> ~Attached
    BY <1>1, <1>3, Zenon
  <1>5. cmd.f = "header" /\ Attached /\ stopped # Unknown => reg'.mpr = stopped
    <2>1. cmd.f = "header" => ~Transferring /\ cmd.f # "seek"
      BY DEF Transferring, Transfers
    <2> QED BY <1>1, <2>1 DEF IInv, Rl02Is, AtIs
  <1> QED BY <1>1, <1>2, <1>4, <1>5 DEF Rl02Tells

\* What a program reads when a command has ended tells how far it came
\* (rk05.cpp:201 and 249, rl02.cpp:250).
THEOREM EndTells == Spec => EndTellsProgress
  <1> DEFINE Told == /\ controller = "rk05" /\ Transferring => Rk05Tells
                     /\ controller = "rl02" => Rl02Tells
  <1>1. ASSUME IInv, Next, pc = "finish", pc' = "idle"
        PROVE  Finish
    BY <1>1 DEF Next, Start, Command, CallBackend, SectorDone, SectorFailed, AcceptInterrupt,
                ReadControl, ReadError, ReadMpr, Reset, Between, ClientStep, ServerStep,
                controllerVars
  <1>2. ASSUME IInv, [Next]_vars
        PROVE  [pc = "finish" /\ pc' = "idle" => Told]_vars
    BY <1>1, <1>2, Rk05TellsIt, Rl02TellsIt
  <1>3. Spec => [][pc = "finish" /\ pc' = "idle" => Told]_vars
    BY <1>2, Invariant, PTL DEF Spec
  <1> QED BY <1>3 DEF EndTellsProgress
=============================================================================
