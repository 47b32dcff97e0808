----------------------------- MODULE DiskBackend -----------------------------
(***************************************************************************)
(* The disk back-ends (disk_backend.cpp, disk_backend_file.cpp and         *)
(* disk_backend_nbd.cpp), called by one controller for one sector at a     *)
(* time.  The file back-end answers at once; the NBD client talks to a     *)
(* server over a connection that may break at any point, and starts the    *)
(* sector over with a new one.  With snapshots on, writes stay in memory.  *)
(*                                                                         *)
(* The server is external: it executes a request that reached it before    *)
(* its connection was lost, or never.                                      *)
(***************************************************************************)
EXTENDS Integers

CONSTANTS Sectors,        \* every sector a controller can name
          Size,           \* those below it exist
          Values,         \* what a sector holds
          Zero,           \* a sector of zeros
          Blank,          \* what the sectors hold at first
          NoData,         \* what a sector behind the end holds
          MaxFaults       \* bound: failures of the disk, the network and the server

ASSUME SizeAssumption ==
  Sectors \subseteq Nat /\ Sectors # {} /\ Size \in Nat /\ MaxFaults \in Nat
ASSUME ValuesAssumption == {Zero, Blank} \subseteq Values /\ NoData \notin Values

VARIABLES backend,        \* which one, and whether with snapshots
          content,        \* of the file, or of the server's disk
          overlay,        \* the sectors written while snapshots are on
          request,        \* the call
          status,         \* none, called, sent, header, ok, failed, aborted
          buffer,         \* xfer_buffer of the controller
          fd,             \* the connection: none, open, broken
          wire,           \* what is on the way: none, a request or a reply
          up,             \* whether the server runs
          faults

backendVars == <<backend, content, overlay, request, status, buffer, fd, wire, up, faults>>

Idle == [is |-> "none"]
Reply(error, value) == [is |-> "reply", error |-> error, value |-> value]

BackendTypeOK ==
  /\ backend \in [kind : {"file", "nbd"}, use_overlay : BOOLEAN]
  /\ content \in [Sectors -> Values \cup {NoData}]
  /\ DOMAIN overlay \subseteq Sectors /\ \A s \in DOMAIN overlay : overlay[s] \in Values
  /\ request \in [kind : {"read", "write"}, sector : Sectors, value : Values]
  /\ status \in {"none", "called", "sent", "header", "ok", "failed", "aborted"}
  /\ buffer \in Values
  /\ fd \in {"none", "open", "broken"} /\ wire.is \in {"none", "request", "reply"}
  /\ up \in BOOLEAN /\ faults \in 0..MaxFaults

NoRequest == [kind |-> "read", sector |-> CHOOSE s \in Sectors : TRUE, value |-> Blank]

BackendInit ==
  /\ content = [s \in Sectors |-> IF s < Size THEN Blank ELSE NoData]
  /\ request = NoRequest /\ buffer = Blank
  /\ overlay = << >>
  /\ backend \in [kind : {"file", "nbd"}, use_overlay : BOOLEAN]
  /\ status = "none"
  /\ fd = IF backend.kind = "nbd" THEN "open" ELSE "none"   \* begin() has connected
  /\ wire = Idle /\ up = TRUE /\ faults = 0

sector == request.sector
Reading == request.kind = "read"

Call(kind, s, v) ==
  /\ status = "none" /\ status' = "called"
  /\ request' = [kind |-> kind, sector |-> s, value |-> v]
  /\ UNCHANGED <<backend, content, overlay, buffer, fd, wire, up, faults>>

Collect ==
  /\ status \in {"ok", "failed"} /\ status' = "none"
  /\ request' = NoRequest
  /\ UNCHANGED <<backend, content, overlay, buffer, fd, wire, up, faults>>

Fault == faults < MaxFaults /\ faults' = faults + 1

-----------------------------------------------------------------------------
(***************************************************************************)
(* The overlay: every write goes there, a read that finds nothing there    *)
(* goes on to the disk.                                                    *)
(***************************************************************************)
Overlaid == backend.use_overlay /\ (Reading => sector \in DOMAIN overlay)

get_from_overlay ==
  /\ status = "called" /\ Overlaid /\ Reading
  /\ buffer' = overlay[sector] /\ status' = "ok"
  /\ UNCHANGED <<backend, content, overlay, request, fd, wire, up, faults>>

store_mem_range_in_overlay ==
  /\ status = "called" /\ Overlaid /\ ~Reading
  /\ overlay' = [s \in DOMAIN overlay \cup {sector} |->
                   IF s = sector THEN request.value ELSE overlay[s]]
  /\ status' = "ok"
  /\ UNCHANGED <<backend, content, request, buffer, fd, wire, up, faults>>

-----------------------------------------------------------------------------
(***************************************************************************)
(* The file.  A write behind the end makes the file longer, and what lies  *)
(* between the old end and the written sector reads as zeros.              *)
(***************************************************************************)
ToFile == status = "called" /\ ~Overlaid /\ backend.kind = "file"

FileRead ==
  /\ ToFile /\ Reading /\ content[sector] # NoData
  /\ buffer' = content[sector] /\ status' = "ok"
  /\ UNCHANGED <<backend, content, overlay, request, fd, wire, up, faults>>

FileWrite ==
  /\ ToFile /\ ~Reading
  /\ content' = [s \in Sectors |-> IF s = sector THEN request.value
                                  ELSE IF s < sector /\ content[s] = NoData THEN Zero
                                  ELSE content[s]]
  /\ status' = "ok"
  /\ UNCHANGED <<backend, overlay, request, buffer, fd, wire, up, faults>>

FileFails ==
  /\ ToFile /\ status' = "failed"
  /\ IF Reading /\ content[sector] = NoData THEN UNCHANGED faults ELSE Fault
  /\ UNCHANGED <<backend, content, overlay, request, buffer, fd, wire, up>>

-----------------------------------------------------------------------------
(***************************************************************************)
(* The NBD client.  Whatever goes wrong with the connection, it closes it, *)
(* sleeps, and starts the sector over.                                     *)
(***************************************************************************)
ToServer == status = "called" /\ ~Overlaid /\ backend.kind = "nbd"

NbdUnchanged == UNCHANGED <<backend, content, overlay, request, up>>

StartOver ==
  /\ fd' = "none" /\ wire' = Idle /\ status' = "called"
  /\ UNCHANGED buffer

Connect ==
  /\ ToServer /\ fd = "none" /\ up
  /\ fd' = "open" /\ wire' = Idle
  /\ UNCHANGED <<status, buffer, faults>> /\ NbdUnchanged

\* A connection that is refused: the list of addresses is freed in the loop
\* and again behind it, which a C library may notice and abort.
ConnectRefused ==
  /\ ToServer /\ fd = "none" /\ ~up
  /\ status' \in {"called", "aborted"}
  /\ UNCHANGED <<buffer, fd, wire, faults>> /\ NbdUnchanged

\* The peer that is gone may not be noticed before the answer is waited for.
SendRequest ==
  /\ ToServer /\ fd # "none"
  /\ wire' = IF fd = "open" THEN [is |-> "request"] ELSE Idle
  /\ status' = "sent"
  /\ UNCHANGED <<buffer, fd, faults>> /\ NbdUnchanged

\* A write to a connection that the peer has closed raises SIGPIPE, which
\* main.cpp does not handle, and ends the emulator; another error starts over.
SendFails ==
  /\ ToServer /\ fd = "broken"
  /\ \/ StartOver
     \/ status' = "aborted" /\ UNCHANGED <<buffer, fd, wire>>
  /\ UNCHANGED faults /\ NbdUnchanged

\* mutant: the error of the reply is not looked at
ReplyHeaderUnchecked ==
  /\ status = "sent" /\ wire.is = "reply"
  /\ status' = IF Reading THEN "header" ELSE "ok"
  /\ wire' = IF Reading THEN wire ELSE Idle
  /\ UNCHANGED <<buffer, fd, faults>> /\ NbdUnchanged

ReplyHeader ==
  /\ status = "sent" /\ wire.is = "reply"
  /\ status' = IF wire.error THEN "failed" ELSE IF Reading THEN "header" ELSE "ok"
  /\ wire' = IF wire.error \/ ~Reading THEN Idle ELSE wire
  /\ UNCHANGED <<buffer, fd, faults>> /\ NbdUnchanged

Payload ==
  /\ status = "header" /\ wire.is = "reply"
  /\ buffer' = wire.value /\ status' = "ok" /\ wire' = Idle
  /\ UNCHANGED <<fd, faults>> /\ NbdUnchanged

\* mutant: a connection lost before the payload goes unnoticed
AnswerLostInHeader ==
  /\ status = "sent" /\ fd = "broken"
  /\ StartOver /\ UNCHANGED faults /\ NbdUnchanged

AnswerLost ==
  /\ status \in {"sent", "header"} /\ fd = "broken"
  /\ StartOver /\ UNCHANGED faults /\ NbdUnchanged

BadMagic ==
  /\ status = "sent" /\ wire.is = "reply" /\ Fault
  /\ StartOver /\ NbdUnchanged

Client == \/ get_from_overlay \/ store_mem_range_in_overlay
          \/ FileRead \/ FileWrite \/ FileFails
          \/ Connect \/ ConnectRefused \/ SendRequest \/ SendFails
          \/ ReplyHeader \/ Payload \/ AnswerLost \/ BadMagic

-----------------------------------------------------------------------------
(***************************************************************************)
(* The server and the network.                                             *)
(***************************************************************************)
ClientUnchanged == UNCHANGED <<backend, overlay, request, status, buffer>>

Serve ==
  /\ wire.is = "request" /\ sector < Size
  /\ content' = IF Reading THEN content ELSE [content EXCEPT ![sector] = request.value]
  /\ wire' = Reply(FALSE, content'[sector])
  /\ UNCHANGED <<fd, up, faults>> /\ ClientUnchanged

ServeError ==
  /\ wire.is = "request"
  /\ IF sector >= Size THEN UNCHANGED faults ELSE Fault
  /\ wire' = Reply(TRUE, request.value)
  /\ UNCHANGED <<content, fd, up>> /\ ClientUnchanged

\* The connection breaks; what is on the way is lost.
Drop ==
  /\ fd = "open" /\ Fault
  /\ fd' = "broken" /\ wire' = Idle
  /\ UNCHANGED <<content, up>> /\ ClientUnchanged

Crash ==
  /\ backend.kind = "nbd" /\ up /\ Fault
  /\ up' = FALSE /\ fd' = (IF fd = "open" THEN "broken" ELSE fd) /\ wire' = Idle
  /\ UNCHANGED content /\ ClientUnchanged

Restart ==
  /\ ~up /\ up' = TRUE
  /\ UNCHANGED <<content, fd, wire, faults>> /\ ClientUnchanged

Server == Serve \/ ServeError \/ Drop \/ Crash \/ Restart

-----------------------------------------------------------------------------
(***************************************************************************)
(* The disk that the controllers see: the overlay over the content.        *)
(***************************************************************************)
seen == [s \in Sectors |-> IF s \in DOMAIN overlay THEN overlay[s] ELSE content[s]]

D == INSTANCE Disk WITH
       content <- seen,
       status <- IF status \in {"ok", "failed", "none"} THEN status ELSE "busy"

=============================================================================
