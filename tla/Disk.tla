-------------------------------- MODULE Disk --------------------------------
(***************************************************************************)
(* What a disk controller expects of a disk back-end (disk_backend.h): one *)
(* call at a time, a read answers what is on the disk, a write that        *)
(* returns true is on the disk.  A write that fails may have been done     *)
(* all the same.  A write behind the end of a disk that grows leaves a gap *)
(* of sectors that read as zeros.                                          *)
(***************************************************************************)
EXTENDS Integers

CONSTANTS Sectors,        \* every sector a controller can name
          Values,         \* what a sector holds
          Zero,           \* a sector of zeros
          NoData          \* a sector behind the end

VARIABLES content,        \* of each sector
          request,        \* the call that is being answered
          status,         \* of the call: none, busy, ok, failed
          buffer          \* of the caller: what was read

vars == <<content, request, status, buffer>>

Requests == [kind : {"read", "write"}, sector : Sectors, value : Values]

TypeOK ==
  /\ content \in [Sectors -> Values \cup {NoData}]
  /\ request \in Requests
  /\ status \in {"none", "busy", "ok", "failed"}
  /\ buffer \in Values

Init == TypeOK /\ status = "none"

Call(kind, s, v) ==
  /\ status = "none"
  /\ request' = [kind |-> kind, sector |-> s, value |-> v]
  /\ status' = "busy"
  /\ UNCHANGED <<content, buffer>>

Busy(kind) == status = "busy" /\ request.kind = kind

Stored == [content EXCEPT ![request.sector] = request.value]

StoredBehindGap ==
  [s \in Sectors |-> IF s = request.sector THEN request.value
                     ELSE IF s < request.sector /\ content[s] = NoData THEN Zero
                     ELSE content[s]]

ReadDone ==
  /\ Busy("read") /\ content[request.sector] # NoData
  /\ buffer' = content[request.sector]
  /\ status' = "ok"
  /\ UNCHANGED <<content, request>>

\* The data arrives, the answer does not yet.
WriteLands ==
  /\ Busy("write")
  /\ content' = Stored
  /\ UNCHANGED <<request, status, buffer>>

WriteDone ==
  /\ Busy("write")
  /\ content' \in {Stored, StoredBehindGap} /\ status' = "ok"
  /\ UNCHANGED <<request, buffer>>

Fails ==
  /\ status = "busy" /\ status' = "failed"
  /\ UNCHANGED <<content, request, buffer>>

Collect ==
  /\ status \in {"ok", "failed"} /\ status' = "none"
  /\ request' \in Requests
  /\ UNCHANGED <<content, buffer>>

Next ==
  \/ \E kind \in {"read", "write"}, s \in Sectors, v \in Values : Call(kind, s, v)
  \/ ReadDone \/ WriteLands \/ WriteDone \/ Fails \/ Collect

Spec == Init /\ [][Next]_vars

=============================================================================
