------------------------------- MODULE Deqna --------------------------------
(***************************************************************************)
(* The Ethernet controller DEQNA (deqna.cpp) and a driver for it.  Three   *)
(* threads share its atomic registers, a queue of frames and the           *)
(* descriptors in the memory of the machine: receiver_low takes frames     *)
(* from the network, receiver_high puts them in the buffers of the         *)
(* receive list, and the CPU runs the driver, its stores to the registers  *)
(* and, inside the store of a transmit list, transmitter().                *)
(*                                                                         *)
(* The CSR is the set of its bits that are one: RE receiver enable, TL and *)
(* RL transmit and receive list invalid, IE interrupt enable, XI and RI    *)
(* transmit and receive interrupt, NL no loopback (active low in the       *)
(* code: bit 8).  Each |= and &= on it is atomic, a store is a load and    *)
(* two stores.  A frame is the side it comes from and its number.  The     *)
(* counters, the monitor and the vector register are left out.             *)
(***************************************************************************)
EXTENDS Naturals, Sequences

CONSTANTS DEQNA_MAX_N_QUEUED,
          MaxFrames,      \* bound: frames that arrive from the network
          MaxLists        \* bound: transmit lists of the driver

ASSUME DeqnaBounds == DEQNA_MAX_N_QUEUED \in Nat /\ MaxFrames \in Nat /\ MaxLists \in Nat

VARIABLES csr,            \* registers[7]
          received,       \* the queue between the receivers
          arrived,        \* frames that came from the network
          lpc, lframe,    \* receiver_low: get, enabled, room, push
          hpc, hframe,    \* receiver_high
          start,          \* registers[3] and [2]: where the receive list begins, or Nowhere
          at,             \* the descriptor receiver_high works on
          ring,           \* the receive descriptors
          irq,            \* the interrupt is in the CPU's queue
          cpc,            \* the CPU
          old,            \* of write_word: the CSR before the store
          list, txp, txlen,  \* transmitter: the list, the descriptor, buffer_offset
          lists,          \* transmit lists so far
          up, mode,       \* the driver: the ring is set up; what it stores in NL
          overlap         \* the handler ended when receiver_high had still to set RL

queueVars == <<received, arrived>>
lowVars == <<lpc, lframe>>
highVars == <<hpc, hframe, at>>
txVars == <<list, txp, txlen, lists>>
driverVars == <<up, mode>>
vars == <<csr, queueVars, lowVars, highVars, start, ring, irq, cpc, old, txVars, driverVars, overlap>>

-----------------------------------------------------------------------------
\* The receive ring of the driver: descriptor 0 is a pointer to 1, the
\* others are buffers.
Chain == 0
Buffers == 1 .. 2
Nowhere == 3              \* address 0, after RESET
Armed == [valid |-> TRUE, status |-> "none", frame |-> << >>]

\* what a transmit descriptor is: its place in the frame, and its length
Piece(n) == [valid |-> TRUE, to |-> 0, end |-> FALSE, len |-> n]
Last(n) == [Piece(n) EXCEPT !.end = TRUE]
Pointer(i) == [Piece(0) EXCEPT !.to = i]
EndOfList == [Piece(0) EXCEPT !.valid = FALSE]
TooLong == 2
Lists == {<<Last(1), EndOfList>>,                        \* a frame
          <<Piece(1), Last(1), EndOfList>>,              \* one of two pieces
          <<Last(1), Pointer(4), EndOfList, Last(1), EndOfList>>,
          <<Last(0), EndOfList>>,                        \* nothing to send
          <<Last(TooLong), Last(1), EndOfList>>}

\* what the driver stores in the CSR: its mode, the enables, RI and XI to clear
Kept == {"RE", "IE"}
Modes == {{}, {"NL"}}
Ack == mode \cup Kept \cup {"RI", "XI"}

\* the state after the driver has set the controller up and given the ring
Init ==
  /\ up = TRUE /\ mode \in Modes /\ csr = mode \cup Kept \cup {"TL"}
  /\ received = << >> /\ arrived = 0
  /\ lpc = "get" /\ lframe = << >>
  /\ hpc = "wait" /\ hframe = << >> /\ at = 1
  /\ start \in {Chain} \cup Buffers /\ ring = [i \in Buffers |-> Armed]
  /\ irq = FALSE /\ cpc = "run" /\ old = {}
  /\ list = << >> /\ txp = 1 /\ txlen = 0 /\ lists = 0
  /\ overlap = FALSE

\* The handler, or the set-up, ends when receiver_high has queued its interrupt,
\* or had none to queue, and has still to set RL.
Overlap == overlap' = IF cpc \in {"scan", "give_high"} /\ cpc' = "run" THEN hpc = "invalid" ELSE overlap

-----------------------------------------------------------------------------
(***************************************************************************)
(* receiver_low: a frame for this station, or a broadcast, that is long    *)
(* enough.  Its queue_rx_packet looks at the size and then pushes.         *)
(***************************************************************************)
LowUnchanged == UNCHANGED <<csr, highVars, start, ring, irq, cpc, old, txVars, driverVars, overlap>>

\* frames of other stations and short ones go no further
Get ==
  /\ lpc = "get" /\ arrived < MaxFrames
  /\ arrived' = arrived + 1
  /\ \/ lpc' = "enabled" /\ lframe' = <<"wire", arrived + 1>>
     \/ UNCHANGED lowVars
  /\ UNCHANGED received /\ LowUnchanged

Enabled ==
  /\ lpc = "enabled" /\ lpc' = IF "RE" \in csr THEN "room" ELSE "get"
  /\ UNCHANGED <<queueVars, lframe>> /\ LowUnchanged

HasRoom == Len(received) < DEQNA_MAX_N_QUEUED

LowRoom ==
  /\ lpc = "room" /\ lpc' = IF HasRoom THEN "push" ELSE "get"
  /\ UNCHANGED <<queueVars, lframe>> /\ LowUnchanged

LowPush ==
  /\ lpc = "push" /\ lpc' = "get"
  /\ received' = Append(received, lframe) /\ lframe' = << >>
  /\ UNCHANGED arrived /\ LowUnchanged

receiver_low == Get \/ Enabled \/ LowRoom \/ LowPush

-----------------------------------------------------------------------------
(***************************************************************************)
(* receiver_high.                                                          *)
(***************************************************************************)
HighUnchanged == UNCHANGED <<arrived, lowVars, start, cpc, old, txVars, driverVars, overlap>>

\* waits while the list is invalid, then for a frame, for 100 ms
ListValid ==
  /\ hpc = "wait" /\ "RL" \notin csr /\ hpc' = "pop"
  /\ UNCHANGED <<csr, received, hframe, at, ring, irq>> /\ HighUnchanged

Pop ==
  /\ hpc = "pop" /\ received # << >>
  /\ hframe' = Head(received) /\ received' = Tail(received) /\ hpc' = "walk"
  /\ UNCHANGED <<csr, at, ring, irq>> /\ HighUnchanged

PopTimesOut ==
  /\ hpc = "pop" /\ received = << >> /\ hpc' = "wait"
  /\ UNCHANGED <<csr, received, hframe, at, ring, irq>> /\ HighUnchanged

FirstBuffer == IF start = Chain THEN 1 ELSE start

\* the first descriptor that is not a pointer: a buffer, or the end of the list
WalkFinds ==
  /\ hpc = "walk" /\ start # Nowhere /\ ring[FirstBuffer].valid
  /\ at' = FirstBuffer /\ ring' = [ring EXCEPT ![FirstBuffer].status = "busy"]
  /\ hpc' = "copy"
  /\ UNCHANGED <<csr, received, hframe, irq>> /\ HighUnchanged

WalkEnds ==
  /\ hpc = "walk" /\ (start # Nowhere => ~ring[FirstBuffer].valid) 
  /\ hpc' = "invalid" /\ hframe' = << >>
  /\ UNCHANGED <<csr, received, at, ring, irq>> /\ HighUnchanged

\* What is at address 0 may look like a descriptor: then the frame goes where it
\* points, outside the ring.
WalkStrays ==
  /\ hpc = "walk" /\ start = Nowhere /\ hpc' = "flag" /\ hframe' = << >>
  /\ UNCHANGED <<csr, received, at, ring, irq>> /\ HighUnchanged

Copy ==
  /\ hpc = "copy" /\ hpc' = "processed"
  /\ ring' = [ring EXCEPT ![at].frame = hframe] /\ hframe' = << >>
  /\ UNCHANGED <<csr, received, at, irq>> /\ HighUnchanged

Processed ==
  /\ hpc = "processed" /\ hpc' = "release"
  /\ ring' = [ring EXCEPT ![at].status = "done"]
  /\ UNCHANGED <<csr, received, hframe, at, irq>> /\ HighUnchanged

\* mutant: the word with the valid bit stays as it is
ReleasedStillValid(r) == r

\* the word with the valid bit becomes 0
Released(r) == [r EXCEPT !.valid = FALSE]

Release ==
  /\ hpc = "release" /\ hpc' = "flag" /\ ring' = [ring EXCEPT ![at] = Released(@)]
  /\ UNCHANGED <<csr, received, hframe, at, irq>> /\ HighUnchanged

\* mutant: an interrupt only when RI was clear
FlagOnce ==
  /\ hpc = "flag" /\ hpc' = IF "RI" \in csr THEN "invalid" ELSE "interrupt"
  /\ csr' = csr \cup {"RI"}
  /\ UNCHANGED <<received, hframe, at, ring, irq>> /\ HighUnchanged

Flag ==
  /\ hpc = "flag" /\ hpc' = "interrupt" /\ csr' = csr \cup {"RI"}
  /\ UNCHANGED <<received, hframe, at, ring, irq>> /\ HighUnchanged

\* the enable is looked at, and then the interrupt is queued
Interrupt ==
  /\ hpc = "interrupt" /\ hpc' = IF "IE" \in csr THEN "raise" ELSE "invalid"
  /\ UNCHANGED <<csr, received, hframe, at, ring, irq>> /\ HighUnchanged

Raise ==
  /\ hpc = "raise" /\ hpc' = "invalid" /\ irq' = TRUE
  /\ UNCHANGED <<csr, received, hframe, at, ring>> /\ HighUnchanged

\* the list is used up, whether or not the frame found a buffer
Invalid ==
  /\ hpc = "invalid" /\ hpc' = "wait" /\ csr' = csr \cup {"RL"}
  /\ UNCHANGED <<received, hframe, at, ring, irq>> /\ HighUnchanged

receiver_high == \/ ListValid \/ Pop \/ PopTimesOut \/ WalkFinds \/ WalkEnds \/ WalkStrays
                 \/ Copy \/ Processed \/ Release \/ Flag \/ Interrupt \/ Raise \/ Invalid

-----------------------------------------------------------------------------
(***************************************************************************)
(* The CPU: the driver's interrupt handler.  It acknowledges in the CSR,   *)
(* takes the frames, re-arms their buffers, and gives the list again when  *)
(* it took a frame or reads RL.                                            *)
(***************************************************************************)
CpuUnchanged == Overlap /\ UNCHANGED <<arrived, lowVars, highVars>>

\* After RESET and before the set-up nobody serves it.
AcceptInterrupt ==
  /\ cpc \in {"run", "off"} /\ irq /\ irq' = FALSE
  /\ cpc' = IF cpc = "run" THEN "ack_read" ELSE "off"
  /\ UNCHANGED <<csr, received, start, ring, old, txVars, driverVars>> /\ CpuUnchanged

\* write_word on the CSR: a load, the value as it is, and the value corrected
LoadOld ==
  /\ cpc = "ack_read" /\ cpc' = "ack_raw" /\ old' = csr
  /\ UNCHANGED <<csr, received, start, ring, irq, txVars, driverVars>> /\ CpuUnchanged

StoreRaw ==
  /\ cpc = "ack_raw" /\ cpc' = "ack_new" /\ csr' = Ack
  /\ UNCHANGED <<received, start, ring, irq, old, txVars, driverVars>> /\ CpuUnchanged

\* RI and XI cleared, the read-only bits as they were, RI while frames wait
ReadOnly == {"TL", "RL"}
NewCsr(v) == (v \ ({"RI", "XI"} \cup ReadOnly)) \cup (old \cap ReadOnly)
             \cup (IF received # << >> THEN {"RI"} ELSE {})

StoreNew ==
  /\ cpc = "ack_new" /\ cpc' = (IF up THEN "scan" ELSE "arm")
  /\ csr' = NewCsr(Ack) /\ old' = {}
  /\ UNCHANGED <<received, start, ring, irq, txVars, driverVars>> /\ CpuUnchanged

Scan ==
  /\ cpc = "scan"
  /\ LET done == {i \in Buffers : ring[i].status = "done"}
     IN  /\ ring' = [i \in Buffers |-> IF i \in done THEN Armed ELSE ring[i]]
         /\ cpc' = IF done # {} \/ "RL" \in csr THEN "give" ELSE "run"
  /\ UNCHANGED <<csr, received, start, irq, old, txVars, driverVars>> /\ CpuUnchanged

\* RX_BDLL, then RX_BDLH, which clears RL
Give ==
  /\ cpc = "give" /\ cpc' = "give_high" /\ start' \in {Chain} \cup Buffers
  /\ UNCHANGED <<csr, received, ring, irq, old, txVars, driverVars>> /\ CpuUnchanged

\* mutant: the bit of the other list
GiveHighTransmit ==
  /\ cpc = "give_high" /\ cpc' = "run" /\ csr' = csr \ {"TL"}
  /\ UNCHANGED <<received, start, ring, irq, old, txVars, driverVars>> /\ CpuUnchanged

GiveHigh ==
  /\ cpc = "give_high" /\ cpc' = "run" /\ csr' = csr \ {"RL"}
  /\ UNCHANGED <<received, start, ring, irq, old, txVars, driverVars>> /\ CpuUnchanged

-----------------------------------------------------------------------------
(***************************************************************************)
(* The CPU: transmitter(), in the store of TX_BDLH.                        *)
(***************************************************************************)
Transmit ==
  /\ cpc = "run" /\ lists < MaxLists /\ lists' = lists + 1
  /\ list' \in Lists /\ txp' = 1 /\ txlen' = 0
  /\ csr' = csr \ {"TL"} /\ cpc' = "tx"
  /\ UNCHANGED <<received, start, ring, irq, old, driverVars>> /\ CpuUnchanged

Descriptor == list[txp]
Next_p == IF Descriptor.to # 0 THEN Descriptor.to ELSE txp + 1

\* the end of the list, or a buffer that cannot be: TL, and no more
TxEnds ==
  /\ cpc = "tx" /\ (~Descriptor.valid \/ Descriptor.len = TooLong)
  /\ csr' = csr \cup {"TL"} /\ cpc' = "run"
  /\ list' = << >> /\ txp' = 1 /\ txlen' = 0
  /\ UNCHANGED <<received, start, ring, irq, old, lists, driverVars>> /\ CpuUnchanged

TxPiece ==
  /\ cpc = "tx" /\ Descriptor.valid /\ Descriptor.len # TooLong /\ ~Descriptor.end
  /\ txlen' = txlen + Descriptor.len /\ txp' = Next_p
  /\ UNCHANGED <<csr, received, start, ring, irq, cpc, old, list, lists, driverVars>> /\ CpuUnchanged

\* the whole frame: on the wire, or, in loopback, to the receive queue
TxFrame ==
  /\ cpc = "tx" /\ Descriptor.valid /\ Descriptor.len # TooLong /\ Descriptor.end
  /\ LET n == txlen + Descriptor.len
     IN  cpc' = IF n > 0 /\ "NL" \notin csr THEN "tx_room" ELSE "tx_flag"
  /\ txlen' = 0
  /\ UNCHANGED <<csr, received, start, ring, irq, old, list, txp, lists, driverVars>> /\ CpuUnchanged

TxRoom ==
  /\ cpc = "tx_room" /\ cpc' = IF HasRoom THEN "tx_push" ELSE "tx_flag"
  /\ UNCHANGED <<csr, received, start, ring, irq, old, txVars, driverVars>> /\ CpuUnchanged

TxPush ==
  /\ cpc = "tx_push" /\ cpc' = "tx_flag"
  /\ received' = Append(received, <<"loop", lists>>)
  /\ UNCHANGED <<csr, start, ring, irq, old, txVars, driverVars>> /\ CpuUnchanged

TxFlag ==
  /\ cpc = "tx_flag" /\ cpc' = "tx_interrupt" /\ csr' = csr \cup {"XI"}
  /\ UNCHANGED <<received, start, ring, irq, old, txVars, driverVars>> /\ CpuUnchanged

TxInterrupt ==
  /\ cpc = "tx_interrupt" /\ cpc' = "tx" /\ irq' = (irq \/ "IE" \in csr) /\ txp' = Next_p
  /\ UNCHANGED <<csr, received, start, ring, old, list, txlen, lists, driverVars>> /\ CpuUnchanged

transmitter == TxEnds \/ TxPiece \/ TxFrame \/ TxRoom \/ TxPush \/ TxFlag \/ TxInterrupt

-----------------------------------------------------------------------------
(***************************************************************************)
(* The CPU: the RESET instruction, which is reset(true), purge_buffers      *)
(* until it sees the queue empty, and then the CPU forgets its interrupts. *)
(* The program may load the driver again, which sets the controller up:    *)
(* the CSR, the ring, the list.                                            *)
(***************************************************************************)
\* all registers 0: no list, and RL clear
Reset ==
  /\ cpc = "run" /\ cpc' = "reset"
  /\ csr' = {} /\ start' = Nowhere /\ up' = FALSE
  /\ UNCHANGED <<received, ring, irq, old, txVars, mode>> /\ CpuUnchanged

\* "software reset" is bit 0, which is RE
ResetCsr ==
  /\ cpc = "reset" /\ cpc' = "purge" /\ csr' = {"RE", "TL", "RL"}
  /\ UNCHANGED <<received, start, ring, irq, old, txVars, driverVars>> /\ CpuUnchanged

Purge ==
  /\ cpc = "purge" /\ received # << >> /\ received' = Tail(received)
  /\ UNCHANGED <<csr, start, ring, irq, cpc, old, txVars, driverVars>> /\ CpuUnchanged

init_interrupt_queue ==
  /\ cpc = "purge" /\ received = << >> /\ irq' = FALSE /\ cpc' = "off"
  /\ UNCHANGED <<csr, received, start, ring, old, txVars, driverVars>> /\ CpuUnchanged

SetUp ==
  /\ cpc = "off" /\ cpc' = "ack_read" /\ mode' \in Modes
  /\ UNCHANGED <<csr, received, start, ring, irq, old, txVars, up>> /\ CpuUnchanged

Arm ==
  /\ cpc = "arm" /\ cpc' = "give" /\ up' = TRUE
  /\ ring' = [i \in Buffers |-> Armed]
  /\ UNCHANGED <<csr, received, start, irq, old, txVars, mode>> /\ CpuUnchanged

Cpu == \/ AcceptInterrupt \/ LoadOld \/ StoreRaw \/ StoreNew \/ Scan \/ Give \/ GiveHigh
       \/ Transmit \/ transmitter \/ Reset \/ ResetCsr \/ Purge \/ init_interrupt_queue
       \/ SetUp \/ Arm

Next == receiver_low \/ receiver_high \/ Cpu

Spec == Init /\ [][Next]_vars

-----------------------------------------------------------------------------
(***************************************************************************)
(* Properties.                                                             *)
(***************************************************************************)
\* A frame that the driver has not taken is never written over, not even when
\* the bit RL that should stop the receiver is lost in a store of the CSR
\* (deqna.cpp:434, 455): the valid bit of its descriptor was cleared (214).
FrameIsKept == [][\A i \in Buffers : ring[i].frame # << >>
                    => ring'[i].frame \in {ring[i].frame, << >>}]_vars

\* A frame in a buffer is always on its way to the driver: its interrupt waits,
\* is about to be queued, or the handler has still to look at the ring.  No
\* store of the CSR and no interrupt of the transmitter may eat it.  RESET does,
\* with the CPU's queue and IE (cpu.cpp:1557, deqna.cpp:368): from then on, and
\* until the driver has made the ring again, it need not be.
FilledIsSignalled ==
  up /\ (\E i \in Buffers : ring[i].status = "done")
    => \/ irq \/ hpc \in {"release", "flag", "interrupt", "raise"}
       \/ cpc \in {"ack_read", "ack_raw", "ack_new", "scan"}

\* Frames wait, the receiver waits for a list, the driver, which has set the
\* controller up, for an interrupt.
Deaf == /\ cpc = "run" /\ ~irq /\ received # << >>
        /\ hpc = "wait" /\ "RL" \in csr

\* The driver gave the descriptor back between the two stores that release it,
\* "processed" and the word with the valid bit (deqna.cpp:213, 214): it is not
\* valid, and nobody will look at it.
Lost(i) == ~ring[i].valid /\ ring[i].status # "done"

\* A receiver that went deaf has lost the descriptor at which its list begins,
\* or the last handler ended, or the set-up after a RESET did, when
\* receiver_high had still to set RL for the frame before (deqna.cpp:219, 232).
DeafNeedsOverlap == Deaf => overlap \/ Lost(FirstBuffer)

\* What the comment on the store of RX_BDLH says, "RX buffers set, no more
\* invalid" (deqna.cpp:458): a receiver whose driver answers every interrupt
\* with a list is never left without one.
NeverDeaf == ~Deaf
=============================================================================
