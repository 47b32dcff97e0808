----------------------------- MODULE DeqnaProofs -----------------------------
(***************************************************************************)
(* Proofs about Deqna: a frame in a buffer is signalled and is not written *)
(* over, and the controller goes deaf only by a handler that ended before  *)
(* receiver_high did, or by a lost descriptor, for every length of the     *)
(* queue and any number of frames, transmit lists and RESETs.              *)
(*                                                                         *)
(* What makes them inductive: from the set-up to the next RESET no store   *)
(* of the CSR clears IE; a valid descriptor is empty but for the one       *)
(* receiver_high is filling; and outside of a handler a list that is used  *)
(* up has its interrupt.                                                   *)
(***************************************************************************)
EXTENDS Deqna, SequenceTheorems, TLAPS

Frames == {<< >>} \cup ({"wire", "loop"} \X Nat)
Descriptors == [valid : BOOLEAN, status : {"none", "busy", "done"}, frame : Frames]

Handler == {"ack_read", "ack_raw", "ack_new", "scan", "give", "give_high"}
Transmitting == {"tx", "tx_room", "tx_push", "tx_flag", "tx_interrupt"}
Resetting == {"reset", "purge", "off", "arm"}
Finishing == {"processed", "release", "flag", "interrupt", "raise", "invalid"}

\* The transmitter's place in its list is left out: it depends on the lists
\* the driver gives.
TypeOK ==
  /\ received \in Seq(Frames) /\ arrived \in Nat
  /\ lpc \in {"get", "enabled", "room", "push"} /\ lframe \in Frames
  /\ hpc \in {"wait", "pop", "walk", "copy"} \cup Finishing /\ hframe \in Frames
  /\ at \in Buffers /\ start \in {Chain, Nowhere} \cup Buffers
  /\ ring \in [Buffers -> Descriptors]
  /\ irq \in BOOLEAN /\ overlap \in BOOLEAN /\ up \in BOOLEAN /\ mode \in Modes
  /\ cpc \in {"run"} \cup Transmitting \cup Handler \cup Resetting
  /\ lists \in Nat

\* From Arm to the next RESET the driver is there: it asks for interrupts, which
\* no store of the CSR takes back, and it has given a list.
SetUpIs ==
  /\ cpc \in Resetting => ~up
  /\ cpc \in {"run", "scan", "give", "give_high"} \cup Transmitting => up
  /\ up \/ cpc = "arm" => "IE" \in csr
  /\ up /\ cpc # "give" => start # Nowhere

\* A valid descriptor holds no frame, but for the one that is being filled; that
\* one stays valid until it is released.
ValidIsEmpty ==
  /\ \A i \in Buffers : ring[i].valid =>
       ring[i].frame = << >> \/ (i = at /\ hpc \in {"processed", "release"})
  /\ hpc = "copy" => ring[at].frame = << >>
  /\ hpc \in {"copy", "processed", "release"} => ring[at].valid

\* The driver is there, and no handler at work.
Idle == up /\ cpc \notin Handler

\* Then a list that is used up has its interrupt, unless the last handler ended
\* too early or the descriptor is lost.
Announced ==
  Idle /\ ~overlap /\ (hpc = "invalid" \/ "RL" \in csr) => irq \/ Lost(FirstBuffer)

IInv == TypeOK /\ SetUpIs /\ ValidIsEmpty /\ FilledIsSignalled /\ Announced

-----------------------------------------------------------------------------
(***************************************************************************)
(* The descriptors.                                                        *)
(***************************************************************************)
LEMMA ArmedIs ==
  /\ Armed \in Descriptors /\ Armed.valid = TRUE /\ Armed.status = "none"
  /\ Armed.frame = << >> /\ << >> \in Frames
  BY DEF Armed, Descriptors, Frames

\* A store in a field of a descriptor leaves its other fields, and the others, alone.
LEMMA FieldStored ==
  ASSUME NEW r \in [Buffers -> Descriptors], NEW b \in Buffers,
         NEW s \in {"none", "busy", "done"}, NEW f \in Frames
  PROVE  /\ LET n == [r EXCEPT ![b].status = s]
            IN  /\ n \in [Buffers -> Descriptors]
                /\ \A i \in Buffers :
                     /\ n[i].valid = r[i].valid /\ n[i].frame = r[i].frame
                     /\ n[i].status = IF i = b THEN s ELSE r[i].status
         /\ LET n == [r EXCEPT ![b].frame = f]
            IN  /\ n \in [Buffers -> Descriptors]
                /\ \A i \in Buffers :
                     /\ n[i].valid = r[i].valid /\ n[i].status = r[i].status
                     /\ n[i].frame = IF i = b THEN f ELSE r[i].frame
  <1>1. \A i \in Buffers : r[i] \in Descriptors
    OBVIOUS
  <1>2. ASSUME NEW d \in Descriptors
        PROVE  /\ LET n == [d EXCEPT !.status = s]
                  IN  n \in Descriptors /\ n.status = s /\ n.valid = d.valid /\ n.frame = d.frame
               /\ LET n == [d EXCEPT !.frame = f]
                  IN  n \in Descriptors /\ n.frame = f /\ n.valid = d.valid /\ n.status = d.status
    BY DEF Descriptors
  <1> QED BY <1>1, <1>2

\* The release of a descriptor clears its valid bit alone.
LEMMA ReleaseStored ==
  ASSUME TypeOK, Release
  PROVE  /\ ring' \in [Buffers -> Descriptors]
         /\ \A i \in Buffers :
              /\ ring'[i].status = ring[i].status /\ ring'[i].frame = ring[i].frame
              /\ ring'[i].valid = IF i = at THEN FALSE ELSE ring[i].valid
  <1>1. ring' = [ring EXCEPT ![at].valid = FALSE]
    BY DEF Release, Released
  <1>2. ring \in [Buffers -> Descriptors] /\ at \in Buffers
    BY DEF TypeOK
  <1>3. \A i \in Buffers : ring[i] \in Descriptors
    BY <1>2
  <1>4. ASSUME NEW d \in Descriptors
        PROVE  LET n == [d EXCEPT !.valid = FALSE]
               IN  /\ n \in Descriptors /\ n.valid = FALSE
                   /\ n.frame = d.frame /\ n.status = d.status
    BY DEF Descriptors
  <1> QED BY <1>1, <1>2, <1>3, <1>4

LEMMA FirstBufferIs ==
  ASSUME TypeOK, start # Nowhere
  PROVE  FirstBuffer \in Buffers
  BY DEF TypeOK, FirstBuffer, Buffers, Chain

\* The front of the queue.
LEMMA HeadIs ==
  ASSUME TypeOK, received # << >>
  PROVE  Head(received) \in Frames /\ Tail(received) \in Seq(Frames)
  BY HeadTailProperties DEF TypeOK

-----------------------------------------------------------------------------
(***************************************************************************)
(* receiver_low shares with the rest only the queue.                       *)
(***************************************************************************)
LEMMA LowKeeps ==
  ASSUME IInv, receiver_low
  PROVE  IInv'
  <1>1. UNCHANGED <<csr, hpc, hframe, at, start, ring, irq, cpc, old, lists, up, mode, overlap>>
    BY DEF receiver_low, Get, Enabled, LowRoom, LowPush, LowUnchanged, highVars, txVars, driverVars
  <1>2. TypeOK'
    <2>1. received' \in Seq(Frames) /\ arrived' \in Nat /\ lframe' \in Frames
      <3>1. CASE Get
        BY <3>1 DEF Get, lowVars, IInv, TypeOK, Frames
      <3>2. CASE Enabled \/ LowRoom
        BY <3>2 DEF Enabled, LowRoom, queueVars, IInv, TypeOK
      <3>3. CASE LowPush
        BY <3>3, AppendProperties DEF LowPush, IInv, TypeOK, Frames
      <3> QED BY <3>1, <3>2, <3>3 DEF receiver_low
    <2>2. lpc' \in {"get", "enabled", "room", "push"}
      BY DEF receiver_low, Get, Enabled, LowRoom, LowPush, lowVars
    <2> QED BY <1>1, <2>1, <2>2 DEF IInv, TypeOK
  <1> QED BY <1>1, <1>2 DEF IInv, SetUpIs, ValidIsEmpty, FilledIsSignalled, Idle, Announced, Lost,
                            FirstBuffer

-----------------------------------------------------------------------------
(***************************************************************************)
(* receiver_high.                                                          *)
(***************************************************************************)

\* What the rest of the state does in a step of receiver_high.
LEMMA HighIs ==
  ASSUME TypeOK, receiver_high
  PROVE  /\ UNCHANGED <<arrived, lpc, lframe, start, cpc, old, lists, up, mode, overlap>>
         /\ hpc' \in {"wait", "pop", "walk", "copy"} \cup Finishing
         /\ csr \subseteq csr' /\ (irq => irq')
  <1>1. HighUnchanged
    BY DEF receiver_high, ListValid, Pop, PopTimesOut, WalkFinds, WalkEnds, WalkStrays, Copy,
           Processed, Release, Flag, Interrupt, Raise, Invalid
  <1>2. hpc' \in {"wait", "pop", "walk", "copy"} \cup Finishing
    BY DEF receiver_high, ListValid, Pop, PopTimesOut, WalkFinds, WalkEnds, WalkStrays, Copy,
           Processed, Release, Flag, Interrupt, Raise, Invalid, Finishing
  <1>3. csr \subseteq csr' /\ (irq => irq')
    BY DEF receiver_high, ListValid, Pop, PopTimesOut, WalkFinds, WalkEnds, WalkStrays, Copy,
           Processed, Release, Flag, Interrupt, Raise, Invalid
  <1> QED BY <1>1, <1>2, <1>3 DEF HighUnchanged, lowVars, txVars, driverVars

LEMMA HighTypes ==
  ASSUME IInv, receiver_high
  PROVE  TypeOK' /\ SetUpIs'
  <1>1. TypeOK /\ SetUpIs
    BY DEF IInv
  <1>2. received' \in Seq(Frames) /\ hframe' \in Frames
    <2>1. CASE Pop
      BY <1>1, <2>1, HeadIs DEF Pop
    <2>2. CASE ~Pop
      <3>1. UNCHANGED received /\ hframe' \in {hframe, << >>}
        BY <2>2 DEF receiver_high, ListValid, PopTimesOut, WalkFinds, WalkEnds, WalkStrays, Copy,
           Processed, Release, Flag, Interrupt, Raise, Invalid
      <3> QED BY <1>1, <3>1, ArmedIs DEF TypeOK
    <2> QED BY <2>1, <2>2
  <1>3. at' \in Buffers /\ ring' \in [Buffers -> Descriptors]
    <2>1. CASE WalkFinds
      BY <1>1, <2>1, FirstBufferIs, FieldStored DEF WalkFinds, TypeOK
    <2>2. CASE Copy
      BY <1>1, <2>2, FieldStored DEF Copy, TypeOK
    <2>3. CASE Processed
      BY <1>1, <2>3, FieldStored DEF Processed, TypeOK
    <2>4. CASE Release
      BY <1>1, <2>4, ReleaseStored DEF Release, TypeOK
    <2>5. CASE ~(WalkFinds \/ Copy \/ Processed \/ Release)
      BY <1>1, <2>5 DEF TypeOK, receiver_high, ListValid, Pop, PopTimesOut, WalkEnds, WalkStrays,
         Flag, Interrupt, Raise, Invalid
    <2> QED BY <2>1, <2>2, <2>3, <2>4, <2>5
  <1>4. irq' \in BOOLEAN
    BY <1>1 DEF TypeOK, receiver_high, ListValid, Pop, PopTimesOut, WalkFinds, WalkEnds, WalkStrays,
       Copy, Processed, Release, Flag, Interrupt, Raise, Invalid
  <1>5. SetUpIs'
    BY <1>1, HighIs DEF SetUpIs
  <1> QED BY <1>1, <1>2, <1>3, <1>4, <1>5, HighIs DEF TypeOK

\* The steps of receiver_high that leave the descriptors alone.
LEMMA HighElsewhere ==
  ASSUME IInv, \/ ListValid \/ Pop \/ PopTimesOut \/ WalkEnds \/ WalkStrays \/ Flag
               \/ Interrupt \/ Raise \/ Invalid
  PROVE  IInv'
  <1>1. /\ TypeOK /\ SetUpIs /\ ValidIsEmpty /\ FilledIsSignalled /\ Announced
        /\ TypeOK' /\ SetUpIs'
        /\ UNCHANGED <<ring, at, start, cpc, up, overlap>> /\ (irq => irq')
    BY HighTypes, HighIs DEF IInv, receiver_high, ListValid, Pop, PopTimesOut, WalkEnds, WalkStrays,
       Flag, Interrupt, Raise, Invalid
  <1>2. /\ hpc \in {"wait", "pop", "walk", "flag", "interrupt", "raise", "invalid"}
        /\ hpc' \in {"wait", "pop", "walk", "flag", "interrupt", "raise", "invalid"}
    BY DEF ListValid, Pop, PopTimesOut, WalkEnds, WalkStrays, Flag, Interrupt, Raise, Invalid
  <1>3. hpc = "flag" => hpc' = "interrupt"
    BY DEF ListValid, Pop, PopTimesOut, WalkEnds, WalkStrays, Flag, Interrupt, Raise, Invalid
  <1>4. up /\ hpc = "interrupt" => hpc' = "raise"
    BY <1>1 DEF SetUpIs, ListValid, Pop, PopTimesOut, WalkEnds, WalkStrays, Flag, Interrupt, Raise,
                Invalid
  <1>5. hpc = "raise" => irq'
    BY DEF ListValid, Pop, PopTimesOut, WalkEnds, WalkStrays, Flag, Interrupt, Raise, Invalid
  <1>6. ValidIsEmpty'
    BY <1>1, <1>2 DEF ValidIsEmpty
  <1>7. FilledIsSignalled'
    BY <1>1, <1>2, <1>3, <1>4, <1>5 DEF FilledIsSignalled
  <1>8. Announced'
    <2>1. SUFFICES ASSUME Idle, ~overlap, hpc' = "invalid" \/ "RL" \in csr', ~irq', ~Lost(FirstBuffer)
                   PROVE  FALSE
      BY <1>1 DEF Announced, Idle, Lost, FirstBuffer
    <2>2. ~irq /\ hpc # "invalid" /\ "RL" \notin csr
      BY <1>1, <2>1 DEF Announced
    <2>3. "RL" \notin csr'
      BY <2>2 DEF ListValid, Pop, PopTimesOut, WalkEnds, WalkStrays, Flag, Interrupt, Raise, Invalid
    <2>4. CASE WalkEnds
      <3>1. start # Nowhere /\ hpc = "walk"
        BY <1>1, <2>1, <2>4 DEF Idle, Handler, SetUpIs, WalkEnds
      <3>2. ring[FirstBuffer].status = "done" /\ FirstBuffer \in Buffers
        BY <1>1, <2>1, <2>4, <3>1, FirstBufferIs DEF Lost, WalkEnds
      <3> QED BY <1>1, <2>1, <2>2, <3>1, <3>2 DEF FilledIsSignalled, Idle, Handler
    <2>5. CASE ~WalkEnds
      <3>1. hpc' # "invalid"
        BY <1>1, <1>4, <1>5, <2>1, <2>5 DEF Idle, ListValid, Pop, PopTimesOut, WalkStrays, Flag,
           Interrupt, Raise, Invalid
      <3> QED BY <2>1, <2>3, <3>1
    <2> QED BY <2>4, <2>5
  <1> QED BY <1>1, <1>6, <1>7, <1>8 DEF IInv

\* The steps that store in a descriptor.
LEMMA HighFills ==
  ASSUME IInv, WalkFinds \/ Copy \/ Processed \/ Release
  PROVE  IInv'
  <1>1. /\ TypeOK /\ SetUpIs /\ ValidIsEmpty /\ FilledIsSignalled /\ Announced
        /\ TypeOK' /\ SetUpIs'
        /\ UNCHANGED <<start, cpc, irq, csr, up, overlap>>
    BY HighTypes, HighIs DEF IInv, receiver_high, WalkFinds, Copy, Processed, Release
  <1>2. ring \in [Buffers -> Descriptors] /\ at \in Buffers /\ hframe \in Frames
    BY <1>1 DEF TypeOK
  <1> DEFINE fb == FirstBuffer
  <1>3. /\ Idle => fb \in Buffers
        /\ fb' = fb /\ (Idle' => Idle)
        /\ hpc \notin {"invalid"} /\ hpc' # "invalid"
    <2>1. Idle => start # Nowhere
      BY <1>1 DEF Idle, Handler, SetUpIs
    <2> QED BY <1>1, <2>1, FirstBufferIs DEF FirstBuffer, Idle, WalkFinds, Copy, Processed, Release
  <1> HIDE DEF fb
  \* A lost descriptor stays lost.
  <1>4. ASSUME Idle /\ ~ring[fb].valid /\ ring[fb].status # "done" =>
                 ~ring'[fb].valid /\ ring'[fb].status # "done"
        PROVE  Announced'
    <2>1. SUFFICES ASSUME Idle', ~overlap', hpc' = "invalid" \/ "RL" \in csr', ~irq'
                   PROVE  ~ring'[fb].valid /\ ring'[fb].status # "done"
      BY <1>3 DEF Announced, Lost, fb
    <2>2. ~ring[fb].valid /\ ring[fb].status # "done"
      BY <1>1, <1>3, <2>1 DEF Announced, Lost, fb
    <2> QED BY <1>3, <1>4, <2>1, <2>2
  <1>5. CASE WalkFinds
    <2> DEFINE b == FirstBuffer
    <2>1. /\ b \in Buffers /\ ring[b].valid /\ at' = b /\ hpc = "walk" /\ hpc' = "copy"
          /\ ring' = [ring EXCEPT ![b].status = "busy"] /\ b = fb
      BY <1>1, <1>5, FirstBufferIs DEF WalkFinds, fb
    <2> HIDE DEF b
    <2>2. \A i \in Buffers :
            /\ ring'[i].valid = ring[i].valid /\ ring'[i].frame = ring[i].frame
            /\ ring'[i].status = IF i = b THEN "busy" ELSE ring[i].status
      BY <1>2, <2>1, FieldStored
    <2>3. ValidIsEmpty'
      BY <1>1, <2>1, <2>2 DEF ValidIsEmpty
    <2>4. FilledIsSignalled'
      BY <1>1, <2>1, <2>2 DEF FilledIsSignalled
    <2>5. Announced'
      BY <1>4, <2>1
    <2> QED BY <1>1, <2>3, <2>4, <2>5 DEF IInv
  <1>6. CASE Copy
    <2>1. /\ hpc = "copy" /\ hpc' = "processed" /\ UNCHANGED at
          /\ ring' = [ring EXCEPT ![at].frame = hframe]
      BY <1>6 DEF Copy
    <2>2. \A i \in Buffers :
            /\ ring'[i].valid = ring[i].valid /\ ring'[i].status = ring[i].status
            /\ ring'[i].frame = IF i = at THEN hframe ELSE ring[i].frame
      BY <1>2, <2>1, FieldStored
    <2>3. ValidIsEmpty'
      BY <1>1, <1>2, <2>1, <2>2 DEF ValidIsEmpty
    <2>4. FilledIsSignalled'
      BY <1>1, <2>1, <2>2 DEF FilledIsSignalled
    <2>5. Announced'
      BY <1>3, <1>4, <2>2
    <2> QED BY <1>1, <2>3, <2>4, <2>5 DEF IInv
  <1>7. CASE Processed
    <2>1. /\ hpc = "processed" /\ hpc' = "release" /\ UNCHANGED at
          /\ ring' = [ring EXCEPT ![at].status = "done"] /\ ring[at].valid
      BY <1>1, <1>7 DEF Processed, ValidIsEmpty
    <2>2. \A i \in Buffers :
            /\ ring'[i].valid = ring[i].valid /\ ring'[i].frame = ring[i].frame
            /\ ring'[i].status = IF i = at THEN "done" ELSE ring[i].status
      BY <1>2, <2>1, FieldStored
    <2>3. ValidIsEmpty'
      BY <1>1, <1>2, <2>1, <2>2 DEF ValidIsEmpty
    <2>4. FilledIsSignalled'
      BY <1>1, <2>1, <2>2 DEF FilledIsSignalled
    <2>5. Announced'
      BY <1>3, <1>4, <2>1, <2>2
    <2> QED BY <1>1, <2>3, <2>4, <2>5 DEF IInv
  <1>8. CASE Release
    <2>1. hpc = "release" /\ hpc' = "flag" /\ UNCHANGED at
      BY <1>8 DEF Release
    <2>2. \A i \in Buffers :
            /\ ring'[i].status = ring[i].status /\ ring'[i].frame = ring[i].frame
            /\ ring'[i].valid = IF i = at THEN FALSE ELSE ring[i].valid
      BY <1>1, <1>8, ReleaseStored
    <2>3. ValidIsEmpty'
      BY <1>1, <2>1, <2>2 DEF ValidIsEmpty
    <2>4. FilledIsSignalled'
      BY <1>1, <2>1, <2>2 DEF FilledIsSignalled
    <2>5. Announced'
      BY <1>3, <1>4, <2>2
    <2> QED BY <1>1, <2>3, <2>4, <2>5 DEF IInv
  <1> QED BY <1>5, <1>6, <1>7, <1>8

-----------------------------------------------------------------------------
(***************************************************************************)
(* The CPU.                                                                *)
(***************************************************************************)
LEMMA CpuIs ==
  ASSUME TypeOK, Cpu
  PROVE  /\ UNCHANGED <<arrived, lpc, lframe, hpc, hframe, at>> /\ Overlap
         /\ cpc' \in {"run"} \cup Transmitting \cup Handler \cup Resetting
  <1> USE DEF Cpu, AcceptInterrupt, LoadOld, StoreRaw, StoreNew, Scan, Give, GiveHigh, Transmit,
              transmitter, TxEnds, TxPiece, TxFrame, TxRoom, TxPush, TxFlag, TxInterrupt,
              Reset, ResetCsr, Purge, init_interrupt_queue, SetUp, Arm
  <1>1. CpuUnchanged
    OBVIOUS
  <1>2. cpc' \in {"run"} \cup Transmitting \cup Handler \cup Resetting
    BY DEF TypeOK, Handler, Transmitting, Resetting
  <1> QED BY <1>1, <1>2 DEF CpuUnchanged, lowVars, highVars

LEMMA CpuTypes ==
  ASSUME IInv, Cpu
  PROVE  TypeOK'
  <1>1. TypeOK
    BY DEF IInv
  <1>2. received' \in Seq(Frames) /\ lists' \in Nat
    <2>1. CASE TxPush
      <3>1. <<"loop", lists>> \in Frames
        BY <1>1 DEF TypeOK, Frames
      <3> QED BY <1>1, <2>1, <3>1, AppendProperties DEF TxPush, TypeOK, txVars
    <2>2. CASE Purge
      BY <1>1, <2>2, HeadIs DEF Purge, TypeOK, txVars
    <2>3. CASE ~(TxPush \/ Purge)
      <3>1. UNCHANGED received
        BY <2>3 DEF Cpu, AcceptInterrupt, LoadOld, StoreRaw, StoreNew, Scan, Give, GiveHigh,
           Transmit, transmitter, TxEnds, TxPiece, TxFrame, TxRoom, TxFlag, TxInterrupt,
           Reset, ResetCsr, init_interrupt_queue, SetUp, Arm
      <3>2. UNCHANGED lists \/ lists' = lists + 1
        BY <2>3 DEF Cpu, AcceptInterrupt, LoadOld, StoreRaw, StoreNew, Scan, Give, GiveHigh,
           Transmit, transmitter, TxEnds, TxPiece, TxFrame, TxRoom, TxFlag, TxInterrupt,
           Reset, ResetCsr, init_interrupt_queue, SetUp, Arm, txVars
      <3> QED BY <1>1, <3>1, <3>2 DEF TypeOK
    <2> QED BY <2>1, <2>2, <2>3
  <1>3. ring' \in [Buffers -> Descriptors]
    <2>1. CASE Scan
      BY <1>1, <2>1, ArmedIs DEF Scan, TypeOK
    <2>2. CASE Arm
      BY <2>2, ArmedIs DEF Arm
    <2>3. CASE ~(Scan \/ Arm)
      BY <1>1, <2>3 DEF TypeOK, Cpu, AcceptInterrupt, LoadOld, StoreRaw, StoreNew, Give, GiveHigh,
         Transmit, transmitter, TxEnds, TxPiece, TxFrame, TxRoom, TxPush, TxFlag, TxInterrupt,
         Reset, ResetCsr, Purge, init_interrupt_queue, SetUp
    <2> QED BY <2>1, <2>2, <2>3
  <1>4. irq' \in BOOLEAN /\ start' \in {Chain, Nowhere} \cup Buffers
    BY <1>1 DEF TypeOK, Cpu, AcceptInterrupt, LoadOld, StoreRaw, StoreNew, Scan, Give, GiveHigh,
       Transmit, transmitter, TxEnds, TxPiece, TxFrame, TxRoom, TxPush, TxFlag, TxInterrupt,
       Reset, ResetCsr, Purge, init_interrupt_queue, SetUp, Arm
  <1>5. overlap' \in BOOLEAN
    BY <1>1, CpuIs DEF Overlap, TypeOK
  <1>6. up' \in BOOLEAN /\ mode' \in Modes
    BY <1>1 DEF TypeOK, Cpu, AcceptInterrupt, LoadOld, StoreRaw, StoreNew, Scan, Give, GiveHigh,
       Transmit, transmitter, TxEnds, TxPiece, TxFrame, TxRoom, TxPush, TxFlag, TxInterrupt,
       Reset, ResetCsr, Purge, init_interrupt_queue, SetUp, Arm, driverVars
  <1> QED BY <1>1, <1>2, <1>3, <1>4, <1>5, <1>6, CpuIs DEF TypeOK

\* The store of the CSR leaves the driver's interrupts enabled.
LEMMA StoreKeepsIE == "IE" \in Ack /\ "IE" \in NewCsr(Ack)
  BY DEF Ack, NewCsr, Kept, ReadOnly

LEMMA CpuSetUp ==
  ASSUME IInv, Cpu
  PROVE  SetUpIs'
  <1>1. TypeOK /\ SetUpIs /\ TypeOK'
    BY CpuTypes DEF IInv
  <1>2. /\ cpc' \in Resetting => ~up'
        /\ cpc' \in {"run", "scan", "give", "give_high"} \cup Transmitting => up'
    BY <1>1 DEF SetUpIs, Resetting, Transmitting, TypeOK, Handler, driverVars,
       Cpu, AcceptInterrupt, LoadOld, StoreRaw, StoreNew, Scan, Give, GiveHigh,
       Transmit, transmitter, TxEnds, TxPiece, TxFrame, TxRoom, TxPush, TxFlag, TxInterrupt,
       Reset, ResetCsr, Purge, init_interrupt_queue, SetUp, Arm
  <1>3. up' \/ cpc' = "arm" => "IE" \in csr'
    <2>1. CASE StoreRaw \/ StoreNew
      BY <1>1, <2>1, StoreKeepsIE DEF StoreRaw, StoreNew
    <2>2. CASE ~(StoreRaw \/ StoreNew)
      BY <1>1, <2>2 DEF SetUpIs, Resetting, driverVars,
         Cpu, AcceptInterrupt, LoadOld, Scan, Give, GiveHigh,
         Transmit, transmitter, TxEnds, TxPiece, TxFrame, TxRoom, TxPush, TxFlag, TxInterrupt,
         Reset, ResetCsr, Purge, init_interrupt_queue, SetUp, Arm
    <2> QED BY <2>1, <2>2
  <1>4. up' /\ cpc' # "give" => start' # Nowhere
    <2>1. CASE Give
      BY <2>1 DEF Give, Chain, Buffers, Nowhere
    <2>2. CASE ~Give
      BY <1>1, <2>2 DEF SetUpIs, Resetting, driverVars,
         Cpu, AcceptInterrupt, LoadOld, StoreRaw, StoreNew, Scan, GiveHigh,
         Transmit, transmitter, TxEnds, TxPiece, TxFrame, TxRoom, TxPush, TxFlag, TxInterrupt,
         Reset, ResetCsr, Purge, init_interrupt_queue, SetUp, Arm
    <2> QED BY <2>1, <2>2
  <1> QED BY <1>2, <1>3, <1>4 DEF SetUpIs

\* A handler, or the set-up, that ends too early for nothing but RL sets overlap.
LEMMA HandlerEnds ==
  ASSUME IInv, Cpu, Idle', cpc \in Handler \cup Resetting, ~overlap'
  PROVE  hpc' # "invalid" /\ "RL" \notin csr'
  <1>1. TypeOK /\ SetUpIs /\ UNCHANGED hpc /\ Overlap /\ up' /\ cpc' \notin Handler
    BY CpuIs DEF IInv, Idle
  <1>2. (Scan \/ GiveHigh) /\ cpc' = "run"
    BY <1>1 DEF Handler, Resetting, driverVars, SetUpIs,
       Cpu, AcceptInterrupt, LoadOld, StoreRaw, StoreNew, Scan, Give, GiveHigh,
       Transmit, transmitter, TxEnds, TxPiece, TxFrame, TxRoom, TxPush, TxFlag, TxInterrupt,
       Reset, ResetCsr, Purge, init_interrupt_queue, SetUp, Arm
  <1>3. "RL" \notin csr'
    BY <1>2 DEF Scan, GiveHigh
  <1>4. hpc # "invalid"
    BY <1>1, <1>2 DEF Overlap, Scan, GiveHigh
  <1> QED BY <1>1, <1>3, <1>4

\* The steps that look at no descriptor.
LEMMA CpuElsewhere ==
  ASSUME IInv, Cpu, ~Scan, ~Arm
  PROVE  IInv'
  <1>1. /\ TypeOK /\ SetUpIs /\ ValidIsEmpty /\ FilledIsSignalled /\ Announced
        /\ TypeOK' /\ SetUpIs' /\ UNCHANGED <<hpc, at>> /\ Overlap
    BY CpuTypes, CpuSetUp, CpuIs DEF IInv
  <1>2. UNCHANGED ring
    BY DEF Cpu, AcceptInterrupt, LoadOld, StoreRaw, StoreNew, Give, GiveHigh,
       Transmit, transmitter, TxEnds, TxPiece, TxFrame, TxRoom, TxPush, TxFlag, TxInterrupt,
       Reset, ResetCsr, Purge, init_interrupt_queue, SetUp
  <1>3. up' => up
    BY DEF Cpu, AcceptInterrupt, LoadOld, StoreRaw, StoreNew, Give, GiveHigh,
       Transmit, transmitter, TxEnds, TxPiece, TxFrame, TxRoom, TxPush, TxFlag, TxInterrupt,
       Reset, ResetCsr, Purge, init_interrupt_queue, SetUp, driverVars
  <1>4. up' /\ irq => irq' \/ cpc' = "ack_read"
    BY <1>1 DEF SetUpIs, Resetting, driverVars,
       Cpu, AcceptInterrupt, LoadOld, StoreRaw, StoreNew, Give, GiveHigh,
       Transmit, transmitter, TxEnds, TxPiece, TxFrame, TxRoom, TxPush, TxFlag, TxInterrupt,
       Reset, ResetCsr, Purge, init_interrupt_queue, SetUp
  <1>5. up' /\ cpc \in {"ack_read", "ack_raw", "ack_new", "scan"} =>
             cpc' \in {"ack_read", "ack_raw", "ack_new", "scan"}
    BY DEF Cpu, AcceptInterrupt, LoadOld, StoreRaw, StoreNew, Give, GiveHigh,
       Transmit, transmitter, TxEnds, TxPiece, TxFrame, TxRoom, TxPush, TxFlag, TxInterrupt,
       Reset, ResetCsr, Purge, init_interrupt_queue, SetUp, driverVars
  <1>6. ValidIsEmpty' /\ FilledIsSignalled'
    BY <1>1, <1>2, <1>3, <1>4, <1>5 DEF ValidIsEmpty, FilledIsSignalled
  <1>7. Announced'
    <2>1. SUFFICES ASSUME Idle', ~overlap', hpc' = "invalid" \/ "RL" \in csr'
                   PROVE  irq' \/ Lost(FirstBuffer)'
      BY DEF Announced
    <2>2. Idle /\ cpc \notin Resetting
      BY <1>1, <1>3, <2>1, HandlerEnds DEF Idle, TypeOK
    <2>3. ~overlap /\ UNCHANGED start /\ ("RL" \in csr' => "RL" \in csr)
      <3>1. cpc \notin Handler
        BY <2>2 DEF Idle
      <3>2. ~overlap
        BY <1>1, <2>1, <3>1 DEF Overlap, Handler
      <3> QED BY <2>1, <2>2, <3>1, <3>2 DEF Handler, Resetting, Idle,
         Cpu, AcceptInterrupt, LoadOld, StoreRaw, StoreNew, Give, GiveHigh,
         Transmit, transmitter, TxEnds, TxPiece, TxFrame, TxRoom, TxPush, TxFlag, TxInterrupt,
         Reset, ResetCsr, Purge, init_interrupt_queue, SetUp
    <2>4. irq \/ Lost(FirstBuffer)
      BY <1>1, <2>1, <2>2, <2>3 DEF Announced
    <2> QED BY <1>2, <1>4, <2>1, <2>3, <2>4 DEF Idle, Handler, Lost, FirstBuffer
  <1> QED BY <1>1, <1>6, <1>7 DEF IInv

\* The driver takes the frames, or makes the ring again.
LEMMA ScanKeeps ==
  ASSUME IInv, Scan \/ Arm
  PROVE  IInv'
  <1>1. /\ TypeOK /\ SetUpIs /\ ValidIsEmpty /\ TypeOK' /\ SetUpIs'
        /\ UNCHANGED <<hpc, at>>
    BY CpuTypes, CpuSetUp, CpuIs DEF IInv, Cpu
  <1>2. \A i \in Buffers :
          /\ ring'[i] \in {Armed, ring[i]}
          /\ ring[i].status = "done" => ring'[i] = Armed
    BY DEF Scan, Arm
  <1>3. \A i \in Buffers : ring'[i].status # "done"
    BY <1>2, ArmedIs
  <1>4. ValidIsEmpty'
    <2>1. \A i \in Buffers : (ring'[i].frame = << >> /\ ring'[i].valid) \/ ring'[i] = ring[i]
      BY <1>2, ArmedIs
    <2>2. at \in Buffers
      BY <1>1 DEF TypeOK
    <2> QED BY <1>1, <2>1, <2>2 DEF ValidIsEmpty
  <1>5. FilledIsSignalled'
    BY <1>3 DEF FilledIsSignalled
  <1>6. Announced'
    <2>1. cpc \in Handler \cup Resetting
      BY DEF Scan, Arm, Handler, Resetting
    <2> QED BY <2>1, HandlerEnds DEF Announced, Cpu
  <1> QED BY <1>1, <1>4, <1>5, <1>6 DEF IInv

-----------------------------------------------------------------------------
(***************************************************************************)
(* The theorems.                                                           *)
(***************************************************************************)
LEMMA InitIInv == Init => IInv
  <1> SUFFICES ASSUME Init PROVE IInv
    OBVIOUS
  <1>1. /\ received = << >> /\ arrived = 0 /\ lpc = "get" /\ lframe = << >>
        /\ hpc = "wait" /\ hframe = << >> /\ at = 1
        /\ start \in {Chain} \cup Buffers /\ ring = [i \in Buffers |-> Armed]
        /\ irq = FALSE /\ cpc = "run" /\ lists = 0 /\ overlap = FALSE
        /\ up = TRUE /\ mode \in Modes /\ "IE" \in csr /\ "RL" \notin csr
    BY DEF Init, Kept, Modes
  <1>2. ring \in [Buffers -> Descriptors] /\ at \in Buffers
    BY <1>1, ArmedIs DEF Buffers
  <1>3. received \in Seq(Frames)
    BY <1>1, EmptySeq
  <1>4. TypeOK
    BY <1>1, <1>2, <1>3, ArmedIs DEF TypeOK
  <1>5. \A i \in Buffers : ring[i].valid = TRUE /\ ring[i].status = "none" /\ ring[i].frame = << >>
    BY <1>1, ArmedIs
  <1>6. SetUpIs
    BY <1>1 DEF SetUpIs, Resetting, Chain, Buffers, Nowhere
  <1> QED BY <1>1, <1>4, <1>5, <1>6 DEF IInv, ValidIsEmpty, FilledIsSignalled, Announced

LEMMA NextIInv == IInv /\ [Next]_vars => IInv'
  <1>1. ASSUME IInv, UNCHANGED vars
        PROVE  IInv'
    BY <1>1 DEF IInv, vars, queueVars, lowVars, highVars, txVars, driverVars, TypeOK, SetUpIs,
       ValidIsEmpty, FilledIsSignalled, Idle, Announced, Lost, FirstBuffer
  <1> QED BY <1>1, LowKeeps, HighElsewhere, HighFills, CpuElsewhere, ScanKeeps
          DEF Next, receiver_high, Cpu

THEOREM Invariant == Spec => []IInv
  BY InitIInv, NextIInv, PTL DEF Spec

\* The three threads keep the registers, the queue and the descriptors within
\* their types, whatever they are in the middle of (deqna.cpp, deqna.h).
THEOREM TypeCorrect == Spec => []TypeOK
  <1>1. IInv => TypeOK
    BY DEF IInv
  <1> QED BY <1>1, Invariant, PTL

\* A frame in a buffer is on its way to the driver (deqna.cpp:210-235): its
\* interrupt waits, is about to be queued, or the handler has still to look;
\* not so from a RESET until the driver has made its ring again.
THEOREM Signalled == Spec => []FilledIsSignalled
  <1>1. IInv => FilledIsSignalled
    BY DEF IInv
  <1> QED BY <1>1, Invariant, PTL

\* Only a handler that ended before receiver_high set RL leaves the receiver
\* without a list, or one that lost the descriptor at which the list begins
\* (deqna.cpp:214, 219, 232).
THEOREM DeafByOverlap == Spec => []DeafNeedsOverlap
  <1>1. IInv => DeafNeedsOverlap
    <2> SUFFICES ASSUME IInv, Deaf, ~overlap PROVE Lost(FirstBuffer)
      BY DEF DeafNeedsOverlap
    <2>1. Idle /\ "RL" \in csr /\ ~irq
      BY DEF IInv, SetUpIs, Deaf, Idle, Handler
    <2> QED BY <2>1 DEF IInv, Announced
  <1> QED BY <1>1, Invariant, PTL

\* receiver_high writes over no frame that the driver has not taken, although
\* a store of the CSR may lose RL (deqna.cpp:434, 455).
THEOREM NotOverwritten == Spec => FrameIsKept
  <1> DEFINE Stays(i) == ring[i].frame # << >> => ring'[i].frame \in {ring[i].frame, << >>}
  <1>1. ASSUME IInv, [Next]_vars, NEW i \in Buffers
        PROVE  Stays(i)
    <2>1. TypeOK /\ ValidIsEmpty /\ ring \in [Buffers -> Descriptors] /\ at \in Buffers
          /\ hframe \in Frames
      BY <1>1 DEF IInv, TypeOK
    <2>2. CASE Copy
      <3>1. ring[at].frame = << >> /\ ring' = [ring EXCEPT ![at].frame = hframe]
        BY <2>1, <2>2 DEF Copy, ValidIsEmpty
      <3>2. ring'[i].frame = IF i = at THEN hframe ELSE ring[i].frame
        BY <2>1, <3>1, FieldStored
      <3> QED BY <3>1, <3>2
    <2>3. CASE WalkFinds
      BY <2>1, <2>3, FirstBufferIs, FieldStored DEF WalkFinds
    <2>4. CASE Processed
      BY <2>1, <2>4, FieldStored DEF Processed
    <2>5. CASE Release
      BY <2>1, <2>5, ReleaseStored
    <2>6. CASE Scan
      BY <2>6, ArmedIs DEF Scan
    <2>8. CASE Arm
      BY <2>8, ArmedIs DEF Arm
    <2>7. CASE ~(Copy \/ WalkFinds \/ Processed \/ Release \/ Scan \/ Arm)
      <3>1. UNCHANGED ring
        BY <1>1, <2>7 DEF vars, Next, receiver_low, Get, Enabled, LowRoom, LowPush, LowUnchanged,
           receiver_high, ListValid, Pop, PopTimesOut, WalkEnds, WalkStrays, Flag, Interrupt, Raise,
           Invalid, Cpu, AcceptInterrupt, LoadOld, StoreRaw, StoreNew, Give, GiveHigh,
           Transmit, transmitter, TxEnds, TxPiece, TxFrame, TxRoom, TxPush, TxFlag, TxInterrupt,
           Reset, ResetCsr, Purge, init_interrupt_queue, SetUp
      <3> QED BY <3>1
    <2> QED BY <2>2, <2>3, <2>4, <2>5, <2>6, <2>7, <2>8
  <1>2. IInv /\ [Next]_vars =>
          [\A i \in Buffers : ring[i].frame # << >>
             => ring'[i].frame \in {ring[i].frame, << >>}]_vars
    BY <1>1
  <1> QED BY <1>2, Invariant, PTL DEF Spec, FrameIsKept

-----------------------------------------------------------------------------
(***************************************************************************)
(* The queue: two threads look at its size before they push.               *)
(***************************************************************************)
Pushing(pc) == IF pc \in {"push", "tx_push"} THEN 1 ELSE 0

QueueBounded ==
  Len(received) + Pushing(lpc) + Pushing(cpc) <= DEQNA_MAX_N_QUEUED + 1

LEMMA PushingIs == \A pc : Pushing(pc) \in {0, 1}
  BY DEF Pushing

\* The size is looked at outside of the push, so the queue may get longer than
\* its limit, but by no more than one frame (deqna.cpp:82): one for each thread
\* that has looked.
THEOREM QueueStaysBounded == Spec => [](Len(received) <= DEQNA_MAX_N_QUEUED + 1)
  <1> USE DeqnaBounds
  <1>1. Init => QueueBounded
    <2>1. Init => Len(received) = 0 /\ lpc = "get" /\ cpc = "run"
      BY EmptySeq DEF Init
    <2> QED BY <2>1 DEF QueueBounded, Pushing
  <1>2. ASSUME IInv, QueueBounded, [Next]_vars
        PROVE  QueueBounded'
    <2>1. TypeOK /\ Len(received) \in Nat /\ received \in Seq(Frames) /\ lists \in Nat
          /\ lframe \in Frames /\ <<"loop", lists>> \in Frames
      BY <1>2 DEF IInv, TypeOK, Frames
    <2>2. CASE LowPush \/ TxPush
      <3>1. /\ LowPush => lpc = "push" /\ lpc' = "get" /\ UNCHANGED cpc
            /\ TxPush => cpc = "tx_push" /\ cpc' = "tx_flag" /\ UNCHANGED lpc
        BY DEF LowPush, LowUnchanged, TxPush, CpuUnchanged, lowVars
      <3>2. Len(received') = Len(received) + 1
        BY <2>1, <2>2, AppendProperties DEF LowPush, TxPush
      <3>3. Pushing(lpc') + Pushing(cpc') = Pushing(lpc) + Pushing(cpc) - 1
        BY <2>2, <3>1, PushingIs DEF Pushing
      <3> QED BY <1>2, <2>1, <3>2, <3>3, PushingIs DEF QueueBounded
    <2>3. CASE Pop \/ Purge
      <3>1. Len(received') = Len(received) - 1
        BY <2>1, <2>3, HeadTailProperties DEF Pop, Purge
      <3>2. UNCHANGED <<lpc, cpc>>
        BY <2>3 DEF Pop, HighUnchanged, Purge, CpuUnchanged, lowVars
      <3> QED BY <1>2, <2>1, <3>1, <3>2, PushingIs DEF QueueBounded
    <2>4. CASE LowRoom \/ TxRoom
      <3>1. UNCHANGED received
        BY <2>4 DEF LowRoom, queueVars, TxRoom
      <3>2. CASE HasRoom
        BY <2>1, <3>1, <3>2, PushingIs DEF HasRoom, QueueBounded
      <3>3. CASE ~HasRoom
        <4>1. /\ LowRoom => lpc' = "get" /\ UNCHANGED cpc
              /\ TxRoom => cpc' = "tx_flag" /\ UNCHANGED lpc
          BY <3>3 DEF LowRoom, LowUnchanged, TxRoom, CpuUnchanged, lowVars
        <4>2. Pushing(lpc') + Pushing(cpc') <= Pushing(lpc) + Pushing(cpc)
          BY <2>4, <4>1, PushingIs DEF Pushing
        <4> QED BY <1>2, <2>1, <3>1, <4>2, PushingIs DEF QueueBounded
      <3> QED BY <3>2, <3>3
    <2>5. CASE ~(LowPush \/ TxPush \/ Pop \/ Purge \/ LowRoom \/ TxRoom)
      <3>1. UNCHANGED received
        BY <1>2, <2>5 DEF vars, queueVars, Next, receiver_low, Get, Enabled,
           receiver_high, ListValid, PopTimesOut, WalkFinds, WalkEnds, WalkStrays, Copy, Processed,
           Release, Flag, Interrupt, Raise, Invalid, Cpu, AcceptInterrupt, LoadOld, StoreRaw, StoreNew,
           Scan, Give, GiveHigh, Transmit, transmitter, TxEnds, TxPiece, TxFrame, TxFlag, TxInterrupt,
           Reset, ResetCsr, init_interrupt_queue, SetUp, Arm
      <3>2. CASE receiver_low
        <4>1. lpc' \in {"enabled", "get", "room"} /\ UNCHANGED cpc
          BY <2>5, <3>2 DEF receiver_low, Get, Enabled, LowUnchanged, lowVars
        <4>2. Pushing(lpc') = 0 /\ Pushing(cpc') = Pushing(cpc)
          BY <4>1 DEF Pushing
        <4> QED BY <1>2, <2>1, <3>1, <4>2, PushingIs DEF QueueBounded
      <3>3. CASE receiver_high
        <4>1. UNCHANGED <<lpc, cpc>>
          BY <1>2, <3>3, HighIs DEF IInv
        <4> QED BY <1>2, <3>1, <4>1 DEF QueueBounded, Pushing
      <3>4. CASE Cpu
        <4>1. UNCHANGED lpc /\ (cpc' = cpc \/ cpc' \notin {"push", "tx_push"})
          BY <1>2, <2>5, <3>4, CpuIs DEF IInv, Cpu, AcceptInterrupt, LoadOld, StoreRaw, StoreNew,
             Scan, Give, GiveHigh, Transmit, transmitter, TxEnds, TxPiece, TxFrame, TxFlag,
             TxInterrupt, Reset, ResetCsr, init_interrupt_queue, SetUp, Arm
        <4>2. Pushing(lpc') = Pushing(lpc) /\ Pushing(cpc') <= Pushing(cpc)
          BY <4>1, PushingIs DEF Pushing
        <4> QED BY <1>2, <2>1, <3>1, <4>2, PushingIs DEF QueueBounded
      <3>5. CASE UNCHANGED vars
        BY <1>2, <3>1, <3>5 DEF vars, lowVars, QueueBounded, Pushing
      <3> QED BY <1>2, <3>2, <3>3, <3>4, <3>5 DEF Next
    <2> QED BY <2>2, <2>3, <2>4, <2>5
  <1>3. TypeOK /\ QueueBounded => Len(received) <= DEQNA_MAX_N_QUEUED + 1
    BY PushingIs DEF TypeOK, QueueBounded
  <1> QED BY <1>1, <1>2, <1>3, Invariant, TypeCorrect, PTL DEF Spec
=============================================================================
