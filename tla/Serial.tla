------------------------------- MODULE Serial -------------------------------
(***************************************************************************)
(* A line of a serial controller, DZ11 (dz11.cpp) or DC11 (dc11.cpp), on a *)
(* TCP session.  The poll thread watches the connection and moves what     *)
(* arrives into the receive buffer; the program on the CPU reads and       *)
(* writes registers.  Both hold input_lock, the poll thread over all of    *)
(* its work on the line, the program over an access; RESET takes no lock.  *)
(*                                                                         *)
(* Of the registers the model keeps what the two sides act on.  The        *)
(* transmit interrupt, parity, and the bits that only the program looks at *)
(* (DONE, carrier, RING, DTR, TRDY) are left out, and with them the byte   *)
(* stores, which differ from the word stores in those bits alone.  Which   *)
(* lines are enabled (TCR) the code keeps and never asks when a byte       *)
(* comes: a byte of a line that is not enabled is stored and interrupts.   *)
(***************************************************************************)
EXTENDS TcpSession, SequencesExt

VARIABLES kind,           \* dz11 or dc11
          rpc,            \* the poll thread: sleep, watch, check, fetch, poll, read, close, raise
          use_fd,         \* of get_byte
          have_data,      \* of the poll thread
          connected,      \* as the DC11's poll thread last saw it
          buffer,         \* recv_buffers of the line: <<session, number>> of each byte
          reg,            \* the registers
          rx,             \* the receive interrupt is in the CPU's queue
          cpc,            \* the CPU: run; send, write, drop (holding input_lock)
          send_fd,        \* use_fd of send_data
          handling,       \* the program serves the receive interrupt
          delivered,      \* of each session: the last byte the program got
          late,           \* the program enabled too late, or withdrew
          checked         \* the session that has_data looked at

deviceVars == <<kind, rpc, use_fd, have_data, connected, buffer, reg, rx,
                cpc, send_fd, handling, delivered, late, checked>>
vars == <<sessionVars, deviceVars>>

\* rie: the receive interrupt is enabled (DZ11: with the scan bit); clr: CLR
\* of the DZ11's CSR.
Cleared == [rie |-> FALSE, clr |-> FALSE]

Init ==
  /\ SessionInit
  /\ kind \in {"dz11", "dc11"}
  /\ rpc = "sleep" /\ use_fd = None /\ have_data = FALSE /\ connected = FALSE
  /\ buffer = << >> /\ reg = Cleared /\ rx = FALSE
  /\ cpc = "run" /\ send_fd = None /\ handling = FALSE
  /\ delivered = [s \in Sessions |-> 0] /\ late = FALSE /\ checked = None

-----------------------------------------------------------------------------
(***************************************************************************)
(* The poll thread.                                                        *)
(***************************************************************************)
PollUnchanged == UNCHANGED <<kind, reg, cpc, send_fd, handling, delivered, late>>

\* input_lock is taken, and then is_connected waits for the client's connect.
TakeLock ==
  /\ rpc = "sleep" /\ cpc = "run" /\ Connecting /\ rpc' = "watch"
  /\ UNCHANGED <<use_fd, have_data, connected, buffer, rx, checked, sessionVars>> /\ PollUnchanged

\* What has become of the connection.  The DC11 interrupts when it came or
\* went, the DZ11 only shows it to the program.
Watch ==
  /\ rpc = "watch" \/ (rpc = "sleep" /\ cpc = "run")
  /\ ~Connecting /\ rpc' = "check"
  /\ connected' = (kind = "dc11" /\ is_connected)
  /\ rx' = (rx \/ (connected' # connected /\ reg.rie))
  /\ UNCHANGED <<use_fd, have_data, buffer, checked, sessionVars>> /\ PollUnchanged

HasData ==
  /\ rpc = "check" /\ ~Connecting /\ has_data
  /\ rpc' = "fetch" /\ checked' = files[cfd]
  /\ UNCHANGED <<use_fd, have_data, connected, buffer, rx, sessionVars>> /\ PollUnchanged

\* get_byte: takes the descriptor under cfd_lock.  The server polls it for
\* 100 ms, the client reads at once.
FetchDescriptor ==
  /\ rpc = "fetch" /\ ~Connecting /\ use_fd' = cfd
  /\ rpc' = IF transport = "server" THEN "poll" ELSE "read"
  /\ UNCHANGED <<have_data, connected, buffer, rx, checked, sessionVars>> /\ PollUnchanged

Poll ==
  /\ rpc = "poll"
  /\ IF Ready(use_fd) THEN rpc' = "read" /\ UNCHANGED use_fd ELSE rpc' = "fetch" /\ use_fd' = None
  /\ UNCHANGED <<have_data, connected, buffer, rx, checked, sessionVars>> /\ PollUnchanged

Received(byte) ==
  /\ buffer' = Append(buffer, byte)
  /\ have_data' = TRUE /\ rpc' = "check" /\ use_fd' = None /\ checked' = None
  /\ UNCHANGED <<connected, rx, transport, temp, spc, ended>> /\ PollUnchanged

\* The descriptor is by now whatever it names: the session that was polled,
\* another one, or none.
GetByte ==
  /\ rpc = "read" /\ HasByte(use_fd)
  /\ TakeByte(use_fd) /\ Received(TakenByte(use_fd))
  /\ UNCHANGED <<files, cfd>>

ReadFails ==
  /\ rpc = "read" /\ ReadReturns(use_fd) /\ ~HasByte(use_fd)
  /\ rpc' = "close" /\ use_fd' = None
  /\ UNCHANGED <<have_data, connected, buffer, rx, checked, sessionVars>> /\ PollUnchanged

\* A read that failed closes the member, which may be another session than
\* the one that was read, and the line receives a NUL.
CloseLost ==
  /\ rpc = "close" /\ ~Connecting
  /\ CloseMember /\ UNCHANGED session
  /\ Received(<<None, 0>>)

\* mutant: an interrupt only for the first byte in the buffer
LineDoneFirstOnly ==
  /\ rpc = "check" /\ ~Connecting /\ ~has_data
  /\ IF have_data /\ reg.rie /\ Len(buffer) = 1 THEN rpc' = "raise" /\ UNCHANGED have_data
                                              ELSE rpc' = "sleep" /\ have_data' = FALSE
  /\ UNCHANGED <<use_fd, connected, buffer, rx, checked, sessionVars>> /\ PollUnchanged

\* The enable is looked at, and then the interrupt is queued: a RESET may
\* come in between.
LineDone ==
  /\ rpc = "check" /\ ~Connecting /\ ~has_data
  /\ IF have_data /\ reg.rie THEN rpc' = "raise" /\ UNCHANGED have_data
                            ELSE rpc' = "sleep" /\ have_data' = FALSE
  /\ UNCHANGED <<use_fd, connected, buffer, rx, checked, sessionVars>> /\ PollUnchanged

Raise ==
  /\ rpc = "raise" /\ rpc' = "sleep"
  /\ rx' = TRUE /\ have_data' = FALSE
  /\ UNCHANGED <<use_fd, connected, buffer, checked, sessionVars>> /\ PollUnchanged

PollThread == TakeLock \/ Watch \/ HasData \/ FetchDescriptor \/ Poll \/ GetByte \/ ReadFails
              \/ CloseLost \/ LineDone \/ Raise

-----------------------------------------------------------------------------
(***************************************************************************)
(* The program.  A register access waits for input_lock.                   *)
(***************************************************************************)
Access == cpc = "run" /\ rpc = "sleep"
CpuUnchanged == UNCHANGED <<kind, rpc, use_fd, have_data, connected, checked>>
NotLate == late' = (late /\ buffer' # << >>)

AcceptInterrupt ==
  /\ cpc = "run" /\ rx
  /\ rx' = FALSE /\ handling' = TRUE
  /\ UNCHANGED <<buffer, reg, cpc, send_fd, delivered, late, sessionVars>> /\ CpuUnchanged

\* A CSR with CLR in it resets the DZ11 when it is read.
ReadStatus ==
  /\ Access
  /\ reg' = IF reg.clr THEN Cleared ELSE reg
  /\ UNCHANGED <<buffer, rx, cpc, send_fd, handling, delivered, late, sessionVars>> /\ CpuUnchanged

\* mutant: the last byte instead of the first
NextByteLast == Last(buffer)

NextByte == Head(buffer)

\* The DC11 interrupts again for a byte that stays.
RaisesAgain == kind = "dc11" /\ Len(buffer) > 1 /\ reg.rie

\* RBUF.  A handler of the DZ11 reads until it is empty, one of the DC11 once.
ReadRbuf ==
  /\ Access
  /\ IF buffer = << >>
     THEN UNCHANGED <<buffer, delivered, rx>> /\ handling' = FALSE
     ELSE /\ buffer' = Tail(buffer)
          /\ delivered' = IF NextByte[1] = None THEN delivered
                          ELSE [delivered EXCEPT ![NextByte[1]] = NextByte[2]]
          /\ rx' = (rx \/ RaisesAgain)
          /\ handling' = (handling /\ kind = "dz11")
  /\ NotLate
  /\ UNCHANGED <<reg, cpc, send_fd, sessionVars>> /\ CpuUnchanged

\* A store of the control register.  CLR of the DZ11 resets it and interrupts.
SetControl(rie, clr) ==
  /\ reg' = [rie |-> rie, clr |-> clr]
  /\ rx' = (rx \/ clr)
  /\ late' = (buffer # << >> /\ (late \/ (rie /\ ~reg.rie)))

\* A store of the DZ11's TCR: without an enabled line what is queued is
\* withdrawn.
SetLines(enable) ==
  /\ rx' = (rx /\ enable)
  /\ late' = (late \/ (rx /\ ~enable /\ buffer # << >>))
  /\ UNCHANGED reg

WriteWord ==
  /\ Access
  /\ \E a, b \in BOOLEAN :
       \/ (b => kind = "dz11") /\ SetControl(a, b)
       \/ kind = "dz11" /\ SetLines(a)
  /\ UNCHANGED <<buffer, cpc, send_fd, handling, delivered, sessionVars>> /\ CpuUnchanged

\* The RESET instruction: dc11::reset does nothing, dz11::reset clears the
\* registers, and then the CPU forgets every request, the one for the bytes
\* in the buffer as well.
Reset ==
  /\ cpc = "run"
  /\ reg' = IF kind = "dz11" THEN Cleared ELSE reg
  /\ rx' = FALSE
  /\ late' = (buffer # << >> /\ (late \/ ~have_data))
  /\ UNCHANGED <<buffer, cpc, send_fd, handling, delivered, sessionVars>> /\ CpuUnchanged

SendUnchanged ==
  /\ UNCHANGED <<buffer, reg, rx, handling, delivered, late, transport, session, temp, spc>>
  /\ CpuUnchanged

\* A byte to send; input_lock is held until it is written, which a peer that
\* does not read can hold up for any time.  The server takes the descriptor
\* under cfd_lock, writes, and closes the member if that fails ...
StartSend ==
  /\ Access /\ cpc' = (IF transport = "client" THEN "send" ELSE "write")
  /\ transport = "server" => cfd # None
  /\ send_fd' = (IF transport = "client" THEN None ELSE cfd)
  /\ UNCHANGED <<files, cfd, ended>> /\ SendUnchanged

\* ... the client does all of it under cfd_lock.
Send ==
  /\ cpc = "send" /\ ~Connecting /\ cpc' = "run"
  /\ write /\ UNCHANGED send_fd /\ SendUnchanged

Write ==
  /\ cpc = "write"
  /\ \/ Written(send_fd) /\ cpc' = "run"
     \/ WriteFails(send_fd) /\ cpc' = "drop" /\ UNCHANGED ended
  /\ send_fd' = None /\ UNCHANGED <<files, cfd>> /\ SendUnchanged

Drop ==
  /\ cpc = "drop" /\ cpc' = "run"
  /\ CloseMember /\ UNCHANGED <<ended, send_fd>> /\ SendUnchanged

Program == AcceptInterrupt \/ ReadStatus \/ ReadRbuf \/ WriteWord \/ Reset
           \/ StartSend \/ Send \/ Write \/ Drop

Next ==
  /\ ~ended
  /\ \/ PollThread \/ Program
     \/ (Listener \/ Peers) /\ UNCHANGED deviceVars

Spec == Init /\ [][Next]_vars

-----------------------------------------------------------------------------
\* Of session s, the queue b holds the bytes after the first d up to t, each
\* of them and in order.
InOrder(b, s, d, t) ==
  /\ \A i \in DOMAIN b : b[i][1] = s => d < b[i][2] /\ b[i][2] <= t
  /\ \A i, j \in DOMAIN b : i < j /\ b[i][1] = s /\ b[j][1] = s => b[i][2] < b[j][2]
  /\ \A n \in (d + 1)..t : \E i \in DOMAIN b : b[i] = <<s, n>>

\* What was taken from a session and not yet delivered is in the receive
\* buffer, once and in order: no byte is lost, doubled or overtaken between
\* get_byte and the program (dz11.cpp:180, dz11.cpp:258, dc11.cpp:134).
BytesInOrder ==
  \A s \in Sessions : InOrder(buffer, s, delivered[s], session[s].taken)

\* While bytes are in the buffer and the interrupt is enabled, the interrupt
\* is queued, or the program serves it, or the poll thread is at the line,
\* whichever lines are enabled.  Not so after the program enabled it when they
\* were there, withdrew it (TCR), or executed RESET (cpu.cpp:1554, which
\* clears the queue, while dc11.cpp:152 does nothing): then they wait for the
\* next byte or for the program to look.
NoByteWaits ==
  buffer # << >> /\ reg.rie /\ ~late => rx \/ handling \/ rpc # "sleep"

\* The poll thread is held up in get_byte, with input_lock, by a peer that is
\* silent.
GetByteWaits ==
  \/ rpc = "poll" /\ ~Ready(use_fd) /\ ~Ready(cfd)
  \/ rpc = "read" /\ ~ReadReturns(use_fd)

\* get_byte waits for a peer only on the server, and only if the session that
\* has_data looked at has been replaced or closed since
\* (comm_tcp_socket_server.cpp:115, comm_tcp_socket_server.cpp:143, with the
\* lock of dz11.cpp:148 held).  What else holds up input_lock is the client's
\* connect, and a send.
StallNeedsLostSession ==
  GetByteWaits => transport = "server" /\ (cfd = None \/ files[cfd] # checked)

\* The first session stays until its peer hangs up, another one comes, or a
\* signal interrupts the listener (comm_tcp_socket_server.cpp:246).  A later
\* one need not: who fails on the session before closes cfd, whichever
\* session that is by then (comm_tcp_socket_server.cpp:146).
FirstSessionKept ==
  session[1].state = "stored" /\ session[1].alive
  /\ (MaxSessions > 1 => session[2].state = "absent") =>
    cfd # None /\ files[cfd] = 1

=============================================================================
