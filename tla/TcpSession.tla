----------------------------- MODULE TcpSession -----------------------------
(***************************************************************************)
(* A serial line on a TCP connection: the server back-end                  *)
(* (comm_tcp_socket_server.cpp), whose thread accepts sessions and ends    *)
(* the one before, and the client back-end (comm_tcp_socket_client.cpp),   *)
(* whose thread connects when there is no connection.  The member cfd is   *)
(* shared with the poll thread of the serial controller, which reads, and  *)
(* with the CPU, which writes.  The server holds cfd_lock for single uses  *)
(* of it; the client while it resolves the name and connects, and while it *)
(* writes.                                                                 *)
(*                                                                         *)
(* A descriptor that was closed is given out again.  The peers are         *)
(* external: they connect, send, and hang up.                              *)
(***************************************************************************)
EXTENDS Integers, Sequences, FiniteSets, Functions

CONSTANTS MaxSessions,    \* bound: sessions
          MaxBytes        \* bound: bytes that the peers send

ASSUME SessionBounds == MaxSessions \in Nat \ {0} /\ MaxBytes \in Nat

VARIABLES transport,      \* server or client
          cfd,            \* the session's descriptor, or None
          files,          \* the session behind each descriptor, or None
          session,        \* each session's progress, peer and bytes
          temp,           \* what accept() returned
          spc,            \* the back-end's thread: listen, accept, store, greet; connect
          ended           \* the emulator: SIGPIPE

sessionVars == <<transport, cfd, files, session, temp, spc, ended>>

None == 0
SumOf(f) == FoldFunction(+, 0, f)
Sessions == 1..MaxSessions
Descriptors == 1..2
Absent == [state |-> "absent", alive |-> FALSE, sent |-> 0, taken |-> 0]
New(state) == [state |-> state, alive |-> TRUE, sent |-> 0, taken |-> 0]

SessionInit ==
  /\ transport \in {"server", "client"}
  /\ cfd = None /\ files = [d \in Descriptors |-> None]
  /\ session = [s \in Sessions |-> Absent]
  /\ temp = None /\ spc = "listen" /\ ended = FALSE

In(state) == {s \in Sessions : session[s].state = state}
Open(d) == d # None /\ files[d] # None
Unread(s) == session[s].sent - session[s].taken
AtEnd(s) == ~session[s].alive /\ Unread(s) = 0

\* What poll() calls ready: data, the end, and a descriptor that is closed.
Ready(d) == d # None /\ (Open(d) => Unread(files[d]) > 0 \/ AtEnd(files[d]))

\* The client's thread has cfd_lock while it connects; what the member is
\* meanwhile nobody sees.
Connecting == spc = "connect"

is_connected == cfd # None

\* mutant: any connection has data
has_dataConnected == cfd # None

has_data == Ready(cfd)

Closed(d) == IF d = None THEN files ELSE [files EXCEPT ![d] = None]
CloseMember == files' = Closed(cfd) /\ cfd' = None
FreeDescriptor == CHOOSE d \in Descriptors : files[d] = None /\ \A e \in 1..(d - 1) : files[e] # None

-----------------------------------------------------------------------------
\* read() returns: a byte, the end, or the error of a descriptor not open.
ReadReturns(d) == d = None \/ Ready(d)
HasByte(d) == Open(d) /\ Unread(files[d]) > 0
TakeByte(d) == session' = [session EXCEPT ![files[d]].taken = @ + 1]
TakenByte(d) == <<files[d], session[files[d]].taken + 1>>

\* A write to a peer that is gone may still succeed, fail, or raise SIGPIPE.
WriteFails(d) == ~(Open(d) /\ session[files[d]].alive)
Written(d) == Open(d) /\ ended' \in {FALSE, ~session[files[d]].alive}

\* A write of the member, which is closed when it fails.
write ==
  \/ Written(cfd) /\ UNCHANGED <<files, cfd>>
  \/ WriteFails(cfd) /\ CloseMember /\ UNCHANGED ended

-----------------------------------------------------------------------------
ServerUnchanged == UNCHANGED <<transport, ended>>

\* mutant: the old session is closed before the answer of poll() is looked at
CloseOldFirst ==
  /\ transport = "server" /\ spc = "listen"
  /\ files' = Closed(cfd) /\ spc' = IF In("queued") # {} THEN "accept" ELSE "listen"
  /\ UNCHANGED <<cfd, session, temp>> /\ ServerUnchanged

\* Only a time-out goes back to poll(): when it fails, for a signal, the old
\* session is closed as well, and dropped though nobody wants its place.
CloseOld ==
  /\ transport = "server" /\ spc = "listen" /\ spc' = "accept"
  /\ files' = Closed(cfd)                        \* cfd still names it
  /\ session' = IF In("queued") = {} /\ Open(cfd)
                THEN [session EXCEPT ![files[cfd]].state = "dropped"] ELSE session
  /\ UNCHANGED <<cfd, temp>> /\ ServerUnchanged

\* accept() waits for a session, holding no lock.  A signal ends it as well.
Accept ==
  /\ spc = "accept" /\ spc' = "store"
  /\ \/ \E s \in In("queued") :
          /\ \A o \in In("queued") : s <= o
          /\ temp' = FreeDescriptor
          /\ files' = [files EXCEPT ![temp'] = s]
          /\ session' = [session EXCEPT ![s].state = "accepted"]
     \/ temp' = None /\ UNCHANGED <<files, session>>
  /\ UNCHANGED cfd /\ ServerUnchanged

Store ==
  /\ spc = "store" /\ spc' = "greet"
  /\ cfd' = temp /\ temp' = None
  /\ session' = [s \in Sessions |-> IF s \in In("accepted") THEN [session[s] EXCEPT !.state = "stored"]
                                                          ELSE session[s]]
  /\ UNCHANGED files /\ ServerUnchanged

\* setup_telnet_session
Greet ==
  /\ spc = "greet" /\ spc' = "listen"
  /\ IF cfd = None THEN UNCHANGED <<files, cfd, ended>> ELSE write
  /\ UNCHANGED <<transport, session, temp>>

\* The client's thread takes cfd_lock, and has it over getaddrinfo and connect.
ClientStart ==
  /\ transport = "client" /\ spc = "listen" /\ cfd = None /\ spc' = "connect"
  /\ UNCHANGED <<cfd, files, session, temp>> /\ ServerUnchanged

ClientConnect ==
  /\ Connecting /\ In("absent") # {} /\ spc' = "listen"
  /\ LET s == CHOOSE s \in In("absent") : \A o \in In("absent") : s <= o
     IN  /\ cfd' = FreeDescriptor
         /\ files' = [files EXCEPT ![cfd'] = s]
         /\ session' = [session EXCEPT ![s] = New("stored")]
  /\ UNCHANGED temp /\ ServerUnchanged

ClientFails ==
  /\ Connecting /\ spc' = "listen"
  /\ UNCHANGED <<cfd, files, session, temp>> /\ ServerUnchanged

Listener == CloseOld \/ Accept \/ Store \/ Greet \/ ClientStart \/ ClientConnect \/ ClientFails

-----------------------------------------------------------------------------
PeerUnchanged == UNCHANGED <<transport, cfd, files, temp, spc, ended>>

Dial ==
  /\ transport = "server" /\ In("absent") # {}
  /\ LET s == CHOOSE s \in In("absent") : \A o \in In("absent") : s <= o
     IN  session' = [session EXCEPT ![s] = New("queued")]
  /\ PeerUnchanged

SendByte ==
  /\ SumOf([s \in Sessions |-> session[s].sent]) < MaxBytes
  /\ \E s \in Sessions : session[s].alive /\ session' = [session EXCEPT ![s].sent = @ + 1]
  /\ PeerUnchanged

HangUp ==
  /\ \E s \in Sessions : session[s].alive /\ session' = [session EXCEPT ![s].alive = FALSE]
  /\ PeerUnchanged

Peers == Dial \/ SendByte \/ HangUp

=============================================================================
