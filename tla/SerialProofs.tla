---------------------------- MODULE SerialProofs ----------------------------
(***************************************************************************)
(* What Serial promises, proved for every number of sessions and bytes.    *)
(*                                                                         *)
(* The inductive invariant has five parts, one for each concern: which     *)
(* descriptor is open in which state of the listener; what the buffer has  *)
(* of each session; who has the interrupt of a byte that waits; why        *)
(* get_byte finds the session it looked for; and what a line with a single *)
(* session is in.                                                          *)
(***************************************************************************)
EXTENDS Serial, SequenceTheorems, TLAPS

States == {"absent", "queued", "accepted", "stored", "dropped"}
SessionRecord == [state : States, alive : BOOLEAN, sent : Nat, taken : Nat]
Registers == [rie : BOOLEAN, clr : BOOLEAN]
Entries == (Sessions \cup {None}) \X Nat

\* The types that the other parts need.
Controls ==
  /\ transport \in {"server", "client"} /\ kind \in {"dz11", "dc11"}
  /\ spc \in {"listen", "accept", "store", "greet", "connect"}
  /\ rpc \in {"sleep", "watch", "check", "fetch", "poll", "read", "close", "raise"}
  /\ cpc \in {"run", "send", "write", "drop"}

TypeOK ==
  /\ Controls
  /\ cfd \in {None, 1} /\ temp \in {None, 1} /\ use_fd \in {None, 1} /\ send_fd \in {None, 1}
  /\ files \in [Descriptors -> Sessions \cup {None}]
  /\ session \in [Sessions -> SessionRecord]
  /\ buffer \in Seq(Entries) /\ delivered \in [Sessions -> Nat]
  /\ reg \in Registers
  /\ checked \in Sessions \cup {None}

\* One descriptor is enough: it is closed when the listener takes the next
\* session.  An open one is the member, or the one that accept() returned.
OneDescriptor ==
  /\ files[2] = None
  /\ spc # "store" => temp = None
  /\ spc = "accept" => files[1] = None
  /\ spc = "store" /\ temp = None => files[1] = None
  /\ spc \in {"listen", "greet", "connect"} /\ files[1] # None => cfd = 1
  /\ spc = "connect" => cfd = None
  /\ IF transport = "client" THEN spc \in {"listen", "connect"} ELSE spc # "connect"

\* Sessions come in order; one with a descriptor has been accepted.
SessionsOrdered ==
  /\ \E k \in 0..MaxSessions : \A s \in Sessions : session[s].state = "absent" <=> s > k
  /\ \A s \in Sessions : session[s].state = "absent" => session[s] = Absent
  /\ \A s \in Sessions : session[s].taken <= session[s].sent
  /\ files[1] # None => session[files[1]].state \in {"accepted", "stored", "dropped"}

\* The program has no byte that was not taken.
DeliveredWereTaken == \A s \in Sessions : delivered[s] <= session[s].taken

\* Who will interrupt for the bytes that wait.
InterruptPending ==
  /\ buffer # << >> /\ reg.rie /\ ~late => rx \/ handling \/ have_data
  /\ have_data => rpc # "sleep"

\* input_lock is held by one of the two; who reads or writes has a descriptor.
OneHolder ==
  /\ rpc # "sleep" => cpc = "run"
  /\ rpc = "read" => use_fd = 1
  /\ cpc = "write" => send_fd = 1
  /\ cpc \in {"write", "drop"} => transport = "server"

\* What has_data saw of a session stays true until the byte is read.
StillReady(s) == session[s].state # "absent" /\ (Unread(s) > 0 \/ AtEnd(s))

CheckedIsReady == rpc \in {"fetch", "poll", "read"} /\ checked # None => StillReady(checked)

\* Only get_byte and send close the client's connection.
ClientKeeps ==
  transport = "client" =>
    /\ rpc # "poll"
    /\ rpc \in {"fetch", "read"} => cfd = 1 /\ files[1] = checked

\* While the first session is the only one.
Alone == MaxSessions > 1 => session[2].state = "absent"
Coming == {"absent", "queued", "accepted"}

FirstSession ==
  Alone =>
    /\ session[1].state \in Coming =>
         /\ cfd = None /\ use_fd = None
         /\ rpc \in {"sleep", "watch", "check", "raise"} /\ cpc \in {"run", "send"}
    /\ session[1].state = "accepted" => spc = "store" /\ temp = 1 /\ files[1] = 1
    /\ session[1].state \in {"absent", "queued"} => temp = None
    /\ session[1].state = "stored" /\ session[1].alive =>
         cfd = 1 /\ files[1] = 1 /\ rpc # "close" /\ cpc # "drop" /\ spc \notin {"accept", "store"}

IInv ==
  /\ TypeOK
  /\ OneDescriptor
  /\ SessionsOrdered
  /\ BytesInOrder /\ DeliveredWereTaken
  /\ InterruptPending
  /\ OneHolder
  /\ CheckedIsReady
  /\ ClientKeeps
  /\ FirstSession

-----------------------------------------------------------------------------
(***************************************************************************)
(* Sessions, and the steps that change one.                                *)
(***************************************************************************)

\* Names for the fields that a step leaves, or changes, in a session's record.
SameState(r, q) == q.state = r.state
SameBytes(r, q) == q.sent = r.sent /\ q.taken = r.taken

\* A record of a session that was not Absent can be read: data, or the end.
Waiting(r) == r.sent - r.taken > 0 \/ (~r.alive /\ r.sent - r.taken = 0)

LEMMA NewRecords ==
  /\ Absent \in SessionRecord
  /\ \A st \in States : New(st) \in SessionRecord
BY DEF Absent, New, SessionRecord, States

\* A field of a record of SessionRecord is replaced.
LEMMA RecordTaken ==
  ASSUME NEW r \in SessionRecord, NEW n \in Nat
  PROVE  LET q == [r EXCEPT !.taken = n]
         IN  /\ q \in SessionRecord /\ q.taken = n
             /\ q.state = r.state /\ q.alive = r.alive /\ q.sent = r.sent
BY DEF SessionRecord

LEMMA RecordSent ==
  ASSUME NEW r \in SessionRecord, NEW n \in Nat
  PROVE  LET q == [r EXCEPT !.sent = n]
         IN  /\ q \in SessionRecord /\ q.sent = n
             /\ q.state = r.state /\ q.alive = r.alive /\ q.taken = r.taken
BY DEF SessionRecord

LEMMA RecordState ==
  ASSUME NEW r \in SessionRecord, NEW st \in States
  PROVE  LET q == [r EXCEPT !.state = st]
         IN  /\ q \in SessionRecord /\ q.state = st
             /\ q.alive = r.alive /\ q.sent = r.sent /\ q.taken = r.taken
BY DEF SessionRecord

LEMMA RecordHungUp ==
  ASSUME NEW r \in SessionRecord
  PROVE  LET q == [r EXCEPT !.alive = FALSE]
         IN  /\ q \in SessionRecord /\ ~q.alive
             /\ q.state = r.state /\ q.sent = r.sent /\ q.taken = r.taken
BY DEF SessionRecord

\* What each of the steps below does to the sessions, field by field.
LEMMA SendEffect ==
  ASSUME TypeOK, NEW x \in Sessions, session' = [session EXCEPT ![x].sent = @ + 1]
  PROVE  /\ session' \in [Sessions -> SessionRecord]
         /\ \A s \in Sessions : /\ session'[s].state = session[s].state
                                /\ session'[s].alive = session[s].alive
                                /\ session'[s].taken = session[s].taken
                                /\ session'[s].sent = IF s = x THEN session[s].sent + 1 ELSE session[s].sent
<1> DEFINE q == [session[x] EXCEPT !.sent = session[x].sent + 1]
<1>1. session[x] \in SessionRecord /\ session[x].sent + 1 \in Nat
  BY DEF TypeOK, SessionRecord
<1>2. /\ q \in SessionRecord /\ q.sent = session[x].sent + 1
      /\ q.state = session[x].state /\ q.alive = session[x].alive /\ q.taken = session[x].taken
  BY <1>1, RecordSent
<1>3. session' = [session EXCEPT ![x] = q]
  OBVIOUS
<1> HIDE DEF q
<1> QED BY <1>2, <1>3 DEF TypeOK

LEMMA TakeEffect ==
  ASSUME TypeOK, NEW x \in Sessions, session' = [session EXCEPT ![x].taken = @ + 1]
  PROVE  /\ session' \in [Sessions -> SessionRecord]
         /\ \A s \in Sessions : /\ session'[s].state = session[s].state
                                /\ session'[s].alive = session[s].alive
                                /\ session'[s].sent = session[s].sent
                                /\ session'[s].taken = IF s = x THEN session[s].taken + 1 ELSE session[s].taken
<1> DEFINE q == [session[x] EXCEPT !.taken = session[x].taken + 1]
<1>1. session[x] \in SessionRecord /\ session[x].taken + 1 \in Nat
  BY DEF TypeOK, SessionRecord
<1>2. /\ q \in SessionRecord /\ q.taken = session[x].taken + 1
      /\ q.state = session[x].state /\ q.alive = session[x].alive /\ q.sent = session[x].sent
  BY <1>1, RecordTaken
<1>3. session' = [session EXCEPT ![x] = q]
  OBVIOUS
<1> HIDE DEF q
<1> QED BY <1>2, <1>3 DEF TypeOK

LEMMA HangUpEffect ==
  ASSUME TypeOK, NEW x \in Sessions, session' = [session EXCEPT ![x].alive = FALSE]
  PROVE  /\ session' \in [Sessions -> SessionRecord]
         /\ \A s \in Sessions : /\ session'[s].state = session[s].state
                                /\ session'[s].sent = session[s].sent
                                /\ session'[s].taken = session[s].taken
         /\ ~session'[x].alive
         /\ \A s \in Sessions : s # x => session'[s].alive = session[s].alive
<1> DEFINE q == [session[x] EXCEPT !.alive = FALSE]
<1>1. session[x] \in SessionRecord
  BY DEF TypeOK
<1>2. /\ q \in SessionRecord /\ ~q.alive
      /\ q.state = session[x].state /\ q.sent = session[x].sent /\ q.taken = session[x].taken
  BY <1>1, RecordHungUp
<1>3. session' = [session EXCEPT ![x] = q]
  OBVIOUS
<1> HIDE DEF q
<1> QED BY <1>2, <1>3 DEF TypeOK

LEMMA StateEffect ==
  ASSUME TypeOK, NEW x \in Sessions, NEW st \in States, session' = [session EXCEPT ![x].state = st]
  PROVE  /\ session' \in [Sessions -> SessionRecord]
         /\ \A s \in Sessions : /\ session'[s].alive = session[s].alive
                                /\ session'[s].sent = session[s].sent
                                /\ session'[s].taken = session[s].taken
         /\ session'[x].state = st
         /\ \A s \in Sessions : s # x => session'[s] = session[s]
<1> DEFINE q == [session[x] EXCEPT !.state = st]
<1>1. session[x] \in SessionRecord
  BY DEF TypeOK
<1>2. /\ q \in SessionRecord /\ q.state = st
      /\ q.alive = session[x].alive /\ q.sent = session[x].sent /\ q.taken = session[x].taken
  BY <1>1, RecordState
<1>3. session' = [session EXCEPT ![x] = q]
  OBVIOUS
<1> HIDE DEF q
<1> QED BY <1>2, <1>3 DEF TypeOK

LEMMA StoreEffect ==
  ASSUME TypeOK, Store
  PROVE  /\ session' \in [Sessions -> SessionRecord]
         /\ \A s \in Sessions : /\ session'[s].alive = session[s].alive
                                /\ session'[s].sent = session[s].sent
                                /\ session'[s].taken = session[s].taken
                                /\ session'[s].state = IF session[s].state = "accepted" THEN "stored"
                                                       ELSE session[s].state
<1> DEFINE Stored(r) == [r EXCEPT !.state = "stored"]
<1>1. ASSUME NEW s \in Sessions
      PROVE  LET q == Stored(session[s])
             IN  /\ session[s] \in SessionRecord
                 /\ q \in SessionRecord /\ q.state = "stored"
                 /\ q.alive = session[s].alive /\ q.sent = session[s].sent /\ q.taken = session[s].taken
  <2>1. session[s] \in SessionRecord /\ "stored" \in States
    BY DEF TypeOK, States
  <2> QED BY <2>1, RecordState
<1>2. session' = [s \in Sessions |-> IF session[s].state = "accepted" THEN Stored(session[s])
                                     ELSE session[s]]
  BY DEF Store, In
<1> HIDE DEF Stored
<1> QED BY <1>1, <1>2

\* The next session to come is the one after the last that came.
LEMMA NextSession ==
  ASSUME SessionBounds, SessionsOrdered, In("absent") # {}
  PROVE  LET n == CHOOSE s \in In("absent") : \A o \in In("absent") : s <= o
         IN  /\ n \in Sessions /\ session[n] = Absent
             /\ \A s \in Sessions : session[s].state = "absent" <=> s >= n
<1>1. PICK k \in 0..MaxSessions : \A s \in Sessions : session[s].state = "absent" <=> s > k
  BY DEF SessionsOrdered
<1> DEFINE Lowest(s) == \A o \in In("absent") : s <= o
<1>2. k + 1 \in In("absent") /\ Lowest(k + 1)
  BY <1>1, SessionBounds DEF In, Sessions
<1>3. \A s \in In("absent") : Lowest(s) => s = k + 1
  BY <1>1, <1>2, SessionBounds DEF In, Sessions
<1>4. (CHOOSE s \in In("absent") : Lowest(s)) = k + 1
  <2> HIDE DEF Lowest
  <2> QED BY <1>2, <1>3
<1>5. k + 1 \in Sessions /\ session[k + 1] = Absent
  BY <1>2 DEF SessionsOrdered, In, Absent
<1>6. \A s \in Sessions : session[s].state = "absent" <=> s >= k + 1
  BY <1>1, SessionBounds DEF Sessions
<1> QED BY <1>4, <1>5, <1>6

\* A session comes: the first n are there then.
LEMMA ComeEffect ==
  ASSUME SessionBounds, TypeOK, SessionsOrdered, In("absent") # {}, NEW st \in States \ {"absent"},
         session' = [session EXCEPT ![CHOOSE s \in In("absent") : \A o \in In("absent") : s <= o] = New(st)]
  PROVE  \E n \in Sessions :
           /\ session' \in [Sessions -> SessionRecord]
           /\ session[n] = Absent /\ session'[n] = New(st)
           /\ \A s \in Sessions : s # n => session'[s] = session[s]
           /\ \A s \in Sessions : session[s].state = "absent" <=> s >= n
           /\ n = CHOOSE s \in In("absent") : \A o \in In("absent") : s <= o
<1> DEFINE n == CHOOSE s \in In("absent") : \A o \in In("absent") : s <= o
<1>1. n \in Sessions /\ session[n] = Absent /\ \A s \in Sessions : session[s].state = "absent" <=> s >= n
  BY NextSession
<1>2. session' = [session EXCEPT ![n] = New(st)]
  OBVIOUS
<1>3. New(st) \in SessionRecord
  BY NewRecords
<1>4. n = CHOOSE s \in In("absent") : \A o \in In("absent") : s <= o
  OBVIOUS
<1> HIDE DEF n
<1>5. /\ session' \in [Sessions -> SessionRecord]
      /\ session'[n] = New(st)
      /\ \A s \in Sessions : s # n => session'[s] = session[s]
  BY <1>1, <1>2, <1>3 DEF TypeOK
<1> QED BY <1>1, <1>4, <1>5

-----------------------------------------------------------------------------
(***************************************************************************)
(* The member cfd and the descriptors.                                     *)
(***************************************************************************)
LEMMA FirstIsFree ==
  ASSUME TypeOK, files[1] = None
  PROVE  FreeDescriptor = 1
<1> DEFINE P(d) == files[d] = None /\ \A e \in 1..(d - 1) : files[e] # None
<1>1. 1 \in Descriptors /\ P(1)
  BY DEF Descriptors
<1>2. \A d \in Descriptors : P(d) => d = 1
  BY DEF Descriptors
<1>3. FreeDescriptor = CHOOSE d \in Descriptors : P(d)
  BY DEF FreeDescriptor
<1> HIDE DEF P
<1> QED BY <1>1, <1>2, <1>3

LEMMA OpenFirst ==
  ASSUME TypeOK, NEW s \in Sessions, NEW f, f = [files EXCEPT ![1] = s]
  PROVE  /\ f \in [Descriptors -> Sessions \cup {None}]
         /\ f[1] = s /\ f[2] = files[2]
BY DEF TypeOK, Descriptors

\* Closing takes the descriptor out of use; without one, it does nothing.
LEMMA CloseEffect ==
  ASSUME TypeOK
  PROVE  /\ Closed(cfd) \in [Descriptors -> Sessions \cup {None}]
         /\ Closed(cfd)[1] = IF cfd = 1 THEN None ELSE files[1]
         /\ Closed(cfd)[2] = files[2]
BY DEF TypeOK, Closed, Descriptors, None

\* An open descriptor is the first one.
LEMMA OpenMeans ==
  ASSUME TypeOK, NEW d \in {None, 1}
  PROVE  /\ Open(d) <=> d = 1 /\ files[1] # None
         /\ Open(d) => files[d] \in Sessions /\ files[d] = files[1]
BY DEF TypeOK, Open, Descriptors, Sessions, None

\* What a step does to the member, when it uses it.
MemberKept == UNCHANGED <<files, cfd>>

MemberSteps == MemberKept \/ CloseMember

\* A descriptor that holds a byte, and one whose read fails.
LEMMA HasByteMeans ==
  ASSUME TypeOK, NEW d \in {None, 1}, HasByte(d)
  PROVE  /\ d = 1 /\ files[d] = files[1] /\ files[1] \in Sessions
         /\ Unread(files[1]) > 0
BY OpenMeans DEF HasByte

\* The steps that leave the sessions and their descriptors alone.
Bystanders ==
  \/ TakeLock \/ Watch \/ HasData \/ FetchDescriptor \/ Poll \/ ReadFails \/ LineDone \/ Raise
  \/ AcceptInterrupt \/ ReadStatus \/ ReadRbuf \/ WriteWord \/ Reset \/ StartSend \/ Write

LEMMA BystandersKeep == Bystanders => UNCHANGED <<transport, cfd, files, session, temp, spc>>
BY DEF Bystanders, TakeLock, Watch, HasData, FetchDescriptor, Poll, ReadFails, LineDone, Raise, AcceptInterrupt,
       ReadStatus, ReadRbuf, WriteWord, Reset, StartSend, Write, SendUnchanged, sessionVars

\* The steps that may close the member.
Closers == CloseLost \/ Send \/ Drop

LEMMA ClosersSteps ==
  /\ Closers => MemberSteps /\ UNCHANGED <<transport, session, temp, spc>>
  /\ Greet => MemberSteps /\ UNCHANGED <<transport, session, temp>>
BY DEF Closers, CloseLost, Received, Send, Drop, SendUnchanged, Greet, write, MemberSteps, MemberKept

LEMMA GetByteSteps == GetByte => UNCHANGED <<transport, cfd, files, temp, spc>>
BY DEF GetByte, Received

\* All the steps, as the proofs below take them.
AllSteps ==
  \/ Bystanders
  \/ GetByte
  \/ Closers
  \/ (Listener \/ Peers) /\ UNCHANGED deviceVars

LEMMA StepsAre == [Next]_vars => AllSteps \/ UNCHANGED vars
BY DEF Next, AllSteps, Bystanders, Closers, PollThread, Program

-----------------------------------------------------------------------------
(***************************************************************************)
(* What every step leaves of a session: it stays present and what it had   *)
(* reached; what is ready stays ready until it is read.                    *)
(***************************************************************************)
Reached == {"accepted", "stored", "dropped"}

GoesOn(r, q) ==
  /\ r.state # "absent" => q.state # "absent"
  /\ q.state = "absent" => q = r
  /\ r.state \in Reached => q.state \in Reached
  /\ r.taken <= r.sent => q.taken <= q.sent
  /\ q.alive /\ ~r.alive => r.state = "absent"
  /\ r.state # "absent" /\ Waiting(r) /\ q.taken = r.taken => Waiting(q)

LEMMA StandsStill == ASSUME NEW r PROVE GoesOn(r, r)
BY DEF GoesOn

LEMMA SendGoesOn ==
  ASSUME NEW r \in SessionRecord, NEW q \in SessionRecord, r.state # "absent", r.alive,
         q.state = r.state, q.alive = r.alive, q.taken = r.taken, q.sent = r.sent + 1
  PROVE  GoesOn(r, q)
BY DEF GoesOn, Waiting, SessionRecord

LEMMA HangUpGoesOn ==
  ASSUME NEW r \in SessionRecord, NEW q \in SessionRecord, r.state # "absent", r.taken <= r.sent,
         q.state = r.state, ~q.alive, q.taken = r.taken, q.sent = r.sent
  PROVE  GoesOn(r, q)
BY DEF GoesOn, Waiting, SessionRecord

LEMMA TakeGoesOn ==
  ASSUME NEW r \in SessionRecord, NEW q \in SessionRecord, r.state # "absent", r.sent - r.taken > 0,
         q.state = r.state, q.alive = r.alive, q.taken = r.taken + 1, q.sent = r.sent
  PROVE  GoesOn(r, q)
BY DEF GoesOn, Waiting, SessionRecord

LEMMA ListenerGoesOn ==
  ASSUME NEW r \in SessionRecord, NEW q \in SessionRecord,
         \/ r.state = "queued" /\ q.state = "accepted"
         \/ r.state = "accepted" /\ q.state = "stored"
         \/ r.state \in Reached /\ q.state = "dropped"
         \/ r.state = q.state /\ r.state # "absent",
         q.alive = r.alive, q.taken = r.taken, q.sent = r.sent
  PROVE  GoesOn(r, q)
BY DEF GoesOn, Waiting, SessionRecord, Reached

LEMMA ComeGoesOn ==
  ASSUME NEW st \in States \ {"absent"}
  PROVE  GoesOn(Absent, New(st))
BY DEF GoesOn, Waiting, Absent, New, Reached

\* Only get_byte takes a byte: of the session behind its descriptor.
LEMMA SessionsGoOn ==
  ASSUME SessionBounds, TypeOK, OneDescriptor, SessionsOrdered, AllSteps
  PROVE  /\ session' \in [Sessions -> SessionRecord]
         /\ \A s \in Sessions : GoesOn(session[s], session'[s])
<1> DEFINE Goal == /\ session' \in [Sessions -> SessionRecord]
                   /\ \A s \in Sessions : GoesOn(session[s], session'[s])
<1>1. session' = session => Goal
  BY StandsStill DEF TypeOK
<1>2. \A s \in Sessions : session[s] \in SessionRecord
  BY DEF TypeOK
<1>3. \A s \in Sessions : session[s].alive => session[s].state # "absent"
  BY DEF SessionsOrdered, Absent
<1> HIDE DEF Goal
<1>4. Bystanders => Goal
  BY <1>1, BystandersKeep DEF sessionVars
<1>5. Closers => Goal
  BY <1>1, ClosersSteps
<1>6. GetByte => Goal
  <2> SUFFICES ASSUME GetByte PROVE Goal
    OBVIOUS
  <2> DEFINE x == files[1]
  <2>1. x \in Sessions /\ session' = [session EXCEPT ![x].taken = @ + 1] /\ Unread(x) > 0
    BY HasByteMeans DEF GetByte, TakeByte, TypeOK
  <2>2. session[x].state \in Reached
    BY <2>1 DEF SessionsOrdered, Reached, Sessions, None, SessionBounds
  <2>3. session[x].sent - session[x].taken > 0
    BY <2>1 DEF Unread
  <2> HIDE DEF x
  <2>5. /\ session' \in [Sessions -> SessionRecord]
        /\ \A s \in Sessions : /\ session'[s].state = session[s].state
                               /\ session'[s].alive = session[s].alive
                               /\ session'[s].sent = session[s].sent
                               /\ session'[s].taken = IF s = x THEN session[s].taken + 1
                                                      ELSE session[s].taken
    BY <2>1, TakeEffect
  <2>6. GoesOn(session[x], session'[x])
    <3>1. session[x].state # "absent" /\ session'[x] \in SessionRecord /\ session[x] \in SessionRecord
      BY <1>2, <2>1, <2>2, <2>5 DEF Reached
    <3>2. /\ session'[x].state = session[x].state /\ session'[x].alive = session[x].alive
          /\ session'[x].sent = session[x].sent /\ session'[x].taken = session[x].taken + 1
      BY <2>1, <2>5
    <3> QED BY ONLY <3>1, <3>2, <2>3, TakeGoesOn
  <2>7. \A s \in Sessions : s # x => session'[s] = session[s]
    BY <2>1 DEF TypeOK
  <2>8. \A s \in Sessions : GoesOn(session[s], session'[s])
    BY <2>6, <2>7, StandsStill
  <2> QED BY <2>5, <2>8 DEF Goal
<1>7. Greet \/ ClientStart \/ ClientFails => Goal
  BY <1>1, ClosersSteps DEF ClientStart, ClientFails
<1>15. CloseOld => Goal
  <2> SUFFICES ASSUME CloseOld PROVE Goal
    OBVIOUS
  <2>1. CASE In("queued") = {} /\ Open(cfd)
    <3> DEFINE x == files[1]
    <3>1. x \in Sessions /\ session' = [session EXCEPT ![x].state = "dropped"] /\ files[1] # None
      BY <2>1, OpenMeans DEF CloseOld, TypeOK
    <3>2. session[x].state \in Reached
      BY <3>1 DEF SessionsOrdered, Reached
    <3> HIDE DEF x
    <3>3. "dropped" \in States
      BY DEF States
    <3>4. /\ session' \in [Sessions -> SessionRecord]
          /\ \A s \in Sessions : /\ session'[s].alive = session[s].alive
                                 /\ session'[s].sent = session[s].sent
                                 /\ session'[s].taken = session[s].taken
          /\ session'[x].state = "dropped"
          /\ \A s \in Sessions : s # x => session'[s] = session[s]
      BY <3>1, <3>3, StateEffect
    <3>5. session[x] \in SessionRecord /\ session'[x] \in SessionRecord
      BY <1>2, <3>1, <3>4
    <3>6. GoesOn(session[x], session'[x])
      BY <3>1, <3>2, <3>4, <3>5, ListenerGoesOn
    <3>7. \A s \in Sessions : GoesOn(session[s], session'[s])
      BY <3>4, <3>6, StandsStill
    <3> QED BY <3>4, <3>7 DEF Goal
  <2>2. CASE ~(In("queued") = {} /\ Open(cfd))
    BY <1>1, <2>2 DEF CloseOld
  <2> QED BY <2>1, <2>2
<1>8. Accept => Goal
  <2> SUFFICES ASSUME Accept, session' # session PROVE Goal
    BY <1>1
  <2>1. PICK x \in In("queued") : session' = [session EXCEPT ![x].state = "accepted"]
    BY DEF Accept
  <2>2. x \in Sessions /\ session[x].state = "queued" /\ "accepted" \in States
    BY DEF In, States
  <2>3. /\ session' \in [Sessions -> SessionRecord]
        /\ \A s \in Sessions : /\ session'[s].alive = session[s].alive
                               /\ session'[s].sent = session[s].sent
                               /\ session'[s].taken = session[s].taken
        /\ session'[x].state = "accepted"
    BY <2>1, <2>2, StateEffect
  <2>4. GoesOn(session[x], session'[x])
    <3>1. session[x] \in SessionRecord /\ session'[x] \in SessionRecord
      BY <1>2, <2>2, <2>3
    <3> QED BY <3>1, <2>2, <2>3, ListenerGoesOn
  <2>5. \A s \in Sessions : s # x => session'[s] = session[s]
    BY <2>1, <2>2 DEF TypeOK
  <2>6. \A s \in Sessions : GoesOn(session[s], session'[s])
    BY <2>4, <2>5, StandsStill
  <2> QED BY <2>3, <2>6 DEF Goal
<1>9. Store => Goal
  <2> SUFFICES ASSUME Store PROVE Goal
    OBVIOUS
  <2>1. /\ session' \in [Sessions -> SessionRecord]
        /\ \A s \in Sessions : /\ session'[s].alive = session[s].alive
                               /\ session'[s].sent = session[s].sent
                               /\ session'[s].taken = session[s].taken
                               /\ session'[s].state = IF session[s].state = "accepted" THEN "stored"
                                                      ELSE session[s].state
    BY StoreEffect
  <2>2. ASSUME NEW s \in Sessions PROVE GoesOn(session[s], session'[s])
    <3>1. session[s] \in SessionRecord /\ session'[s] \in SessionRecord
      BY <1>2, <2>1
    <3>2. CASE session[s].state = "absent"
      <4>1. session'[s] = session[s]
        BY <3>2 DEF Store, In
      <4> QED BY <4>1, StandsStill
    <3>3. CASE session[s].state # "absent"
      BY <3>1, <3>3, <2>1, ListenerGoesOn
    <3> QED BY <3>2, <3>3
  <2> QED BY <2>1, <2>2 DEF Goal
<1>10. ASSUME In("absent") # {}, NEW st \in States \ {"absent"},
              session' = [session EXCEPT ![CHOOSE s \in In("absent") : \A o \in In("absent") : s <= o] = New(st)]
       PROVE  Goal
  <2>1. PICK n \in Sessions :
           /\ session' \in [Sessions -> SessionRecord]
           /\ session[n] = Absent /\ session'[n] = New(st)
           /\ \A s \in Sessions : s # n => session'[s] = session[s]
    BY <1>10, ComeEffect
  <2>2. \A s \in Sessions : GoesOn(session[s], session'[s])
    BY <2>1, StandsStill, ComeGoesOn
  <2> QED BY <2>1, <2>2 DEF Goal
<1>11. ClientConnect \/ Dial => Goal
  BY <1>10 DEF ClientConnect, Dial, States
<1>12. SendByte => Goal
  <2> SUFFICES ASSUME SendByte PROVE Goal
    OBVIOUS
  <2>1. PICK x \in Sessions : session[x].alive /\ session' = [session EXCEPT ![x].sent = @ + 1]
    BY DEF SendByte
  <2>2. /\ session' \in [Sessions -> SessionRecord]
        /\ \A s \in Sessions : /\ session'[s].state = session[s].state
                               /\ session'[s].alive = session[s].alive
                               /\ session'[s].taken = session[s].taken
                               /\ session'[s].sent = IF s = x THEN session[s].sent + 1 ELSE session[s].sent
    BY <2>1, SendEffect
  <2>3. GoesOn(session[x], session'[x])
    <3>1. session[x] \in SessionRecord /\ session'[x] \in SessionRecord /\ session[x].state # "absent"
      BY <1>2, <1>3, <2>1, <2>2
    <3>2. /\ session'[x].state = session[x].state /\ session'[x].alive = session[x].alive
          /\ session'[x].taken = session[x].taken /\ session'[x].sent = session[x].sent + 1
      BY <2>1, <2>2
    <3> HIDE <2>2
    <3> QED BY <3>1, <3>2, <2>1, SendGoesOn
  <2>4. \A s \in Sessions : s # x => session'[s] = session[s]
    BY <2>1 DEF TypeOK
  <2>5. \A s \in Sessions : GoesOn(session[s], session'[s])
    BY <2>3, <2>4, StandsStill
  <2> QED BY <2>2, <2>5 DEF Goal
<1>13. HangUp => Goal
  <2> SUFFICES ASSUME HangUp PROVE Goal
    OBVIOUS
  <2>1. PICK x \in Sessions : session[x].alive /\ session' = [session EXCEPT ![x].alive = FALSE]
    BY DEF HangUp
  <2>2. /\ session' \in [Sessions -> SessionRecord]
        /\ \A s \in Sessions : /\ session'[s].state = session[s].state
                               /\ session'[s].sent = session[s].sent
                               /\ session'[s].taken = session[s].taken
        /\ ~session'[x].alive
    BY <2>1, HangUpEffect
  <2>3. GoesOn(session[x], session'[x])
    <3>1. session[x] \in SessionRecord /\ session'[x] \in SessionRecord /\ session[x].state # "absent"
      BY <1>2, <1>3, <2>1, <2>2
    <3>2. session[x].taken <= session[x].sent
      BY <2>1 DEF SessionsOrdered
    <3> QED BY <3>1, <3>2, <2>1, <2>2, HangUpGoesOn
  <2>4. \A s \in Sessions : s # x => session'[s] = session[s]
    BY <2>1 DEF TypeOK
  <2>5. \A s \in Sessions : GoesOn(session[s], session'[s])
    BY <2>3, <2>4, StandsStill
  <2> QED BY <2>2, <2>5 DEF Goal
<1>14. Goal
  BY <1>4, <1>5, <1>6, <1>7, <1>8, <1>9, <1>11, <1>12, <1>13, <1>15 DEF AllSteps, Listener, Peers
<1> QED BY <1>14 DEF Goal

\* Only the listener changes the state of a session that is there, and only a
\* peer brings one.
LEMMA StatesStay ==
  ASSUME SessionBounds, TypeOK, SessionsOrdered, Bystanders \/ GetByte \/ Closers \/ Greet \/ Peers,
         NEW s \in Sessions, session[s].state # "absent" \/ ~Dial
  PROVE  session'[s].state = session[s].state
<1>1. Bystanders \/ Closers \/ Greet => session' = session
  BY BystandersKeep, ClosersSteps
<1>2. ASSUME GetByte PROVE session'[s].state = session[s].state
  <2>1. files[1] \in Sessions /\ session' = [session EXCEPT ![files[1]].taken = @ + 1]
    BY <1>2, HasByteMeans DEF GetByte, TakeByte, TypeOK
  <2> QED BY <2>1, TakeEffect
<1>3. ASSUME Dial PROVE session'[s].state = session[s].state
  <2>1. \E n \in Sessions : session[n] = Absent /\ \A t \in Sessions : t # n => session'[t] = session[t]
    BY <1>3, ComeEffect DEF Dial, States
  <2> QED BY <1>3, <2>1 DEF Absent
<1>4. ASSUME SendByte PROVE session'[s].state = session[s].state
  <2>1. PICK x \in Sessions : session' = [session EXCEPT ![x].sent = @ + 1]
    BY <1>4 DEF SendByte
  <2> QED BY <2>1, SendEffect
<1>5. ASSUME HangUp PROVE session'[s].state = session[s].state
  <2>1. PICK x \in Sessions : session' = [session EXCEPT ![x].alive = FALSE]
    BY <1>5 DEF HangUp
  <2> QED BY <2>1, HangUpEffect
<1> QED BY <1>1, <1>2, <1>3, <1>4, <1>5 DEF Peers

-----------------------------------------------------------------------------
(***************************************************************************)
(* The descriptors.                                                        *)
(***************************************************************************)
DescriptorsTyped ==
  /\ cfd \in {None, 1} /\ temp \in {None, 1} /\ use_fd \in {None, 1} /\ send_fd \in {None, 1}
  /\ files \in [Descriptors -> Sessions \cup {None}]

\* What the poll thread and the CPU have fetched is what the member was.
LEMMA FetchedStep ==
  ASSUME TypeOK, AllSteps
  PROVE  use_fd' \in {None, 1} /\ send_fd' \in {None, 1}
<1>1. Bystanders => use_fd' \in {None, use_fd, cfd} /\ send_fd' \in {None, send_fd, cfd}
  BY DEF Bystanders, TakeLock, Watch, HasData, FetchDescriptor, Poll, ReadFails, LineDone, Raise, AcceptInterrupt,
         ReadStatus, ReadRbuf, WriteWord, Reset, StartSend, Write, SendUnchanged, CpuUnchanged, PollUnchanged
<1>2. GetByte \/ Closers => use_fd' \in {None, use_fd} /\ send_fd' \in {None, send_fd}
  BY DEF Closers, GetByte, CloseLost, Received, Send, Drop, SendUnchanged, CpuUnchanged, PollUnchanged
<1>3. UNCHANGED deviceVars => use_fd' = use_fd /\ send_fd' = send_fd
  BY DEF deviceVars
<1>4. {use_fd, send_fd, cfd} \subseteq {None, 1}
  BY DEF TypeOK
<1> QED BY <1>1, <1>2, <1>3, <1>4 DEF AllSteps

\* A member that is closed, or kept, by the poll thread, the CPU or the
\* listener's greeting.
LEMMA MemberUsed ==
  ASSUME TypeOK, OneDescriptor, MemberSteps, UNCHANGED <<temp, transport>>,
         spc' = spc \/ (spc = "greet" /\ spc' = "listen"),
         use_fd' \in {None, 1}, send_fd' \in {None, 1}
  PROVE  DescriptorsTyped' /\ OneDescriptor'
<1>1. \/ files' = files /\ cfd' = cfd
      \/ files' = Closed(cfd) /\ cfd' = None
  BY DEF MemberSteps, MemberKept, CloseMember
<1>2. DescriptorsTyped'
  BY <1>1, CloseEffect DEF DescriptorsTyped, TypeOK
<1>3. OneDescriptor'
  BY <1>1, CloseEffect DEF OneDescriptor, TypeOK, None
<1> QED BY <1>2, <1>3

LEMMA DescriptorsStep ==
  ASSUME SessionBounds, TypeOK, OneDescriptor, SessionsOrdered, AllSteps
  PROVE  DescriptorsTyped' /\ OneDescriptor'
<1> DEFINE Goal == DescriptorsTyped' /\ OneDescriptor'
<1>1. use_fd' \in {None, 1} /\ send_fd' \in {None, 1}
  BY FetchedStep
<1> SUFFICES Goal
  OBVIOUS
<1>2. Bystanders => Goal
  BY <1>1, BystandersKeep, MemberUsed DEF MemberSteps, MemberKept
<1>3. GetByte => Goal
  BY <1>1, GetByteSteps, MemberUsed DEF MemberSteps, MemberKept
<1>4. Closers => Goal
  BY <1>1, ClosersSteps, MemberUsed
<1>5. ASSUME UNCHANGED deviceVars, Peers PROVE Goal
  <2>1. UNCHANGED <<transport, cfd, files, temp, spc>>
    BY <1>5 DEF Peers, Dial, SendByte, HangUp, PeerUnchanged
  <2> QED BY <1>1, <2>1, MemberUsed DEF MemberSteps, MemberKept
<1>6. ASSUME UNCHANGED deviceVars, Greet PROVE Goal
  <2>1. UNCHANGED <<temp, transport>> /\ spc = "greet" /\ spc' = "listen" /\ MemberSteps
    BY <1>6, ClosersSteps DEF Greet
  <2> QED BY <1>1, <2>1, MemberUsed
<1>7. ASSUME UNCHANGED deviceVars, CloseOld PROVE Goal
  <2>1. /\ files' = Closed(cfd) /\ spc = "listen" /\ spc' = "accept" /\ transport = "server"
        /\ UNCHANGED <<cfd, temp, transport>>
    BY <1>7 DEF CloseOld, ServerUnchanged
  <2>2. DescriptorsTyped'
    BY <1>1, <2>1, CloseEffect DEF DescriptorsTyped, TypeOK
  <2>3. OneDescriptor'
    BY <2>1, CloseEffect DEF OneDescriptor, TypeOK, None
  <2> QED BY <2>2, <2>3
<1>11. ASSUME UNCHANGED deviceVars, ClientStart \/ ClientFails PROVE Goal
  <2>1. /\ UNCHANGED <<cfd, files, temp, transport>> /\ spc' \in {"listen", "connect"} /\ cfd = None
        /\ spc \in {"listen", "connect"} /\ transport = "client"
    BY <1>11 DEF ClientStart, ClientFails, Connecting, ServerUnchanged, OneDescriptor, TypeOK, Controls
  <2>2. DescriptorsTyped'
    BY <1>1, <2>1 DEF DescriptorsTyped, TypeOK
  <2>3. OneDescriptor'
    BY <2>1 DEF OneDescriptor, None
  <2> QED BY <2>2, <2>3
<1>8. ASSUME UNCHANGED deviceVars, Accept PROVE Goal
  <2>1. /\ files[1] = None /\ files[2] = None /\ transport # "client"
        /\ spc' = "store" /\ UNCHANGED <<cfd, transport>>
    BY <1>8 DEF Accept, OneDescriptor, ServerUnchanged
  <2>2. FreeDescriptor = 1
    BY <2>1, FirstIsFree
  <2>3. CASE \E s \in In("queued") : temp' = 1 /\ files' = [files EXCEPT ![1] = s]
    <3>1. PICK s \in In("queued") : temp' = 1 /\ files' = [files EXCEPT ![1] = s]
      BY <2>3
    <3>2. s \in Sessions
      BY DEF In
    <3>3. files' \in [Descriptors -> Sessions \cup {None}] /\ files'[2] = None
      BY <2>1, <3>1, <3>2, OpenFirst
    <3>4. DescriptorsTyped'
      BY <1>1, <2>1, <3>1, <3>3 DEF DescriptorsTyped, TypeOK
    <3>5. OneDescriptor'
      BY <2>1, <3>1, <3>3 DEF OneDescriptor, None
    <3> QED BY <3>4, <3>5
  <2>4. CASE temp' = None /\ UNCHANGED <<files, session>>
    <3>1. DescriptorsTyped'
      BY <1>1, <2>1, <2>4 DEF DescriptorsTyped, TypeOK
    <3>2. OneDescriptor'
      BY <2>1, <2>4 DEF OneDescriptor
    <3> QED BY <3>1, <3>2
  <2> QED BY <1>8, <2>2, <2>3, <2>4 DEF Accept
<1>9. ASSUME UNCHANGED deviceVars, Store PROVE Goal
  <2>1. /\ spc = "store" /\ spc' = "greet" /\ cfd' = temp /\ temp' = None
        /\ UNCHANGED <<files, transport>>
    BY <1>9 DEF Store, ServerUnchanged
  <2>2. DescriptorsTyped'
    BY <1>1, <2>1 DEF DescriptorsTyped, TypeOK
  <2>3. OneDescriptor'
    BY <2>1 DEF OneDescriptor, TypeOK, None
  <2> QED BY <2>2, <2>3
<1>10. ASSUME UNCHANGED deviceVars, ClientConnect PROVE Goal
  <2>1. /\ transport = "client" /\ spc' = "listen" /\ cfd = None /\ files[1] = None /\ files[2] = None
        /\ temp = None /\ UNCHANGED <<temp, transport>>
    BY <1>10 DEF ClientConnect, Connecting, OneDescriptor, None, ServerUnchanged
  <2>2. FreeDescriptor = 1
    BY <2>1, FirstIsFree
  <2>3. PICK s \in Sessions : cfd' = 1 /\ files' = [files EXCEPT ![1] = s]
    <3>1. In("absent") # {}
      BY <1>10 DEF ClientConnect
    <3> QED BY <1>10, <2>2, <3>1, NextSession DEF ClientConnect
  <2>5. files' \in [Descriptors -> Sessions \cup {None}] /\ files'[2] = None
    BY <2>1, <2>3, OpenFirst
  <2>6. DescriptorsTyped'
    BY <1>1, <2>1, <2>3, <2>5 DEF DescriptorsTyped, TypeOK
  <2>7. OneDescriptor'
    BY <2>1, <2>3, <2>5 DEF OneDescriptor, None
  <2> QED BY <2>6, <2>7
<1> QED BY <1>2, <1>3, <1>4, <1>5, <1>6, <1>7, <1>8, <1>9, <1>10, <1>11 DEF AllSteps, Listener

-----------------------------------------------------------------------------
(***************************************************************************)
(* The order of the sessions.                                              *)
(***************************************************************************)
\* A session that the listener accepts, stores or drops had come before.
LEMMA AcceptStates ==
  ASSUME TypeOK, Accept, session' # session
  PROVE  \E x \in Sessions :
           /\ session[x].state = "queued" /\ session'[x].state = "accepted"
           /\ \A s \in Sessions : s # x => session'[s] = session[s]
           /\ session' = [session EXCEPT ![x].state = "accepted"]
<1>1. PICK x \in In("queued") : session' = [session EXCEPT ![x].state = "accepted"]
  BY DEF Accept
<1>2. x \in Sessions /\ session[x].state = "queued" /\ "accepted" \in States
  BY DEF In, States
<1> QED BY <1>1, <1>2, StateEffect

LEMMA CloseOldStates ==
  ASSUME SessionBounds, TypeOK, SessionsOrdered, CloseOld, session' # session
  PROVE  \E x \in Sessions :
           /\ x = files[1] /\ cfd = 1 /\ session[x].state \in Reached /\ session'[x].state = "dropped"
           /\ \A s \in Sessions : s # x => session'[s] = session[s]
<1> DEFINE x == files[1]
<1>1. x \in Sessions /\ session' = [session EXCEPT ![x].state = "dropped"] /\ files[1] # None /\ cfd = 1
  BY OpenMeans DEF CloseOld, TypeOK
<1>2. session[x].state \in Reached /\ "dropped" \in States
  BY <1>1 DEF SessionsOrdered, Reached, States
<1>3. x = files[1]
  OBVIOUS
<1> HIDE DEF x
<1>4. session'[x].state = "dropped" /\ \A s \in Sessions : s # x => session'[s] = session[s]
  BY <1>1, <1>2, StateEffect
<1> QED BY <1>1, <1>2, <1>3, <1>4

LEMMA AbsentStays ==
  ASSUME SessionBounds, TypeOK, SessionsOrdered, AllSteps, ~Dial, ~ClientConnect, NEW s \in Sessions
  PROVE  session'[s].state = "absent" <=> session[s].state = "absent"
<1>1. CASE Bystanders \/ GetByte \/ Closers \/ Greet \/ Peers
  BY <1>1, StatesStay
<1>2. CASE Accept
  BY <1>2, AcceptStates
<1>3. CASE Store
  BY <1>3, StoreEffect
<1>4. CASE CloseOld
  BY <1>4, CloseOldStates DEF Reached
<1>5. CASE ClientStart \/ ClientFails
  BY <1>5 DEF ClientStart, ClientFails
<1> QED BY <1>1, <1>2, <1>3, <1>4, <1>5 DEF AllSteps, Listener

LEMMA OrderStep ==
  ASSUME SessionBounds, TypeOK, OneDescriptor, SessionsOrdered, AllSteps
  PROVE  SessionsOrdered'
<1>1. \A s \in Sessions : GoesOn(session[s], session'[s])
  BY SessionsGoOn
<1>2. \A s \in Sessions : session'[s].state = "absent" => session'[s] = Absent
  BY <1>1 DEF SessionsOrdered, GoesOn
<1>3. \A s \in Sessions : session'[s].taken <= session'[s].sent
  BY <1>1 DEF SessionsOrdered, GoesOn
<1>4. \E k \in 0..MaxSessions : \A s \in Sessions : session'[s].state = "absent" <=> s > k
  <2>1. CASE ~Dial /\ ~ClientConnect
    BY <2>1, AbsentStays DEF SessionsOrdered
  <2>2. CASE Dial \/ ClientConnect
    <3>1. PICK st \in States \ {"absent"} :
            /\ In("absent") # {}
            /\ session' = [session EXCEPT ![CHOOSE s \in In("absent") : \A o \in In("absent") : s <= o] = New(st)]
      BY <2>2 DEF Dial, ClientConnect, States
    <3>2. PICK n \in Sessions :
           /\ session'[n] = New(st)
           /\ \A s \in Sessions : s # n => session'[s] = session[s]
           /\ \A s \in Sessions : session[s].state = "absent" <=> s >= n
      BY <3>1, ComeEffect
    <3>3. n \in 0..MaxSessions /\ \A s \in Sessions : session'[s].state = "absent" <=> s > n
      BY <3>2, SessionBounds DEF Sessions, New
    <3> QED BY <3>3
  <2> QED BY <2>1, <2>2
<1>5. files'[1] # None => session'[files'[1]].state \in {"accepted", "stored", "dropped"}
  <2>1. CASE files'[1] \in {None, files[1]}
    <3>1. files[1] \in Sessions \cup {None}
      BY DEF TypeOK, Descriptors
    <3> QED BY <2>1, <3>1, <1>1 DEF SessionsOrdered, GoesOn, Reached
  <2>2. Bystanders \/ GetByte \/ Closers \/ Greet \/ CloseOld \/ Store \/ ClientStart \/ ClientFails \/ Peers
          => files'[1] \in {None, files[1]}
    <3>1. Bystanders \/ GetByte \/ Store \/ ClientStart \/ ClientFails \/ Peers => files' = files
      BY BystandersKeep, GetByteSteps DEF Store, ClientStart, ClientFails, Peers, Dial, SendByte, HangUp, PeerUnchanged
    <3>2. Closers \/ Greet \/ CloseOld => files' = files \/ files' = Closed(cfd)
      BY ClosersSteps DEF MemberSteps, MemberKept, CloseMember, CloseOld
    <3> QED BY <3>1, <3>2, CloseEffect
  <2>3. CASE Accept
    <3>1. files[1] = None
      BY <2>3 DEF Accept, OneDescriptor
    <3>2. CASE files' = files
      BY <3>1, <3>2
    <3>3. CASE files' # files
      <4>1. PICK s \in Sessions : files' = [files EXCEPT ![1] = s] /\ session' = [session EXCEPT ![s].state = "accepted"]
        BY <2>3, <3>1, <3>3, FirstIsFree DEF Accept, In
      <4>2. files'[1] = s /\ "accepted" \in States
        BY <4>1, OpenFirst DEF States
      <4>3. session'[s].state = "accepted"
        BY <4>1, <4>2, StateEffect
      <4> QED BY <4>2, <4>3
    <3> QED BY <3>2, <3>3
  <2>4. CASE ClientConnect
    <3>1. files[1] = None /\ In("absent") # {} /\ "stored" \in States \ {"absent"}
      BY <2>4 DEF ClientConnect, Connecting, OneDescriptor, None, States
    <3>2. PICK n \in Sessions :
            /\ session'[n] = New("stored")
            /\ n = CHOOSE s \in In("absent") : \A o \in In("absent") : s <= o
      BY <2>4, <3>1, ComeEffect DEF ClientConnect
    <3>3. files' = [files EXCEPT ![1] = n]
      BY <2>4, <3>1, <3>2, FirstIsFree DEF ClientConnect
    <3>4. files'[1] = n
      BY <3>3, OpenFirst
    <3> QED BY <3>2, <3>4 DEF New
  <2> QED BY <2>1, <2>2, <2>3, <2>4 DEF AllSteps, Listener
<1> QED BY <1>2, <1>3, <1>4, <1>5 DEF SessionsOrdered

-----------------------------------------------------------------------------
(***************************************************************************)
(* The registers.                                                          *)
(***************************************************************************)
LEMMA ClearedRegister == Cleared \in Registers /\ ~Cleared.rie
BY DEF Cleared, Registers

\* A store of the control register.
LEMMA ControlEffect ==
  ASSUME NEW a \in BOOLEAN, NEW b \in BOOLEAN, SetControl(a, b)
  PROVE  /\ reg' \in Registers /\ reg'.rie = a
         /\ rx' = (rx \/ b)
         /\ late' = (buffer # << >> /\ (late \/ (a /\ ~reg.rie)))
BY DEF SetControl, Registers

LEMMA StatusEffect ==
  ASSUME TypeOK, ReadStatus
  PROVE  reg' \in Registers /\ (reg'.rie => reg.rie)
BY ClearedRegister DEF ReadStatus, TypeOK

LEMMA ResetEffect ==
  ASSUME TypeOK, Reset
  PROVE  reg' \in Registers /\ (reg'.rie => reg.rie)
BY ClearedRegister DEF Reset, TypeOK

\* A word is stored.
LEMMA WordEffect ==
  ASSUME TypeOK, WriteWord
  PROVE  /\ reg' \in Registers
         /\ reg'.rie /\ buffer # << >> /\ ~late' => reg.rie /\ ~late /\ (rx => rx')
<1>1. PICK a, b \in BOOLEAN : SetControl(a, b) \/ SetLines(a)
  BY DEF WriteWord
<1>2. CASE SetControl(a, b)
  BY <1>2, ControlEffect
<1>3. CASE SetLines(a)
  BY <1>3 DEF SetLines, TypeOK
<1> QED BY <1>1, <1>2, <1>3

LEMMA RegistersStep ==
  ASSUME TypeOK, AllSteps
  PROVE  reg' \in Registers
<1>1. ReadStatus \/ WriteWord \/ Reset => reg' \in Registers
  BY StatusEffect, WordEffect, ResetEffect
<1>2. AllSteps => ReadStatus \/ WriteWord \/ Reset \/ reg' = reg
  BY DEF AllSteps, Bystanders, TakeLock, Watch, HasData, FetchDescriptor, Poll, ReadFails, LineDone, Raise,
         GetByte, Received, AcceptInterrupt, ReadRbuf, StartSend, Write, SendUnchanged, PollUnchanged,
         Closers, CloseLost, Send, Drop, deviceVars
<1> QED BY <1>1, <1>2 DEF TypeOK

-----------------------------------------------------------------------------
(***************************************************************************)
(* The types, and the lock.                                                *)
(***************************************************************************)
LEMMA ControlsStep ==
  ASSUME TypeOK, OneDescriptor, OneHolder, ClientKeeps, AllSteps
  PROVE  Controls' /\ OneHolder'
<1>1. CASE Bystanders \/ GetByte \/ Closers
  <2>1. UNCHANGED <<transport, spc>>
    BY <1>1, BystandersKeep, GetByteSteps, ClosersSteps
  <2>2. ASSUME TakeLock \/ Watch \/ HasData \/ FetchDescriptor \/ Poll \/ ReadFails \/ LineDone \/ Raise
               \/ GetByte \/ CloseLost
        PROVE  /\ kind' = kind /\ cpc' = cpc /\ send_fd' = send_fd
               /\ rpc' \in {"sleep", "watch", "check", "fetch", "poll", "read", "close", "raise"}
               /\ rpc = "sleep" => cpc = "run"
               /\ rpc' = "read" => use_fd' = 1
    BY <2>2 DEF TakeLock, Watch, HasData, FetchDescriptor, Poll, ReadFails, LineDone, Raise, GetByte, CloseLost,
         Received, PollUnchanged, ReadReturns, Ready, ClientKeeps, TypeOK, Controls
  <2>3. ASSUME AcceptInterrupt \/ ReadStatus \/ ReadRbuf \/ WriteWord \/ Reset \/ StartSend \/ Write
               \/ Send \/ Drop
        PROVE  /\ kind' = kind /\ rpc' = rpc /\ use_fd' = use_fd
               /\ cpc' \in {"run", "send", "write", "drop"}
               /\ cpc' # "run" => rpc = "sleep"
               /\ cpc' = "write" => send_fd' = 1
               /\ cpc' \in {"write", "drop"} => transport = "server"
    BY <2>3 DEF AcceptInterrupt, ReadStatus, ReadRbuf, WriteWord, Reset, StartSend, Write, Send, Drop,
         SendUnchanged, CpuUnchanged, Access, TypeOK, Controls, OneHolder, None
  <2>4. rpc = "sleep" \/ cpc = "run"
    BY DEF OneHolder
  <2> QED BY <1>1, <2>1, <2>2, <2>3, <2>4 DEF TypeOK, Controls, OneHolder, Bystanders, Closers
<1>2. CASE (Listener \/ Peers) /\ UNCHANGED deviceVars
  <2>1. transport' = transport /\ spc' \in {"listen", "accept", "store", "greet", "connect"}
    BY <1>2 DEF Listener, Peers, CloseOld, Accept, Store, Greet, ClientStart, ClientConnect, ClientFails,
           Dial, SendByte, HangUp, ServerUnchanged, PeerUnchanged, TypeOK, Controls
  <2> QED BY <1>2, <2>1 DEF deviceVars, TypeOK, Controls, OneHolder
<1> QED BY <1>1, <1>2 DEF AllSteps

LEMMA CheckedStep ==
  ASSUME TypeOK, AllSteps
  PROVE  checked' \in Sessions \cup {None}
<1>1. AllSteps => checked' \in {checked, None} \/ HasData
  BY DEF AllSteps, Bystanders, TakeLock, Watch, FetchDescriptor, Poll, ReadFails, LineDone, Raise, GetByte, CloseLost,
         Received, AcceptInterrupt, ReadStatus, ReadRbuf, WriteWord, Reset, StartSend, Write, Closers, Send, Drop,
         SendUnchanged, CpuUnchanged, deviceVars
<1>2. HasData => checked' \in Sessions \cup {None}
  BY DEF HasData, has_data, Ready, TypeOK, Descriptors, None
<1> QED BY <1>1, <1>2 DEF TypeOK

\* The buffer grows by what get_byte took, or by a NUL, and loses its head to
\* RBUF.
LEMMA TakenEntry ==
  ASSUME TypeOK, GetByte
  PROVE  TakenByte(use_fd) \in Entries
<1>1. files[use_fd] \in Sessions
  BY HasByteMeans DEF GetByte, TypeOK
<1>2. session[files[use_fd]].taken + 1 \in Nat
  BY <1>1 DEF TypeOK, SessionRecord
<1> QED BY <1>1, <1>2 DEF TakenByte, Entries

LEMMA BufferSteps ==
  AllSteps => GetByte \/ CloseLost \/ ReadRbuf \/ UNCHANGED <<buffer, delivered>>
BY DEF AllSteps, Bystanders, TakeLock, Watch, HasData, FetchDescriptor, Poll, ReadFails, LineDone, Raise,
       AcceptInterrupt, ReadStatus, WriteWord, Reset, StartSend, Write, Closers, Send, Drop,
       SendUnchanged, PollUnchanged, deviceVars

LEMMA HeadIsEntry ==
  ASSUME TypeOK, buffer # << >>
  PROVE  /\ Head(buffer) = buffer[1] /\ 1 \in DOMAIN buffer
         /\ buffer[1] \in Entries /\ buffer[1][1] \in Sessions \cup {None} /\ buffer[1][2] \in Nat
<1>1. Head(buffer) = buffer[1] /\ 1 \in DOMAIN buffer
  BY EmptySeq, LenProperties DEF TypeOK
<1>2. buffer[1] \in Entries
  BY <1>1, ElementOfSeq, LenProperties DEF TypeOK
<1> QED BY <1>1, <1>2 DEF Entries

LEMMA BufferStep ==
  ASSUME TypeOK, AllSteps
  PROVE  buffer' \in Seq(Entries) /\ delivered' \in [Sessions -> Nat]
<1>1. CASE GetByte
  <2>1. buffer' = Append(buffer, TakenByte(use_fd)) /\ delivered' = delivered
    BY <1>1 DEF GetByte, Received, PollUnchanged
  <2>2. TakenByte(use_fd) \in Entries
    BY <1>1, TakenEntry
  <2> QED BY <2>1, <2>2, AppendProperties DEF TypeOK
<1>4. CASE CloseLost
  <2>1. buffer' = Append(buffer, <<None, 0>>) /\ delivered' = delivered
    BY <1>4 DEF CloseLost, Received, PollUnchanged
  <2>2. <<None, 0>> \in Entries
    BY DEF Entries
  <2> QED BY <2>1, <2>2, AppendProperties DEF TypeOK
<1>2. CASE ReadRbuf
  <2>1. CASE buffer = << >>
    BY <1>2, <2>1 DEF ReadRbuf, TypeOK
  <2>2. CASE buffer # << >>
    <3>1. /\ buffer' = Tail(buffer)
          /\ delivered' = IF buffer[1][1] = None THEN delivered
                          ELSE [delivered EXCEPT ![buffer[1][1]] = buffer[1][2]]
      BY <1>2, <2>2, HeadIsEntry DEF ReadRbuf, NextByte
    <3>2. buffer' \in Seq(Entries)
      BY <3>1, <2>2, HeadTailProperties DEF TypeOK
    <3>3. delivered' \in [Sessions -> Nat]
      BY <3>1, <2>2, HeadIsEntry DEF TypeOK
    <3> QED BY <3>2, <3>3
  <2> QED BY <2>1, <2>2
<1>3. CASE UNCHANGED <<buffer, delivered>>
  BY <1>3 DEF TypeOK
<1> QED BY <1>1, <1>2, <1>3, <1>4, BufferSteps

LEMMA TypesStep ==
  ASSUME SessionBounds, TypeOK, OneDescriptor, SessionsOrdered, OneHolder, ClientKeeps, AllSteps
  PROVE  TypeOK'
<1>1. Controls' /\ checked' \in Sessions \cup {None}
  BY ControlsStep, CheckedStep
<1>2. DescriptorsTyped'
  BY DescriptorsStep
<1>3. session' \in [Sessions -> SessionRecord]
  BY SessionsGoOn
<1>4. buffer' \in Seq(Entries) /\ delivered' \in [Sessions -> Nat] /\ reg' \in Registers
  BY BufferStep, RegistersStep
<1> QED BY <1>1, <1>2, <1>3, <1>4 DEF TypeOK, DescriptorsTyped

-----------------------------------------------------------------------------
(***************************************************************************)
(* The interrupt of a byte that waits.                                     *)
(***************************************************************************)
\* Only what these steps do matters to it.
LEMMA PendingSteps ==
  AllSteps =>
    \/ TakeLock \/ Watch \/ HasData \/ FetchDescriptor \/ Poll \/ ReadFails \/ GetByte \/ CloseLost
    \/ LineDone \/ Raise
    \/ AcceptInterrupt \/ ReadStatus \/ ReadRbuf \/ WriteWord \/ Reset
    \/ UNCHANGED <<buffer, reg, late, rx, handling, have_data, rpc>>
BY DEF AllSteps, Bystanders, StartSend, Write, Closers, Send, Drop, SendUnchanged, CpuUnchanged, deviceVars

LEMMA PendingStep ==
  ASSUME TypeOK, InterruptPending, AllSteps
  PROVE  InterruptPending'
<1>1. CASE TakeLock \/ Watch
  BY <1>1 DEF TakeLock, Watch, PollUnchanged, InterruptPending
<1>2. CASE HasData \/ FetchDescriptor \/ Poll \/ ReadFails
  BY <1>2 DEF HasData, FetchDescriptor, Poll, ReadFails, PollUnchanged, InterruptPending
<1>3. CASE GetByte \/ CloseLost
  BY <1>3 DEF GetByte, CloseLost, Received, InterruptPending
<1>4. CASE LineDone \/ Raise
  BY <1>4 DEF LineDone, Raise, PollUnchanged, InterruptPending
<1>10. CASE Reset
  <2>1. /\ UNCHANGED <<buffer, have_data, rpc>> /\ (reg'.rie => reg.rie)
        /\ late' = (buffer # << >> /\ (late \/ ~have_data))
    BY <1>10, ResetEffect DEF Reset, CpuUnchanged
  <2> QED BY <2>1 DEF InterruptPending
<1>5. CASE AcceptInterrupt
  BY <1>5 DEF AcceptInterrupt, CpuUnchanged, InterruptPending
<1>6. CASE ReadStatus
  <2>1. UNCHANGED <<buffer, late, handling, have_data, rx, rpc>> /\ (reg'.rie => reg.rie)
    BY <1>6, StatusEffect DEF ReadStatus, CpuUnchanged
  <2> QED BY <2>1 DEF InterruptPending
<1>7. CASE ReadRbuf
  <2>1. UNCHANGED <<reg, have_data, rpc>> /\ late' = (late /\ buffer' # << >>) /\ rpc = "sleep"
    BY <1>7 DEF ReadRbuf, CpuUnchanged, Access, NotLate
  <2>2. CASE buffer = << >>
    BY <1>7, <2>1, <2>2 DEF ReadRbuf, InterruptPending
  <2>3. CASE buffer # << >>
    <3>1. buffer' = Tail(buffer) /\ rx' = (rx \/ RaisesAgain) /\ handling' = (handling /\ kind = "dz11")
      BY <1>7, <2>3 DEF ReadRbuf
    <3>2. buffer' # << >> => Len(buffer) > 1
      <4>1. buffer \in Seq(Entries)
        BY DEF TypeOK
      <4>2. Tail(buffer) \in Seq(Entries) /\ Len(Tail(buffer)) = Len(buffer) - 1
        BY <4>1, <2>3, HeadTailProperties
      <4> QED BY <3>1, <4>1, <4>2, EmptySeq, LenProperties
    <3>3. kind \in {"dz11", "dc11"}
      BY DEF TypeOK, Controls
    <3>4. ~have_data
      BY <2>1 DEF InterruptPending
    <3>5. buffer' # << >> /\ reg.rie /\ ~late => rx' \/ handling'
      BY <2>3, <3>1, <3>2, <3>3, <3>4 DEF InterruptPending, RaisesAgain
    <3> QED BY <2>1, <3>4, <3>5 DEF InterruptPending
  <2> QED BY <2>2, <2>3
<1>8. CASE WriteWord
  <2>1. UNCHANGED <<buffer, handling, have_data, rpc>>
    BY <1>8 DEF WriteWord, CpuUnchanged
  <2>2. reg'.rie /\ buffer # << >> /\ ~late' => reg.rie /\ ~late /\ (rx => rx')
    BY <1>8, WordEffect
  <2> QED BY <2>1, <2>2 DEF InterruptPending
<1>9. CASE UNCHANGED <<buffer, reg, late, rx, handling, have_data, rpc>>
  BY <1>9 DEF InterruptPending
<1> QED BY <1>1, <1>2, <1>3, <1>4, <1>5, <1>6, <1>7, <1>8, <1>9, <1>10, PendingSteps

-----------------------------------------------------------------------------
(***************************************************************************)
(* The session that has_data looked at, and the order of the bytes.        *)
(***************************************************************************)
LEMMA TakenStays ==
  ASSUME SessionBounds, TypeOK, SessionsOrdered, AllSteps, ~GetByte, NEW s \in Sessions
  PROVE  session'[s].taken = session[s].taken
<1>1. CASE Bystanders \/ Closers \/ Greet \/ ClientStart \/ ClientFails
  BY <1>1, BystandersKeep, ClosersSteps DEF ClientStart, ClientFails
<1>7. CASE CloseOld \/ Accept
  <2>1. CASE session' = session
    BY <2>1
  <2>2. CASE session' # session
    <3>1. PICK x \in Sessions, st \in States : session' = [session EXCEPT ![x].state = st]
      <4>1. CASE CloseOld
        <5>1. files[cfd] \in Sessions /\ "dropped" \in States
          BY <2>2, <4>1, OpenMeans DEF CloseOld, TypeOK, States
        <5> QED BY <2>2, <4>1, <5>1 DEF CloseOld
      <4>2. CASE Accept
        BY <2>2, <4>2, AcceptStates DEF States
      <4> QED BY <1>7, <4>1, <4>2
    <3> QED BY <3>1, StateEffect
  <2> QED BY <2>1, <2>2
<1>3. CASE Store
  BY <1>3, StoreEffect
<1>4. CASE Dial \/ ClientConnect
  <2>1. PICK st \in States \ {"absent"} :
          /\ In("absent") # {}
          /\ session' = [session EXCEPT ![CHOOSE x \in In("absent") : \A o \in In("absent") : x <= o] = New(st)]
    BY <1>4 DEF Dial, ClientConnect, States
  <2>2. PICK n \in Sessions :
         /\ session[n] = Absent /\ session'[n] = New(st)
         /\ \A x \in Sessions : x # n => session'[x] = session[x]
    BY <2>1, ComeEffect
  <2> QED BY <2>2 DEF New, Absent
<1>5. CASE SendByte
  <2>1. PICK x \in Sessions : session' = [session EXCEPT ![x].sent = @ + 1]
    BY <1>5 DEF SendByte
  <2> QED BY <2>1, SendEffect
<1>6. CASE HangUp
  <2>1. PICK x \in Sessions : session' = [session EXCEPT ![x].alive = FALSE]
    BY <1>6 DEF HangUp
  <2> QED BY <2>1, HangUpEffect
<1> QED BY <1>1, <1>3, <1>4, <1>5, <1>6, <1>7 DEF AllSteps, Listener, Peers

LEMMA StillReadyIs ==
  ASSUME NEW s
  PROVE  StillReady(s) <=> session[s].state # "absent" /\ Waiting(session[s])
BY DEF StillReady, Unread, AtEnd, Waiting

LEMMA CheckedReadyStep ==
  ASSUME SessionBounds, TypeOK, OneDescriptor, SessionsOrdered, CheckedIsReady, AllSteps
  PROVE  CheckedIsReady'
<1>1. AllSteps =>
        \/ HasData
        \/ rpc' \notin {"fetch", "poll", "read"}
        \/ rpc \in {"fetch", "poll"} /\ checked' = checked /\ ~GetByte
        \/ rpc' = rpc /\ checked' = checked /\ ~GetByte
  BY DEF AllSteps, Bystanders, TakeLock, Watch, HasData, FetchDescriptor, Poll, ReadFails, LineDone, Raise, GetByte,
         Received, AcceptInterrupt, ReadStatus, ReadRbuf, WriteWord, Reset, StartSend, Write, Closers, CloseLost,
         Send, Drop, SendUnchanged, CpuUnchanged, deviceVars
<1>2. CASE HasData
  <2>1. checked' = files[cfd] /\ session' = session /\ Ready(cfd) /\ cfd # None
    BY <1>2 DEF HasData, has_data, Ready, sessionVars
  <2>2. checked' # None => Open(cfd) /\ cfd = 1
    BY <2>1 DEF Open, TypeOK
  <2>3. checked' # None => checked' \in Sessions /\ session[checked'].state \in Reached
    BY <2>1, <2>2 DEF SessionsOrdered, TypeOK, Descriptors, Reached
  <2>4. checked' # None => Unread(checked') > 0 \/ AtEnd(checked')
    BY <2>1, <2>2 DEF Ready
  <2>5. checked' # None => session'[checked'].state # "absent" /\ Waiting(session'[checked'])
    BY <2>1, <2>3, <2>4 DEF Unread, AtEnd, Waiting, Reached
  <2> QED BY <2>5 DEF CheckedIsReady, StillReady, Unread, AtEnd, Waiting
<1>4. ASSUME rpc' \in {"fetch", "poll", "read"}, rpc \in {"fetch", "poll", "read"}, checked' = checked, ~GetByte
      PROVE  CheckedIsReady'
  <2>1. checked # None => checked \in Sessions /\ StillReady(checked)
    BY <1>4 DEF CheckedIsReady, TypeOK
  <2>2. checked # None => session'[checked].state # "absent" /\ Waiting(session'[checked])
    BY <1>4, <2>1, StillReadyIs, SessionsGoOn, TakenStays DEF GoesOn
  <2> QED BY <1>4, <2>2 DEF CheckedIsReady, StillReady, Unread, AtEnd, Waiting
<1>5. CASE rpc' \notin {"fetch", "poll", "read"}
  BY <1>5 DEF CheckedIsReady
<1> QED BY <1>1, <1>2, <1>4, <1>5

\* The queue of a session, when its head is read or a byte is appended.
LEMMA OrderTail ==
  ASSUME NEW b \in Seq(Entries), b # << >>, NEW s \in Sessions, NEW d \in Nat, NEW t \in Nat, InOrder(b, s, d, t)
  PROVE  InOrder(Tail(b), s, IF b[1][1] = s THEN b[1][2] ELSE d, t)
<1> DEFINE e == IF b[1][1] = s THEN b[1][2] ELSE d
           q == Tail(b)
<1>1. /\ DOMAIN b = 1..Len(b) /\ Len(b) \in Nat /\ Len(b) > 0
      /\ DOMAIN q = 1..(Len(b) - 1)
      /\ \A i \in DOMAIN q : q[i] = b[i + 1]
  BY HeadTailProperties, LenProperties, EmptySeq
<1>2. /\ \A i \in DOMAIN b : b[i][1] = s => d < b[i][2] /\ b[i][2] <= t
      /\ \A i, j \in DOMAIN b : i < j /\ b[i][1] = s /\ b[j][1] = s => b[i][2] < b[j][2]
      /\ \A n \in (d + 1)..t : \E i \in DOMAIN b : b[i] = <<s, n>>
  BY DEF InOrder
<1>3. \A i \in DOMAIN b : b[i][2] \in Nat
  BY <1>1, ElementOfSeq DEF Entries
<1> HIDE DEF q
<1>4. 1 \in DOMAIN b /\ \A i \in DOMAIN q : i + 1 \in DOMAIN b /\ i + 1 > 1
  BY <1>1
<1>5. \A i \in DOMAIN q : q[i][1] = s => e < q[i][2] /\ q[i][2] <= t
  BY <1>1, <1>2, <1>4
<1>6. \A i, j \in DOMAIN q : i < j /\ q[i][1] = s /\ q[j][1] = s => q[i][2] < q[j][2]
  BY <1>1, <1>2, <1>4
<1>7. ASSUME NEW n \in (e + 1)..t
      PROVE  \E i \in DOMAIN q : q[i] = <<s, n>>
  <2>1. e \in Nat /\ d <= e
    BY <1>2, <1>3, <1>4
  <2>2. n \in (d + 1)..t
    BY <2>1
  <2>3. PICK i \in DOMAIN b : b[i] = <<s, n>>
    BY <1>2, <2>2
  <2>4. i # 1
    <3>1. CASE b[1][1] = s
      BY <3>1, <2>1, <2>3
    <3>2. CASE b[1][1] # s
      BY <3>2, <2>3
    <3> QED BY <3>1, <3>2
  <2>5. i - 1 \in DOMAIN q /\ q[i - 1] = <<s, n>>
    BY <1>1, <2>3, <2>4
  <2> QED BY <2>5
<1> HIDE DEF e
<1>8. InOrder(q, s, e, t)
  BY <1>5, <1>6, <1>7 DEF InOrder
<1> QED BY <1>8 DEF e, q

LEMMA OrderAppend ==
  ASSUME NEW b \in Seq(Entries), NEW s \in Sessions, NEW d \in Nat, NEW t \in Nat, InOrder(b, s, d, t),
         NEW x \in Entries, d <= t
  PROVE  /\ x[1] # s => InOrder(Append(b, x), s, d, t)
         /\ x = <<s, t + 1>> => InOrder(Append(b, x), s, d, t + 1)
<1> DEFINE q == Append(b, x)
           m == Len(b) + 1
<1>1. /\ DOMAIN b = 1..Len(b) /\ Len(b) \in Nat /\ DOMAIN q = 1..m
      /\ \A i \in DOMAIN b : q[i] = b[i]
      /\ q[m] = x
  BY AppendProperties, LenProperties
<1>2. /\ \A i \in DOMAIN b : b[i][1] = s => d < b[i][2] /\ b[i][2] <= t
      /\ \A i, j \in DOMAIN b : i < j /\ b[i][1] = s /\ b[j][1] = s => b[i][2] < b[j][2]
      /\ \A n \in (d + 1)..t : \E i \in DOMAIN b : b[i] = <<s, n>>
  BY DEF InOrder
<1>3. \A i \in DOMAIN b : b[i][2] \in Nat
  BY <1>1, ElementOfSeq DEF Entries
<1> HIDE DEF q
<1>4. \A i \in DOMAIN q : i \in DOMAIN b \/ i = m
  BY <1>1
<1>5. ASSUME x[1] # s
      PROVE  InOrder(q, s, d, t)
  <2>1. \A i \in DOMAIN q : q[i][1] = s => i \in DOMAIN b
    BY <1>1, <1>4, <1>5
  <2>2. \A i \in DOMAIN q : q[i][1] = s => d < q[i][2] /\ q[i][2] <= t
    BY <1>1, <1>2, <2>1
  <2>3. \A i, j \in DOMAIN q : i < j /\ q[i][1] = s /\ q[j][1] = s => q[i][2] < q[j][2]
    BY <1>1, <1>2, <2>1
  <2>4. \A n \in (d + 1)..t : \E i \in DOMAIN q : q[i] = <<s, n>>
    <3>1. \A i \in DOMAIN b : i \in DOMAIN q
      BY <1>1
    <3> QED BY <1>1, <1>2, <3>1
  <2> QED BY <2>2, <2>3, <2>4 DEF InOrder
<1>6. ASSUME x = <<s, t + 1>>
      PROVE  InOrder(q, s, d, t + 1)
  <2>1. \A i \in DOMAIN q : q[i][1] = s => d < q[i][2] /\ q[i][2] <= t + 1
    <3>1. \A i \in DOMAIN b : q[i][1] = s => d < q[i][2] /\ q[i][2] <= t + 1
      BY <1>1, <1>2, <1>3
    <3>2. d < q[m][2] /\ q[m][2] <= t + 1
      BY <1>1, <1>6
    <3> QED BY <1>4, <3>1, <3>2
  <2>2. \A i, j \in DOMAIN q : i < j /\ q[i][1] = s /\ q[j][1] = s => q[i][2] < q[j][2]
    <3>1. ASSUME NEW i \in DOMAIN q, NEW j \in DOMAIN q, i < j, q[i][1] = s, q[j][1] = s
          PROVE  q[i][2] < q[j][2]
      <4>1. i \in DOMAIN b
        BY <1>1, <3>1
      <4>2. CASE j \in DOMAIN b
        BY <1>1, <1>2, <3>1, <4>1, <4>2
      <4>3. CASE j = m
        <5>1. q[i][2] <= t /\ q[i][2] \in Nat
          BY <1>1, <1>2, <1>3, <3>1, <4>1
        <5>2. q[j][2] = t + 1
          BY <1>1, <1>6, <4>3
        <5> QED BY <5>1, <5>2
      <4> QED BY <1>4, <4>2, <4>3
    <3> QED BY <3>1
  <2>3. ASSUME NEW n \in (d + 1)..(t + 1)
        PROVE  \E i \in DOMAIN q : q[i] = <<s, n>>
    <3>1. CASE n = t + 1
      BY <1>1, <1>6, <3>1
    <3>2. CASE n # t + 1
      <4>1. n \in (d + 1)..t
        BY <3>2
      <4>2. \A i \in DOMAIN b : i \in DOMAIN q
        BY <1>1
      <4> QED BY <1>1, <1>2, <4>1, <4>2
    <3> QED BY <3>1, <3>2
  <2> QED BY <2>1, <2>2, <2>3 DEF InOrder
<1> QED BY <1>5, <1>6 DEF q

LEMMA BytesStep ==
  ASSUME SessionBounds, TypeOK, OneDescriptor, SessionsOrdered, BytesInOrder, DeliveredWereTaken, AllSteps
  PROVE  BytesInOrder' /\ DeliveredWereTaken'
<1>1. \A s \in Sessions : session[s].taken \in Nat /\ delivered[s] \in Nat
  BY DEF TypeOK, SessionRecord
<1>2. buffer \in Seq(Entries)
  BY DEF TypeOK
<1>3. CASE GetByte
  <2>1. buffer' = Append(buffer, TakenByte(use_fd)) /\ delivered' = delivered /\ TakeByte(use_fd)
    BY <1>3 DEF GetByte, Received, PollUnchanged
  <2>2. TakenByte(use_fd) \in Entries
    BY <1>3, TakenEntry
  <2>3. BytesInOrder' /\ DeliveredWereTaken'
    <3>1. PICK x \in Sessions : x = files[use_fd]
      BY <1>3, HasByteMeans DEF GetByte, TypeOK
    <3>2. TakenByte(use_fd) = <<x, session[x].taken + 1>> /\ session' = [session EXCEPT ![x].taken = @ + 1]
      BY <2>1, <3>1 DEF TakeByte, TakenByte
    <3>3. \A s \in Sessions : session'[s].taken = IF s = x THEN session[s].taken + 1 ELSE session[s].taken
      BY <3>1, <3>2, TakeEffect
    <3>4. ASSUME NEW s \in Sessions
          PROVE  InOrder(buffer', s, delivered'[s], session'[s].taken)
      <4>1. InOrder(buffer, s, delivered[s], session[s].taken) /\ delivered[s] <= session[s].taken
        BY DEF BytesInOrder, DeliveredWereTaken
      <4>2. CASE s = x
        <5>1. InOrder(Append(buffer, TakenByte(use_fd)), s, delivered[s], session[s].taken + 1)
          BY <1>1, <1>2, <2>2, <3>2, <4>1, <4>2, OrderAppend
        <5> QED BY <2>1, <3>3, <4>2, <5>1
      <4>3. CASE s # x
        <5>1. TakenByte(use_fd)[1] # s
          BY <3>2, <4>3
        <5>2. InOrder(Append(buffer, TakenByte(use_fd)), s, delivered[s], session[s].taken)
          BY <1>1, <1>2, <2>2, <4>1, <5>1, OrderAppend
        <5> QED BY <2>1, <3>3, <4>3, <5>2
      <4> QED BY <4>2, <4>3
    <3>5. DeliveredWereTaken'
      BY <1>1, <2>1, <3>3 DEF DeliveredWereTaken
    <3> QED BY <3>4, <3>5 DEF BytesInOrder
  <2> QED BY <2>3
<1>4. ASSUME ~GetByte
      PROVE  \A s \in Sessions : session'[s].taken = session[s].taken
  BY <1>4, TakenStays
<1>7. CASE CloseLost
  <2> DEFINE x == <<None, 0>>
  <2>1. /\ buffer' = Append(buffer, x) /\ delivered' = delivered
        /\ \A s \in Sessions : session'[s].taken = session[s].taken
    BY <1>4, <1>7 DEF CloseLost, GetByte, Received, PollUnchanged
  <2>2. x \in Entries /\ \A s \in Sessions : x[1] # s
    BY DEF Entries, Sessions, None
  <2> HIDE DEF x
  <2>3. ASSUME NEW s \in Sessions
        PROVE  InOrder(buffer', s, delivered'[s], session'[s].taken) /\ delivered'[s] <= session'[s].taken
    <3>1. InOrder(buffer, s, delivered[s], session[s].taken) /\ delivered[s] <= session[s].taken
      BY DEF BytesInOrder, DeliveredWereTaken
    <3>2. InOrder(Append(buffer, x), s, delivered[s], session[s].taken)
      BY <1>1, <1>2, <2>2, <3>1, OrderAppend
    <3> QED BY <2>1, <3>1, <3>2
  <2> QED BY <2>3 DEF BytesInOrder, DeliveredWereTaken
<1>5. CASE ReadRbuf
  <2>1. session' = session
    BY <1>5 DEF ReadRbuf, sessionVars
  <2>2. CASE buffer = << >>
    <3>1. UNCHANGED <<buffer, delivered>>
      BY <1>5, <2>2 DEF ReadRbuf
    <3> QED BY <2>1, <3>1 DEF BytesInOrder, DeliveredWereTaken
  <2>3. CASE buffer # << >>
    <3> DEFINE x == buffer[1][1]
    <3>1. /\ buffer' = Tail(buffer)
          /\ delivered' = IF x = None THEN delivered ELSE [delivered EXCEPT ![x] = buffer[1][2]]
      BY <1>5, <2>3, HeadIsEntry DEF ReadRbuf, NextByte
    <3>2. x \in Sessions \cup {None} /\ buffer[1][2] \in Nat /\ 1 \in DOMAIN buffer
      BY <2>3, HeadIsEntry
    <3>3. \A s \in Sessions : s # None
      BY DEF Sessions, None
    <3>4. \A s \in Sessions : delivered'[s] = IF x = s THEN buffer[1][2] ELSE delivered[s]
      <4> HIDE DEF x
      <4> QED BY <3>1, <3>2, <3>3 DEF TypeOK
    <3>5. ASSUME NEW s \in Sessions
          PROVE  InOrder(buffer', s, delivered'[s], session'[s].taken) /\ delivered'[s] <= session'[s].taken
      <4>1. InOrder(buffer, s, delivered[s], session[s].taken) /\ delivered[s] <= session[s].taken
        BY DEF BytesInOrder, DeliveredWereTaken
      <4>2. InOrder(Tail(buffer), s, IF x = s THEN buffer[1][2] ELSE delivered[s], session[s].taken)
        BY <1>1, <1>2, <2>3, <4>1, OrderTail
      <4>3. x = s => buffer[1][2] <= session[s].taken
        BY <3>2, <4>1 DEF InOrder
      <4> QED BY <2>1, <3>1, <3>4, <4>1, <4>2, <4>3
    <3> QED BY <3>5 DEF BytesInOrder, DeliveredWereTaken
  <2> QED BY <2>2, <2>3
<1>6. ASSUME UNCHANGED <<buffer, delivered>>, ~GetByte
      PROVE  BytesInOrder' /\ DeliveredWereTaken'
  BY <1>4, <1>6 DEF BytesInOrder, DeliveredWereTaken
<1> QED BY <1>3, <1>5, <1>6, <1>7, BufferSteps

-----------------------------------------------------------------------------
(***************************************************************************)
(* The first session.                                                      *)
(***************************************************************************)
\* The client's member changes only where the poll thread does not read.
LEMMA ClientStep ==
  ASSUME TypeOK, OneDescriptor, OneHolder, ClientKeeps, AllSteps
  PROVE  ClientKeeps'
<1>1. transport' = transport
  BY BystandersKeep, GetByteSteps, ClosersSteps DEF AllSteps, Listener, Peers, CloseOld, Accept, Store, Greet,
     ClientStart, ClientConnect, ClientFails, Dial, SendByte, HangUp, ServerUnchanged, PeerUnchanged
<1> SUFFICES ASSUME transport = "client" PROVE ClientKeeps'
  BY <1>1 DEF ClientKeeps
<1>2. /\ rpc # "poll"
      /\ rpc \in {"fetch", "read"} => cfd = 1 /\ files[1] = checked
  BY DEF ClientKeeps
<1>3. CASE Bystanders
  <2>1. cfd' = cfd /\ files' = files
    BY <1>3, BystandersKeep
  <2>2. HasData => cfd = 1 /\ rpc' = "fetch" /\ checked' = files[1]
    BY DEF HasData, has_data, Ready, TypeOK
  <2>3. FetchDescriptor => rpc = "fetch" /\ rpc' = "read" /\ checked' = checked
    BY DEF FetchDescriptor
  <2>4. ~Poll
    BY <1>2 DEF Poll
  <2>5. TakeLock \/ Watch \/ ReadFails \/ LineDone \/ Raise => rpc' \in {"sleep", "watch", "check", "close", "raise"}
    BY DEF TakeLock, Watch, ReadFails, LineDone, Raise
  <2>6. AcceptInterrupt \/ ReadStatus \/ ReadRbuf \/ WriteWord \/ Reset \/ StartSend \/ Write =>
          UNCHANGED <<rpc, checked>>
    BY DEF AcceptInterrupt, ReadStatus, ReadRbuf, WriteWord, Reset, StartSend, Write, SendUnchanged, CpuUnchanged
  <2> QED BY <1>2, <1>3, <2>1, <2>2, <2>3, <2>4, <2>5, <2>6 DEF Bystanders, ClientKeeps
<1>4. CASE GetByte \/ CloseLost
  BY <1>4 DEF GetByte, CloseLost, Received, ClientKeeps
<1>5. CASE Send \/ Drop
  BY <1>5 DEF Send, Drop, SendUnchanged, CpuUnchanged, OneHolder, ClientKeeps
<1>6. CASE Listener /\ UNCHANGED deviceVars
  <2>1. spc \in {"listen", "connect"}
    BY DEF OneDescriptor
  <2>2. cfd = None /\ UNCHANGED <<rpc, checked>>
    BY <1>6, <2>1 DEF Listener, CloseOld, Accept, Store, Greet, ClientStart, ClientConnect, ClientFails, Connecting,
       OneDescriptor, deviceVars
  <2> QED BY <1>2, <2>2 DEF ClientKeeps, None
<1>7. CASE Peers /\ UNCHANGED deviceVars
  BY <1>2, <1>7 DEF Peers, Dial, SendByte, HangUp, PeerUnchanged, deviceVars, ClientKeeps
<1> QED BY <1>3, <1>4, <1>5, <1>6, <1>7 DEF AllSteps, Closers

\* What FirstSession says of the first session's record.
Lone(r) ==
  /\ r.state \in Coming =>
       /\ cfd = None /\ use_fd = None
       /\ rpc \in {"sleep", "watch", "check", "raise"} /\ cpc \in {"run", "send"}
  /\ r.state = "accepted" => spc = "store" /\ temp = 1 /\ files[1] = 1
  /\ r.state \in {"absent", "queued"} => temp = None
  /\ r.state = "stored" /\ r.alive =>
       cfd = 1 /\ files[1] = 1 /\ rpc # "close" /\ cpc # "drop" /\ spc \notin {"accept", "store"}

LEMMA OnlyOne ==
  ASSUME SessionBounds, SessionsOrdered, Alone, NEW s \in Sessions, session[s].state # "absent"
  PROVE  s = 1
<1>1. PICK k \in 0..MaxSessions : \A t \in Sessions : session[t].state = "absent" <=> t > k
  BY DEF SessionsOrdered
<1>2. s \in Nat /\ s >= 1 /\ s <= MaxSessions
  BY SessionBounds DEF Sessions
<1>3. CASE s >= 2
  <2>1. 2 \in Sessions /\ MaxSessions > 1
    BY <1>2, <1>3, SessionBounds DEF Sessions
  <2>2. 2 > k
    BY <1>1, <2>1 DEF Alone
  <2> QED BY <1>1, <1>2, <1>3, <2>2
<1> QED BY <1>2, <1>3

\* A member of a session that lives is kept by those who use it.
LEMMA UsersKeep ==
  ASSUME SessionBounds, TypeOK, cfd = 1, files[1] = 1, session[1].alive
  PROVE  /\ Send \/ Greet => UNCHANGED <<cfd, files>>
         /\ Open(1) /\ ~WriteFails(1)
         /\ ReadReturns(1) => HasByte(1)
<1>1. 1 \in Sessions /\ 1 # None
  BY SessionBounds DEF Sessions, None
<1>2. Open(1) /\ files[1] = 1
  BY <1>1 DEF Open
<1>3. ~WriteFails(1)
  BY <1>2 DEF WriteFails
<1>4. ReadReturns(1) => HasByte(1)
  BY <1>1, <1>2 DEF ReadReturns, Ready, AtEnd, HasByte
<1>5. Send \/ Greet => UNCHANGED <<cfd, files>>
  BY <1>1, <1>3 DEF Send, Greet, write
<1> QED BY <1>2, <1>3, <1>4, <1>5

LEMMA FirstStep ==
  ASSUME SessionBounds, TypeOK, OneDescriptor, SessionsOrdered, OneHolder, FirstSession, AllSteps
  PROVE  FirstSession'
<1>1. 1 \in Sessions /\ session[1] \in SessionRecord
  BY SessionBounds DEF Sessions, TypeOK
<1>2. Alone' => Alone
  BY SessionsGoOn, SessionBounds DEF Alone, Sessions, GoesOn
<1> SUFFICES ASSUME Alone', Alone PROVE Lone(session[1])'
  BY <1>2 DEF FirstSession, Lone
<1>3. Lone(session[1])
  BY DEF FirstSession, Lone
<1>4. CASE Bystanders
  <2>1. UNCHANGED <<session, cfd, files, spc, temp>>
    BY <1>4, BystandersKeep
  <2>2. ASSUME session[1].state \in Coming
        PROVE  use_fd' = None /\ rpc' \in {"sleep", "watch", "check", "raise"} /\ cpc' \in {"run", "send"}
    <3>1. /\ cfd = None /\ use_fd = None
          /\ rpc \in {"sleep", "watch", "check", "raise"} /\ cpc \in {"run", "send"}
      BY <1>3, <2>2 DEF Lone
    <3>2. ~HasData
      BY <3>1 DEF HasData, has_data, Ready
    <3>3. StartSend => cpc' = "send"
      <4>1. transport \in {"server", "client"}
        BY DEF TypeOK, Controls
      <4> QED BY <3>1, <4>1 DEF StartSend
    <3> QED BY <1>4, <3>1, <3>2, <3>3 DEF Bystanders, TakeLock, Watch, FetchDescriptor, Poll, ReadFails, LineDone,
               Raise, AcceptInterrupt, ReadStatus, ReadRbuf, WriteWord, Reset, StartSend, Write,
               SendUnchanged, CpuUnchanged, PollUnchanged
  <2>3. ASSUME session[1].state = "stored", session[1].alive
        PROVE  rpc' # "close" /\ cpc' # "drop"
    <3>1. cfd = 1 /\ files[1] = 1 /\ rpc # "close" /\ cpc # "drop"
      BY <1>3, <2>3 DEF Lone
    <3>2. ~WriteFails(1) /\ (ReadReturns(1) => HasByte(1))
      BY <2>3, <3>1, UsersKeep
    <3>3. ReadFails => use_fd = 1
      BY DEF ReadFails, OneHolder
    <3>4. ~ReadFails
      BY <3>2, <3>3 DEF ReadFails
    <3>5. Write => send_fd = 1
      BY DEF Write, OneHolder
    <3>6. Write => cpc' = "run"
      BY <3>2, <3>5 DEF Write
    <3> QED BY <1>4, <3>1, <3>4, <3>6 DEF Bystanders, TakeLock, Watch, HasData, FetchDescriptor, Poll, LineDone,
               Raise, AcceptInterrupt, ReadStatus, ReadRbuf, WriteWord, Reset, StartSend, Write,
               SendUnchanged, CpuUnchanged, PollUnchanged
  <2> QED BY <1>3, <2>1, <2>2, <2>3 DEF Lone
<1>5. CASE GetByte
  <2>1. session[1].state \notin Coming
    BY <1>3, <1>5 DEF GetByte, Lone
  <2>2. session'[1].state = session[1].state
    BY <1>1, <1>5, <2>1, StatesStay DEF Coming
  <2>3. session'[1].alive => session[1].alive
    BY <1>1, <1>5, <2>1, SessionsGoOn DEF GoesOn, Coming
  <2>4. UNCHANGED <<cfd, files, spc, temp, cpc>> /\ rpc' = "check"
    BY <1>5, GetByteSteps DEF GetByte, Received, PollUnchanged
  <2> QED BY <1>3, <2>1, <2>2, <2>3, <2>4 DEF Lone, Coming
<1>6. CASE CloseLost \/ Drop
  <2>1. session[1].state \notin Coming /\ ~(session[1].state = "stored" /\ session[1].alive)
    BY <1>3, <1>6 DEF CloseLost, Drop, Lone
  <2>2. session' = session
    BY <1>6, ClosersSteps DEF Closers
  <2> QED BY <2>1, <2>2 DEF Lone, Coming
<1>12. CASE Send \/ (Greet /\ UNCHANGED deviceVars)
  <2>1. UNCHANGED <<session, temp, use_fd, rpc>> /\ cpc' \in {"run", cpc}
    BY <1>12 DEF Send, Greet, SendUnchanged, CpuUnchanged, deviceVars
  <2>2. /\ cfd' \in {cfd, None}
        /\ cfd = None => files' = files
    BY <1>12, ClosersSteps DEF Closers, MemberSteps, MemberKept, CloseMember, Closed
  <2>3. spc' \in {spc, "listen"} /\ (spc = "store" => spc' = "store")
    BY <1>12, ClosersSteps DEF Closers, Greet
  <2>4. session[1].alive /\ session[1].state = "stored" => UNCHANGED <<cfd, files>>
    BY <1>3, <1>12, UsersKeep DEF Lone
  <2>5. session[1].state = "accepted" => files' = files
    BY <1>3, <2>2 DEF Lone, Coming
  <2> QED BY <1>3, <2>1, <2>2, <2>3, <2>4, <2>5 DEF Lone
<1>7. CASE CloseOld /\ UNCHANGED deviceVars
  <2>1. /\ files' = Closed(cfd) /\ spc = "listen" /\ UNCHANGED <<cfd, temp, use_fd, rpc, cpc>>
    BY <1>7 DEF CloseOld, deviceVars
  <2>2. CASE session' # session
    <3>1. files[1] \in Sessions /\ session[files[1]].state \in Reached /\ session'[files[1]].state = "dropped"
      BY <1>7, <2>2, CloseOldStates
    <3>2. files[1] = 1
      BY <3>1, OnlyOne DEF Reached
    <3> QED BY <3>1, <3>2 DEF Lone, Coming
  <2>3. CASE session' = session
    <3>1. session[1].state # "accepted"
      BY <1>3, <2>1 DEF Lone
    <3>2. session[1].state = "stored" /\ session[1].alive => FALSE
      <4>1. SUFFICES ASSUME session[1].state = "stored", session[1].alive PROVE FALSE
        OBVIOUS
      <4>2. cfd = 1 /\ files[1] = 1
        BY <1>3, <4>1 DEF Lone
      <4>3. Open(cfd) /\ files[cfd] = 1
        BY <4>1, <4>2, UsersKeep
      <4>4. In("queued") = {}
        BY <4>1, OnlyOne DEF In
      <4>5. session' = [session EXCEPT ![1].state = "dropped"] /\ "dropped" \in States
        BY <1>7, <4>3, <4>4 DEF CloseOld, States
      <4>6. session'[1].state = "dropped"
        BY <1>1, <4>5, StateEffect
      <4> QED BY <2>3, <4>1, <4>6
    <3> QED BY <1>3, <2>1, <2>3, <3>1, <3>2 DEF Lone, Coming
  <2> QED BY <2>2, <2>3
<1>8. CASE Accept /\ UNCHANGED deviceVars
  <2>1. files[1] = None /\ spc = "accept" /\ spc' = "store" /\ UNCHANGED <<cfd, use_fd, rpc, cpc>>
    BY <1>8 DEF Accept, OneDescriptor, deviceVars
  <2>2. CASE \E s \in In("queued") :
               temp' = 1 /\ files' = [files EXCEPT ![1] = s] /\ session' = [session EXCEPT ![s].state = "accepted"]
    <3>1. PICK s \in In("queued") :
            temp' = 1 /\ files' = [files EXCEPT ![1] = s] /\ session' = [session EXCEPT ![s].state = "accepted"]
      BY <2>2
    <3>2. s = 1 /\ session[1].state = "queued" /\ "accepted" \in States
      BY OnlyOne DEF In, States
    <3>3. session'[1].state = "accepted"
      BY <1>1, <3>1, <3>2, StateEffect
    <3>4. files'[1] = 1
      BY <1>1, <3>1, <3>2, OpenFirst
    <3> QED BY <1>3, <2>1, <3>1, <3>2, <3>3, <3>4 DEF Lone, Coming
  <2>3. CASE temp' = None /\ UNCHANGED <<files, session>>
    <3>1. session[1].state # "accepted" /\ ~(session[1].state = "stored" /\ session[1].alive)
      BY <1>3, <2>1 DEF Lone
    <3> QED BY <1>3, <2>1, <2>3, <3>1 DEF Lone, Coming
  <2>4. FreeDescriptor = 1
    BY <2>1, FirstIsFree
  <2> QED BY <1>8, <2>2, <2>3, <2>4 DEF Accept
<1>9. CASE Store /\ UNCHANGED deviceVars
  <2>1. spc = "store" /\ spc' = "greet" /\ cfd' = temp /\ temp' = None /\ UNCHANGED <<files, use_fd, rpc, cpc>>
    BY <1>9 DEF Store, deviceVars
  <2>2. /\ session'[1].state = IF session[1].state = "accepted" THEN "stored" ELSE session[1].state
        /\ session'[1].alive = session[1].alive
    BY <1>1, <1>9, StoreEffect
  <2>3. CASE session[1].state = "accepted"
    BY <1>3, <2>1, <2>2, <2>3 DEF Lone, Coming
  <2>4. CASE session[1].state # "accepted"
    <3>1. ~(session[1].state = "stored" /\ session[1].alive)
      BY <1>3, <2>1 DEF Lone
    <3>2. session'[1].state = session[1].state
      BY <2>2, <2>4
    <3> QED BY <1>3, <2>1, <2>2, <2>4, <3>1, <3>2 DEF Lone, Coming
  <2> QED BY <2>3, <2>4
<1>13. CASE (ClientStart \/ ClientFails) /\ UNCHANGED deviceVars
  <2>1. /\ UNCHANGED <<session, cfd, files, temp, use_fd, rpc, cpc>>
        /\ spc \in {"listen", "connect"} /\ spc' \in {"listen", "connect"}
    BY <1>13 DEF ClientStart, ClientFails, Connecting, deviceVars
  <2> QED BY <1>3, <2>1 DEF Lone
<1>10. CASE (ClientConnect \/ Dial) /\ UNCHANGED deviceVars
  <2>1. PICK st \in States \ {"absent"} :
          /\ In("absent") # {}
          /\ session' = [session EXCEPT ![CHOOSE x \in In("absent") : \A o \in In("absent") : x <= o] = New(st)]
          /\ Dial => st = "queued"
          /\ ClientConnect => st = "stored"
    <3>1. ~(Dial /\ ClientConnect)
      BY DEF Dial, ClientConnect, Connecting, OneDescriptor
    <3> QED BY <1>10, <3>1 DEF Dial, ClientConnect, States
  <2>2. PICK n \in Sessions :
          /\ session' \in [Sessions -> SessionRecord]
          /\ session[n] = Absent /\ session'[n] = New(st)
          /\ n = CHOOSE s \in In("absent") : \A o \in In("absent") : s <= o
          /\ \A s \in Sessions : session[s].state = "absent" <=> s >= n
    BY <2>1, ComeEffect
  <2>3. n = 1
    <3>1. session'[n].state # "absent"
      BY <2>2 DEF New
    <3>2. n \in Nat /\ n >= 1 /\ n <= MaxSessions
      BY SessionBounds DEF Sessions
    <3>3. CASE n = 2
      BY <3>1, <3>2, <3>3, SessionBounds DEF Alone
    <3>4. CASE n > 2
      <4>1. 2 \in Sessions /\ MaxSessions > 1
        BY <3>2, <3>4, SessionBounds DEF Sessions
      <4> QED BY <2>2, <3>2, <3>4, <4>1 DEF Alone
    <3> QED BY <3>2, <3>3, <3>4
  <2>4. session[1].state = "absent" /\ session'[1].state = st
    <3>1. session[1] = Absent /\ session'[1] = New(st)
      BY <2>2, <2>3
    <3> QED BY <3>1 DEF New, Absent
  <2>5. UNCHANGED <<use_fd, rpc, cpc, temp>>
    BY <1>10 DEF deviceVars, ClientConnect, Dial, PeerUnchanged
  <2>6. CASE Dial
    <3>1. UNCHANGED <<cfd, files, spc>> /\ st = "queued"
      BY <2>1, <2>6 DEF Dial, PeerUnchanged
    <3> QED BY <1>3, <2>4, <2>5, <3>1 DEF Lone, Coming
  <2>7. CASE ClientConnect
    <3>1. files[1] = None /\ cfd = None /\ spc' = "listen"
      BY <2>7 DEF ClientConnect, Connecting, OneDescriptor, None
    <3>2. cfd' = 1 /\ files' = [files EXCEPT ![1] = 1]
      BY <2>2, <2>3, <2>7, <3>1, FirstIsFree DEF ClientConnect
    <3>3. files'[1] = 1
      BY <1>1, <3>2, OpenFirst
    <3>4. st = "stored"
      BY <2>1, <2>7
    <3> QED BY <1>3, <2>4, <2>5, <3>1, <3>2, <3>3, <3>4 DEF Lone, Coming
  <2> QED BY <1>10, <2>6, <2>7
<1>11. CASE (SendByte \/ HangUp) /\ UNCHANGED deviceVars
  <2>1. UNCHANGED <<cfd, files, spc, temp, use_fd, rpc, cpc>>
    BY <1>11 DEF SendByte, HangUp, PeerUnchanged, deviceVars
  <2>2. SendByte => session'[1].state = session[1].state
    <3>1. SendByte => \E x \in Sessions : session' = [session EXCEPT ![x].sent = @ + 1]
      BY DEF SendByte
    <3> QED BY <1>1, <3>1, SendEffect
  <2>3. HangUp => session'[1].state = session[1].state
    <3>1. HangUp => \E x \in Sessions : session' = [session EXCEPT ![x].alive = FALSE]
      BY DEF HangUp
    <3> QED BY <1>1, <3>1, HangUpEffect
  <2>4. session'[1].alive => session[1].alive \/ session[1].state = "absent"
    BY <1>1, SessionsGoOn DEF GoesOn
  <2> QED BY <1>3, <1>11, <2>1, <2>2, <2>3, <2>4 DEF Lone, Coming
<1> QED BY <1>4, <1>5, <1>6, <1>7, <1>8, <1>9, <1>10, <1>11, <1>12, <1>13 DEF AllSteps, Closers, Listener, Peers

-----------------------------------------------------------------------------
(***************************************************************************)
(* The theorems.                                                           *)
(***************************************************************************)
LEMMA InitInv ==
  ASSUME SessionBounds, Init
  PROVE  IInv
<1> USE DEF Init, SessionInit
<1>1. \A s \in Sessions : session[s] = Absent /\ session[s].state = "absent" /\ session[s].taken = 0
                          /\ session[s].sent = 0 /\ delivered[s] = 0
  BY DEF Absent
<1>2. 1 \in Sessions
  BY SessionBounds DEF Sessions
<1>3. files[1] = None /\ files[2] = None
  BY DEF Descriptors
<1>4. TypeOK
  <2>1. Controls
    BY DEF Controls
  <2>2. files \in [Descriptors -> Sessions \cup {None}] /\ session \in [Sessions -> SessionRecord]
    BY NewRecords
  <2>3. buffer \in Seq(Entries) /\ delivered \in [Sessions -> Nat]
    BY EmptySeq
  <2>4. reg \in Registers
    BY ClearedRegister
  <2> QED BY <2>1, <2>2, <2>3, <2>4 DEF TypeOK
<1>5. OneDescriptor
  BY <1>3 DEF OneDescriptor
<1>6. SessionsOrdered
  <2>1. 0 \in 0..MaxSessions /\ \A s \in Sessions : session[s].state = "absent" <=> s > 0
    BY <1>1, SessionBounds DEF Sessions
  <2> QED BY <1>1, <1>3, <2>1 DEF SessionsOrdered
<1>7. BytesInOrder /\ DeliveredWereTaken
  <2>1. DOMAIN buffer = {}
    BY EmptySeq
  <2> QED BY <1>1, <2>1 DEF BytesInOrder, DeliveredWereTaken, InOrder
<1>8. InterruptPending /\ OneHolder /\ CheckedIsReady /\ ClientKeeps
  BY DEF InterruptPending, OneHolder, CheckedIsReady, ClientKeeps
<1>9. FirstSession
  BY <1>1, <1>2 DEF FirstSession, Coming
<1> QED BY <1>4, <1>5, <1>6, <1>7, <1>8, <1>9 DEF IInv

LEMMA StutterInv ==
  ASSUME IInv, UNCHANGED vars
  PROVE  IInv'
<1> USE DEF vars, sessionVars, deviceVars
<1>1. TypeOK'
  BY DEF IInv, TypeOK, Controls
<1>2. OneDescriptor' /\ SessionsOrdered'
  BY DEF IInv, OneDescriptor, SessionsOrdered, In
<1>3. BytesInOrder' /\ DeliveredWereTaken'
  BY DEF IInv, BytesInOrder, DeliveredWereTaken
<1>4. InterruptPending' /\ OneHolder' /\ ClientKeeps'
  BY DEF IInv, InterruptPending, OneHolder, ClientKeeps
<1>5. CheckedIsReady' /\ FirstSession'
  BY DEF IInv, CheckedIsReady, StillReady, Unread, AtEnd, FirstSession, Alone
<1> QED BY <1>1, <1>2, <1>3, <1>4, <1>5 DEF IInv

LEMMA StepInv ==
  ASSUME SessionBounds, IInv, [Next]_vars
  PROVE  IInv'
<1>1. CASE AllSteps
  <2>1. TypeOK /\ OneDescriptor /\ SessionsOrdered /\ BytesInOrder /\ DeliveredWereTaken
        /\ InterruptPending /\ OneHolder /\ CheckedIsReady /\ ClientKeeps /\ FirstSession
    BY DEF IInv
  <2>2. TypeOK' /\ OneHolder'
    BY <1>1, <2>1, TypesStep, ControlsStep
  <2>3. OneDescriptor' /\ SessionsOrdered'
    BY <1>1, <2>1, DescriptorsStep, OrderStep
  <2>4. BytesInOrder' /\ DeliveredWereTaken'
    BY <1>1, <2>1, BytesStep
  <2>5. InterruptPending' /\ CheckedIsReady'
    BY <1>1, <2>1, PendingStep, CheckedReadyStep
  <2>6. ClientKeeps' /\ FirstSession'
    BY <1>1, <2>1, ClientStep, FirstStep
  <2> QED BY <2>2, <2>3, <2>4, <2>5, <2>6 DEF IInv
<1>2. CASE UNCHANGED vars
  BY <1>2, StutterInv
<1> QED BY <1>1, <1>2, StepsAre

\* The inductive invariant.
THEOREM Invariant == Spec => []IInv
<1>1. Init => IInv
  BY InitInv, SessionBounds
<1>2. IInv /\ [Next]_vars => IInv'
  BY StepInv, SessionBounds
<1> QED BY <1>1, <1>2, PTL DEF Spec

\* The types of the line's and the connection's state, and with them that one
\* descriptor serves all sessions.
THEOREM TypeCorrect == Spec => []TypeOK
<1>1. IInv => TypeOK
  BY DEF IInv
<1> QED BY <1>1, Invariant, PTL

\* Whatever the poll thread, the program, the listener and the peers do, the
\* buffer holds what was taken and not yet delivered, once and in order
\* (dz11.cpp:180, dz11.cpp:258, dc11.cpp:134).
THEOREM KeepsOrder == Spec => []BytesInOrder
<1>1. IInv => BytesInOrder
  BY DEF IInv
<1> QED BY <1>1, Invariant, PTL

\* Bytes that wait have their interrupt, unless the program enabled it after
\* they came, withdrew it, or executed RESET (dz11.cpp:186, dc11.cpp:134,
\* cpu.cpp:1554).
THEOREM BytesHaveInterrupt == Spec => []NoByteWaits
<1>1. IInv => NoByteWaits
  BY DEF IInv, InterruptPending, NoByteWaits
<1> QED BY <1>1, Invariant, PTL

\* get_byte waits for a peer only on the server, and never for a session that
\* is still the one has_data saw (comm_tcp_socket_server.cpp:115,
\* comm_tcp_socket_server.cpp:143).
THEOREM StallsOnlyForLost == Spec => []StallNeedsLostSession
<1>1. IInv => StallNeedsLostSession
  <2> SUFFICES ASSUME IInv, GetByteWaits PROVE transport = "server" /\ (cfd = None \/ files[cfd] # checked)
    BY DEF StallNeedsLostSession
  <2>1. rpc \in {"poll", "read"} /\ (rpc = "read" => use_fd = 1 /\ ~Ready(1))
    BY DEF GetByteWaits, IInv, OneHolder, ReadReturns
  <2>2. cfd \in {None, 1} /\ 1 # None
    BY DEF IInv, TypeOK, None
  <2>3. ~Ready(1) => Open(1) /\ files[1] # None /\ ~(Unread(files[1]) > 0 \/ AtEnd(files[1]))
    BY <2>2 DEF Ready, Open
  <2>4. checked # None => Unread(checked) > 0 \/ AtEnd(checked)
    BY <2>1 DEF IInv, CheckedIsReady, StillReady
  <2>5. ~Ready(1) => files[1] # checked
    BY <2>3, <2>4
  <2>6. cfd # None => ~Ready(1)
    BY <2>1, <2>2 DEF GetByteWaits
  <2>7. transport # "client"
    <3>1. SUFFICES ASSUME transport = "client" PROVE FALSE
      OBVIOUS
    <3>2. rpc = "read" /\ files[1] = checked
      BY <2>1, <3>1 DEF IInv, ClientKeeps
    <3> QED BY <2>1, <2>5, <3>2
  <2>8. transport = "server"
    BY <2>7 DEF IInv, TypeOK, Controls
  <2> QED BY <2>2, <2>5, <2>6, <2>8
<1> QED BY <1>1, Invariant, PTL

\* The only session keeps its connection while its peer is there and no signal
\* interrupts the listener (comm_tcp_socket_server.cpp:146,
\* comm_tcp_socket_server.cpp:246).
THEOREM FirstIsKept == Spec => []FirstSessionKept
<1>1. IInv => FirstSessionKept
  BY DEF IInv, TypeOK, FirstSession, Alone, FirstSessionKept, None
<1> QED BY <1>1, Invariant, PTL

=============================================================================
