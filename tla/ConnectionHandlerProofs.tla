---------------------- MODULE ConnectionHandlerProofs ----------------------
(***************************************************************************)
(* The connections of a server, for any number of peers and any capacity   *)
(* of the table: whoever uses the number of a descriptor, no message is    *)
(* played for another player, and what the main thread frees is no         *)
(* thread's any more.                                                      *)
(***************************************************************************)
EXTENDS ConnectionHandler, FiniteSetTheorems, TLAPS

-----------------------------------------------------------------------------
(* Types.                                                                  *)

USE DEF history

HasDescriptor == {"starting", "playing", "full", "closing"}
SenderStages == HasDescriptor \cup {"none", "ended"}
ReceiverStages == {"none", "checking", "calling", "blocked", "ended"}

Connections ==
  [fd : Descriptors \cup {0}, sender : SenderStages, receiver : ReceiverStages,
   source : Peers \cup {Nobody}, registered : BOOLEAN, shutdown : BOOLEAN]

Types ==
  /\ presence \in [Peers -> {"away", "open", "gone"}]
  /\ backlog \in Seq(Peers)
  /\ files \in [Descriptors -> Peers \cup {Nobody}]
  /\ connection \in Peers \cup {Nobody}
  /\ table \in Seq(Peers)
  /\ capacity \in Nat /\ joined \in Nat
  /\ conn \in [Peers -> Connections]

LEMMA PeersAreNumbers == Peers \subseteq Nat \ {0} /\ Descriptors = Peers /\ Nobody \notin Peers
BY HandlerAssumption DEF Peers, Descriptors, Nobody

-----------------------------------------------------------------------------
(* A connection, as its own threads keep it.                               *)

\* Who has registered and is not told to end is still playing, so that the
\* descriptor has not been closed since the read of the other thread began.
Sound(p, c) ==
  /\ c.sender = "none" => c.receiver = "none"
  /\ c.sender # "none" => c.fd \in Descriptors
  /\ c.registered => c.sender \in {"playing", "closing", "ended"}
  /\ c.registered /\ c.sender \in {"closing", "ended"} => c.shutdown
  /\ c.sender \in HasDescriptor /\ c.receiver = "blocked" => c.source = p

\* What the shutdown of a connection leaves as it is.
LEMMA InterruptedConnection ==
  ASSUME NEW c \in Connections, NEW d \in Interrupted(c)
  PROVE  /\ d \in Connections
         /\ d = c \/ (c.receiver = "blocked" /\ d = [c EXCEPT !.receiver = "ended"])
BY DEF Interrupted, Connections, ReceiverStages

LEMMA ShutDownConnection ==
  ASSUME NEW c \in Connections, NEW d \in ShutDown(c)
  PROVE  /\ d \in Connections
         /\ d.shutdown
         /\ d.fd = c.fd /\ d.sender = c.sender /\ d.source = c.source
         /\ d.registered = c.registered
         /\ d.receiver = c.receiver \/ (c.receiver = "blocked" /\ d.receiver = "ended")
<1>1. CASE c.shutdown
  BY <1>1 DEF ShutDown
<1>2. CASE ~c.shutdown
  <2> DEFINE e == [c EXCEPT !.shutdown = TRUE]
  <2>1. /\ e \in Connections /\ e.fd = c.fd /\ e.sender = c.sender /\ e.source = c.source
        /\ e.receiver = c.receiver
    BY DEF Connections
  <2>2. e.shutdown /\ e.registered = c.registered
    BY DEF Connections
  <2>3. d \in Interrupted(e)
    BY <1>2 DEF ShutDown
  <2> HIDE DEF e
  <2>4. d \in Connections /\ (d = e \/ (e.receiver = "blocked" /\ d = [e EXCEPT !.receiver = "ended"]))
    BY <2>1, <2>3, InterruptedConnection
  <2>5. CASE d = e
    BY <2>1, <2>2, <2>5
  <2>6. CASE e.receiver = "blocked" /\ d = [e EXCEPT !.receiver = "ended"]
    <3>1. d.fd = e.fd /\ d.sender = e.sender /\ d.source = e.source /\ d.receiver = "ended"
      BY <2>1, <2>6 DEF Connections
    <3>2. d.shutdown = e.shutdown /\ d.registered = e.registered
      BY <2>1, <2>6 DEF Connections
    <3> QED BY <2>1, <2>2, <2>4, <2>6, <3>1, <3>2
  <2> QED BY <2>4, <2>5, <2>6
<1> QED BY <1>1, <1>2

LEMMA ShutDownIsSound ==
  ASSUME NEW p, NEW c \in Connections, NEW d \in ShutDown(c), Sound(p, c)
  PROVE  Sound(p, d)
BY ShutDownConnection DEF Sound

-----------------------------------------------------------------------------
(* The descriptors.                                                        *)

\* The connections that have one: those whose sending thread has not closed it,
\* and the one the handler has just accepted.
Reading(p) == stage \in {"reading", "spinning"} /\ connection = p
Open(p) == conn[p].sender \in HasDescriptor \/ Reading(p)

\* Each has its own, and there are no others.
Files ==
  /\ \A p \in Peers : Open(p) => conn[p].fd \in Descriptors /\ files[conn[p].fd] = p
  /\ \A d \in Descriptors : \A p \in Peers : files[d] = p => Open(p) /\ conn[p].fd = d

\* Who has not been accepted has never had one, nor any thread.
Fresh(p) == conn[p].fd = 0 /\ conn[p].sender = "none"
Arrivals ==
  /\ \A p \in Peers : presence[p] = "away" => Fresh(p)
  /\ \A i \in 1 .. Len(backlog) : \A p \in Peers :
       backlog[i] = p => Fresh(p) /\ presence[p] # "away"
  /\ \A i, j \in 1 .. Len(backlog) : backlog[i] = backlog[j] => i = j
  /\ stage \in {"reading", "spinning"} =>
       connection \in Peers /\ conn[connection].sender = "none" /\ presence[connection] # "away"

-----------------------------------------------------------------------------
(* The table.                                                              *)

Table ==
  /\ Len(table) <= capacity /\ InitialCapacity <= capacity
  /\ stale # {} => Len(table) > InitialCapacity
  /\ \A p \in Peers : conn[p].sender # "none" => \E i \in 1 .. Len(table) : table[i] = p
  /\ joined <= Len(table)
  /\ stage \notin {"joining", "waiting", "ended"} => joined = 0
  /\ stage = "waiting" => joined < Len(table)
  /\ \A i \in 1 .. joined : ~Runs(table[i])
  /\ stage = "ended" => joined = Len(table)
  /\ main = "destroyed" => stage = "ended"

IInv ==
  /\ Types
  /\ \A p \in Peers : Sound(p, conn[p])
  /\ Files
  /\ Arrivals
  /\ Table
  /\ ~misplayed

LEMMA InitialInvariant == Init => IInv
<1> SUFFICES ASSUME Init PROVE IInv
  OBVIOUS
<1>1. Unborn \in Connections
  BY DEF Unborn, Connections, SenderStages, ReceiverStages
<1>2. \A p \in Peers : conn[p] = Unborn
  BY DEF Init
<1>3. Types
  BY <1>1, HandlerAssumption DEF Init, Types
<1>4. \A p \in Peers : Sound(p, conn[p]) /\ Fresh(p) /\ ~Open(p)
  BY <1>2 DEF Init, Unborn, Sound, Fresh, Open, Reading, HasDescriptor
<1>5. Files
  BY <1>4, PeersAreNumbers DEF Init, Files
<1>6. Arrivals
  BY <1>4 DEF Init, Arrivals
<1>7. Table
  BY <1>4, HandlerAssumption DEF Init, Table, Fresh
<1> QED BY <1>3, <1>4, <1>5, <1>6, <1>7 DEF IInv, Init

-----------------------------------------------------------------------------
(* The threads of a connection.                                            *)

\* What a step of one of them makes of its connection, and of the descriptor.
ThreadStep(p, c) ==
  /\ conn' = [conn EXCEPT ![p] = c]
  /\ c \in Connections /\ Sound(p, c) /\ c.fd = conn[p].fd
  /\ Runs(p) /\ conn[p].sender # "none" /\ c.sender # "none"
  /\ \/ files' = files /\ (c.sender \in HasDescriptor <=> conn[p].sender \in HasDescriptor)
     \/ /\ conn[p].sender \in HasDescriptor /\ c.sender \notin HasDescriptor
        /\ files' = [files EXCEPT ![conn[p].fd] = Nobody]

LEMMA SenderSteps ==
  ASSUME IInv, NEW p \in Peers, SenderRuns(p)
  PROVE  /\ \E c : ThreadStep(p, c)
         /\ UNCHANGED <<peerVars, handlerVars, main>> /\ ~misplayed'
<1> DEFINE old == conn[p]
<1>t. old \in Connections /\ Sound(p, old) /\ conn \in [Peers -> Connections]
  BY DEF IInv, Types
<1>o. UNCHANGED <<peerVars, handlerVars, main>> /\ ~misplayed'
  BY DEF IInv, SenderRuns, Register, WriteFails, Unregister, Close, ThreadOnly
<1>r. old.sender \in HasDescriptor => Runs(p)
  BY DEF Runs, HasDescriptor
<1>1. CASE Register(p)
  <2>1. old.sender = "starting" /\ files' = files
    BY <1>1 DEF Register, Sender
  <2>2. ~old.registered
    BY <1>t, <2>1 DEF Sound
  <2> DEFINE in  == [old EXCEPT !.sender = "playing", !.registered = TRUE]
             out == [old EXCEPT !.sender = "full"]
  <2>3. conn' = [conn EXCEPT ![p] = in] \/ conn' = [conn EXCEPT ![p] = out]
    BY <1>1 DEF Register, Sender
  <2>4. in \in Connections /\ in.sender = "playing" /\ in.fd = old.fd /\ in.receiver = old.receiver
        /\ in.source = old.source
    BY <1>t DEF Connections, SenderStages, HasDescriptor
  <2>5. /\ out \in Connections /\ out.sender = "full" /\ out.fd = old.fd
        /\ out.receiver = old.receiver /\ out.source = old.source
    BY <1>t DEF Connections, SenderStages, HasDescriptor
  <2>6. out.registered = old.registered
    BY <1>t DEF Connections
  <2>7. Sound(p, in) /\ Sound(p, out)
    <3> HIDE DEF in, out, old
    <3> QED BY <1>t, <2>1, <2>2, <2>4, <2>5, <2>6 DEF Sound, HasDescriptor
  <2> HIDE DEF in, out
  <2>8. ThreadStep(p, in) \/ ThreadStep(p, out)
    BY <1>t, <1>r, <2>1, <2>3, <2>4, <2>5, <2>7 DEF ThreadStep, HasDescriptor
  <2> QED BY <1>o, <2>8
<1>2. CASE WriteFails(p)
  <2>1. old.sender \in {"playing", "full"} /\ files' = files
    BY <1>2 DEF WriteFails, Sender
  <2>2. PICK c \in ShutDown(old) : conn' = [conn EXCEPT ![p] = c]
    BY <1>2 DEF WriteFails, Sender
  <2>3. c \in Connections /\ c.fd = old.fd /\ c.sender = old.sender /\ Sound(p, c)
    BY <1>t, <2>2, ShutDownConnection, ShutDownIsSound
  <2>4. ThreadStep(p, c)
    BY <1>t, <1>r, <2>1, <2>2, <2>3 DEF ThreadStep, HasDescriptor
  <2> QED BY <1>o, <2>4
<1>3. CASE Unregister(p)
  <2> DEFINE e == [old EXCEPT !.sender = "closing"]
  <2>1. old.sender = "playing" /\ files' = files
    BY <1>3 DEF Unregister, Sender
  <2>2. PICK c \in ShutDown(e) : conn' = [conn EXCEPT ![p] = c]
    BY <1>3 DEF Unregister, Sender
  <2>3. e \in Connections /\ e.fd = old.fd /\ e.sender = "closing" /\ e.receiver = old.receiver
        /\ e.source = old.source
    BY <1>t DEF Connections, SenderStages, HasDescriptor
  <2> HIDE DEF e
  <2>4. /\ c \in Connections /\ c.fd = old.fd /\ c.sender = "closing" /\ c.shutdown
        /\ c.source = old.source /\ (c.receiver = old.receiver \/ c.receiver = "ended")
    BY <2>2, <2>3, ShutDownConnection
  <2>5. Sound(p, c)
    BY <1>t, <2>1, <2>4 DEF Sound, HasDescriptor
  <2>6. ThreadStep(p, c)
    BY <1>t, <1>r, <2>1, <2>2, <2>4, <2>5 DEF ThreadStep, HasDescriptor
  <2> QED BY <1>o, <2>6
<1>4. CASE Close(p)
  <2> DEFINE c == [old EXCEPT !.sender = "ended"]
  <2>1. /\ old.sender \in {"closing", "full"} /\ conn' = [conn EXCEPT ![p] = c]
        /\ files' = [files EXCEPT ![old.fd] = Nobody]
    BY <1>4 DEF Close, Sender
  <2>2. c \in Connections /\ c.fd = old.fd /\ c.sender = "ended"
    BY <1>t DEF Connections, SenderStages
  <2>3. c.registered = old.registered /\ c.shutdown = old.shutdown
    BY <1>t DEF Connections
  <2> HIDE DEF c
  <2>4. Sound(p, c)
    BY <1>t, <2>1, <2>2, <2>3 DEF Sound, HasDescriptor
  <2>5. ThreadStep(p, c)
    BY <1>r, <2>1, <2>2, <2>4 DEF ThreadStep, HasDescriptor
  <2> QED BY <1>o, <2>5
<1> QED BY <1>1, <1>2, <1>3, <1>4 DEF SenderRuns

LEMMA ReceiverSteps ==
  ASSUME IInv, NEW p \in Peers, ReceiverRuns(p)
  PROVE  /\ \E c : ThreadStep(p, c)
         /\ UNCHANGED <<peerVars, handlerVars, main>> /\ ~misplayed'
<1> DEFINE old == conn[p]
<1>t. old \in Connections /\ Sound(p, old) /\ conn \in [Peers -> Connections] /\ ~misplayed
  BY DEF IInv, Types
<1>o. UNCHANGED <<peerVars, handlerVars, main, files>>
  BY DEF ReceiverRuns, CheckShutdown, BeginRead, ReceiveNothing, Receive, ThreadOnly
<1>r. old.receiver \in {"checking", "calling", "blocked"} => Runs(p) /\ old.sender # "none"
  BY <1>t DEF Runs, Sound
\* A step that only takes the thread from one place to another.
<1>g. ASSUME NEW to \in ReceiverStages \ {"blocked"}, old.receiver \in {"checking", "calling", "blocked"},
             conn' = [conn EXCEPT ![p] = [old EXCEPT !.receiver = to]]
      PROVE  \E c : ThreadStep(p, c)
  <2> DEFINE c == [old EXCEPT !.receiver = to]
  <2>1. c \in Connections /\ c.fd = old.fd /\ c.sender = old.sender /\ c.receiver = to
    BY <1>t DEF Connections
  <2>2. c.registered = old.registered /\ c.shutdown = old.shutdown
    BY <1>t DEF Connections
  <2>3. conn' = [conn EXCEPT ![p] = c]
    BY <1>g
  <2> HIDE DEF c
  <2>4. Sound(p, c)
    BY <1>t, <1>r, <1>g, <2>1, <2>2 DEF Sound
  <2>5. ThreadStep(p, c)
    BY <1>o, <1>r, <1>g, <2>1, <2>3, <2>4 DEF ThreadStep
  <2> QED BY <2>5
<1>1. CASE CheckShutdown(p)
  <2>1. /\ old.receiver = "checking" /\ ~misplayed'
        /\ \E to \in {"ended", "calling"} : conn' = [conn EXCEPT ![p] = [old EXCEPT !.receiver = to]]
    BY <1>1 DEF CheckShutdown, Receiver, ThreadOnly, IInv
  <2> QED BY <1>o, <1>g, <2>1 DEF ReceiverStages
<1>2. CASE BeginRead(p)
  <2> DEFINE file == files[old.fd]
             c    == [old EXCEPT !.receiver = "blocked", !.source = file]
  <2>1. /\ old.receiver = "calling" /\ ~misplayed'
        /\ conn' = [conn EXCEPT ![p] = IF file = Nobody THEN [old EXCEPT !.receiver = "ended"] ELSE c]
    BY <1>2 DEF BeginRead, Receiver, ThreadOnly, IInv
  <2>2. CASE file = Nobody
    BY <1>o, <1>g, <2>1, <2>2 DEF ReceiverStages
  <2>3. CASE file # Nobody
    <3>1. old.sender \in HasDescriptor => file = p
      BY DEF IInv, Files, Open
    <3>2. file \in Peers
      <4>1. old.fd \in Descriptors
        BY <1>t, <1>r, <2>1 DEF Sound
      <4> QED BY <2>3, <4>1 DEF IInv, Types
    <3>3. c \in Connections /\ c.fd = old.fd /\ c.sender = old.sender /\ c.source = file
      BY <1>t, <3>2 DEF Connections, ReceiverStages
    <3>4. c.registered = old.registered /\ c.shutdown = old.shutdown
      BY <1>t DEF Connections
    <3> HIDE DEF c, file
    <3>5. Sound(p, c)
      BY <1>t, <1>r, <2>1, <3>1, <3>3, <3>4 DEF Sound
    <3>6. ThreadStep(p, c)
      BY <1>o, <1>r, <2>1, <2>3, <3>3, <3>5 DEF ThreadStep
    <3> QED BY <1>o, <2>1, <3>6
  <2> QED BY <2>2, <2>3
<1>3. CASE ReceiveNothing(p)
  <2>1. /\ old.receiver = "blocked" /\ ~misplayed'
        /\ \E to \in {"ended", "calling"} : conn' = [conn EXCEPT ![p] = [old EXCEPT !.receiver = to]]
    BY <1>3 DEF ReceiveNothing, Receiver, ThreadOnly, IInv
  <2> QED BY <1>o, <1>g, <2>1 DEF ReceiverStages
<1>4. ASSUME NEW isMove \in BOOLEAN, Receive(p, isMove)
      PROVE  (\E c : ThreadStep(p, c)) /\ ~misplayed'
  <2> DEFINE ended == [old EXCEPT !.receiver = "ended"]
             acts == ~old.shutdown /\ isMove /\ old.registered
  <2>1. /\ old.receiver = "blocked"
        /\ misplayed' = (misplayed \/ (acts /\ old.source # p))
    BY <1>4 DEF Receive, Receiver
  <2>2. acts => old.source = p
    BY <1>t, <2>1 DEF Sound, HasDescriptor
  <2>3. ~misplayed'
    BY <1>t, <2>1, <2>2
  <2>4. CASE \E to \in {"ended", "checking"} : conn' = [conn EXCEPT ![p] = [old EXCEPT !.receiver = to]]
    BY <1>g, <2>1, <2>3, <2>4 DEF ReceiverStages
  <2>5. CASE \E c \in ShutDown(ended) : conn' = [conn EXCEPT ![p] = c]
    <3>1. PICK c \in ShutDown(ended) : conn' = [conn EXCEPT ![p] = c]
      BY <2>5
    <3>2. ended \in Connections /\ ended.fd = old.fd /\ ended.sender = old.sender
          /\ ended.receiver = "ended"
      BY <1>t DEF Connections, ReceiverStages
    <3>3. ended.registered = old.registered /\ ended.shutdown = old.shutdown
      BY <1>t DEF Connections
    <3> HIDE DEF ended
    <3>4. Sound(p, ended)
      BY <1>t, <1>r, <2>1, <3>2, <3>3 DEF Sound
    <3>5. c \in Connections /\ c.fd = old.fd /\ c.sender = old.sender /\ Sound(p, c)
      BY <3>1, <3>2, <3>4, ShutDownConnection, ShutDownIsSound
    <3>6. ThreadStep(p, c)
      BY <1>o, <1>r, <2>1, <3>1, <3>5 DEF ThreadStep
    <3> QED BY <2>3, <3>6
  <2>6. \/ \E to \in {"ended", "checking"} : conn' = [conn EXCEPT ![p] = [old EXCEPT !.receiver = to]]
        \/ \E c \in ShutDown(ended) : conn' = [conn EXCEPT ![p] = c]
    BY <1>4 DEF Receive, Receiver
  <2> QED BY <2>4, <2>5, <2>6
<1> QED BY <1>o, <1>1, <1>2, <1>3, <1>4 DEF ReceiverRuns

LEMMA ThreadKeepsInvariant ==
  ASSUME IInv, NEW p \in Peers, NEW c, ThreadStep(p, c),
         UNCHANGED <<peerVars, handlerVars, main>>, ~misplayed'
  PROVE  IInv'
<1>t. /\ conn \in [Peers -> Connections] /\ conn' = [conn EXCEPT ![p] = c]
      /\ c \in Connections /\ Sound(p, c) /\ c.fd = conn[p].fd /\ conn[p].fd \in Descriptors
      /\ Runs(p) /\ conn[p].sender # "none" /\ c.sender # "none"
  BY DEF IInv, Types, ThreadStep, Sound
<1>c. conn' \in [Peers -> Connections] /\ conn'[p] = c /\ \A q \in Peers \ {p} : conn'[q] = conn[q]
  BY <1>t
<1>u. UNCHANGED <<presence, backlog, stage, connection, table, capacity, joined, stale, main>>
  BY DEF peerVars, handlerVars
<1>1. Types'
  BY <1>c, <1>u DEF IInv, Types, ThreadStep
<1>2. \A q \in Peers : Sound(q, conn[q])'
  BY <1>t, <1>c DEF IInv, Sound
<1>3. Files'
  <2>1. ~Reading(p) /\ \A q \in Peers : Reading(q)' <=> Reading(q)
    BY <1>t, <1>u DEF IInv, Arrivals, Reading
  <2>2. CASE files' = files /\ (c.sender \in HasDescriptor <=> conn[p].sender \in HasDescriptor)
    <3>1. \A q \in Peers : (Open(q)' <=> Open(q)) /\ conn'[q].fd = conn[q].fd
      BY <1>t, <1>c, <2>1, <2>2 DEF Open
    <3> QED BY <2>2, <3>1 DEF IInv, Files
  <2>3. CASE /\ conn[p].sender \in HasDescriptor /\ c.sender \notin HasDescriptor
             /\ files' = [files EXCEPT ![conn[p].fd] = Nobody]
    <3>1. Open(p) /\ ~Open(p)' /\ \A q \in Peers \ {p} : Open(q)' <=> Open(q)
      BY <1>c, <2>1, <2>3 DEF Open
    <3>2. files[conn[p].fd] = p
      BY <3>1 DEF IInv, Files
    <3>3. files \in [Descriptors -> Peers \cup {Nobody}]
      BY DEF IInv, Types
    <3>4. ASSUME NEW q \in Peers, Open(q)'
          PROVE  conn'[q].fd \in Descriptors /\ files'[conn'[q].fd] = q
      <4>1. q # p /\ Open(q)
        BY <3>1, <3>4
      <4>2. conn[q].fd \in Descriptors /\ files[conn[q].fd] = q
        BY <4>1 DEF IInv, Files
      <4> QED BY <1>c, <2>3, <3>2, <3>3, <4>1, <4>2
    <3>5. ASSUME NEW d \in Descriptors, NEW q \in Peers, files'[d] = q
          PROVE  Open(q)' /\ conn'[q].fd = d
      <4>1. d # conn[p].fd /\ files[d] = q
        BY <1>t, <2>3, <3>3, <3>5, PeersAreNumbers
      <4>2. Open(q) /\ conn[q].fd = d
        BY <4>1 DEF IInv, Files
      <4>3. q # p
        BY <4>1, <4>2
      <4> QED BY <1>c, <3>1, <4>2, <4>3
    <3> QED BY <3>4, <3>5 DEF Files
  <2> QED BY <2>2, <2>3 DEF ThreadStep
<1>4. Arrivals'
  <2>1. ~Fresh(p) /\ \A q \in Peers \ {p} : Fresh(q)' <=> Fresh(q)
    BY <1>t, <1>c DEF Fresh
  <2>2. \A i \in 1 .. Len(backlog) : backlog[i] \in Peers
    BY DEF IInv, Types
  <2> QED BY <1>t, <1>c, <1>u, <2>1, <2>2 DEF IInv, Arrivals
<1>5. Table'
  <2>1. \A i \in 1 .. Len(table) : table[i] \in Peers
    BY DEF IInv, Types
  <2>2. \A i \in 1 .. joined : ~Runs(table[i])'
    <3> SUFFICES ASSUME NEW i \in 1 .. joined PROVE ~Runs(table[i])'
      OBVIOUS
    <3>1. ~Runs(table[i]) /\ i \in 1 .. Len(table)
      BY DEF IInv, Table, Types
    <3>2. table[i] \in Peers \ {p}
      BY <1>t, <2>1, <3>1
    <3> QED BY <1>c, <1>u, <3>1, <3>2 DEF Runs
  <2>3. \A q \in Peers : conn'[q].sender # "none" => conn[q].sender # "none"
    BY <1>t, <1>c
  <2> QED BY <1>u, <2>2, <2>3 DEF IInv, Table
<1> QED BY <1>1, <1>2, <1>3, <1>4, <1>5 DEF IInv

-----------------------------------------------------------------------------
(* The peers.                                                              *)

\* What depends on the threads and on the place of the handler alone.
LEMMA QuietKeepsFiles ==
  ASSUME Files, UNCHANGED <<conn, files>>, \A p \in Peers : Reading(p)' <=> Reading(p)
  PROVE  Files'
BY DEF Files, Open

LEMMA QuietKeepsTable ==
  ASSUME Table, UNCHANGED <<conn, table, capacity, joined, stale, stage, main>>
  PROVE  Table'
BY DEF Table, Runs

LEMMA ConnectKeepsInvariant ==
  ASSUME IInv, NEW p \in Peers, Connect(p)
  PROVE  IInv'
<1>t. /\ presence \in [Peers -> {"away", "open", "gone"}] /\ backlog \in Seq(Peers)
      /\ presence[p] = "away" /\ presence' = [presence EXCEPT ![p] = "open"]
      /\ backlog' = Append(backlog, p)
      /\ UNCHANGED <<handlerVars, files, main, conn, misplayed>>
  BY DEF IInv, Types, Connect
<1>u. UNCHANGED <<stage, connection, table, capacity, joined, stale>>
  BY <1>t DEF handlerVars
<1>1. Types'
  BY <1>t, <1>u DEF IInv, Types
<1>2. Files' /\ Table'
  BY <1>t, <1>u, QuietKeepsFiles, QuietKeepsTable DEF IInv, Reading
<1>3. Arrivals'
  <2>1. Fresh(p) /\ \A q \in Peers : Fresh(q)' <=> Fresh(q)
    BY <1>t DEF IInv, Arrivals, Fresh
  <2>2. /\ Len(backlog') = Len(backlog) + 1 /\ backlog'[Len(backlog) + 1] = p
        /\ \A i \in 1 .. Len(backlog) : backlog'[i] = backlog[i] /\ backlog[i] \in Peers
        /\ Len(backlog) \in Nat
    BY <1>t
  <2>3. \A i \in 1 .. Len(backlog) : backlog[i] # p
    BY <1>t DEF IInv, Arrivals
  <2>4. ASSUME NEW i \in 1 .. Len(backlog'), NEW q \in Peers, backlog'[i] = q
        PROVE  Fresh(q)' /\ presence'[q] # "away"
    <3>1. CASE i = Len(backlog) + 1
      BY <1>t, <2>1, <2>2, <2>4, <3>1
    <3>2. CASE i \in 1 .. Len(backlog)
      <4>1. Fresh(q) /\ presence[q] # "away"
        BY <2>2, <2>4, <3>2 DEF IInv, Arrivals
      <4> QED BY <1>t, <2>1, <4>1
    <3> QED BY <2>2, <3>1, <3>2
  <2>5. ASSUME NEW i \in 1 .. Len(backlog'), NEW j \in 1 .. Len(backlog'), backlog'[i] = backlog'[j]
        PROVE  i = j
    BY <2>2, <2>3, <2>5 DEF IInv, Arrivals
  <2> QED BY <1>t, <1>u, <2>1, <2>4, <2>5 DEF IInv, Arrivals
<1> QED BY <1>t, <1>1, <1>2, <1>3 DEF IInv, Sound

LEMMA LeaveKeepsInvariant ==
  ASSUME IInv, NEW p \in Peers, Leave(p)
  PROVE  IInv'
<1>t. /\ presence \in [Peers -> {"away", "open", "gone"}]
      /\ presence[p] = "open" /\ presence' = [presence EXCEPT ![p] = "gone"]
      /\ UNCHANGED <<backlog, stage, connection, table, capacity, joined, stale, files, main, conn, misplayed>>
  BY DEF IInv, Types, Leave, handlerVars
<1>1. Types'
  BY <1>t DEF IInv, Types
<1>2. Files' /\ Table'
  BY <1>t, QuietKeepsFiles, QuietKeepsTable DEF IInv, Reading
<1>3. Arrivals'
  <2>1. \A q \in Peers : (Fresh(q)' <=> Fresh(q)) /\ (presence'[q] = "away" <=> presence[q] = "away")
    BY <1>t DEF Fresh
  <2>2. \A i \in 1 .. Len(backlog) : backlog[i] \in Peers
    BY DEF IInv, Types
  <2> QED BY <1>t, <2>1, <2>2 DEF IInv, Arrivals
<1> QED BY <1>t, <1>1, <1>2, <1>3 DEF IInv, Sound

-----------------------------------------------------------------------------
(* The handler.                                                            *)

\* There are as many descriptors as peers, and one who has been accepted has one.
LEMMA SomeDescriptorIsFree ==
  ASSUME IInv, backlog # <<>>
  PROVE  FreeDescriptor \in Descriptors /\ files[FreeDescriptor] = Nobody
<1> DEFINE h    == Head(backlog)
           free == {d \in Descriptors : files[d] = Nobody}
<1>t. files \in [Descriptors -> Peers \cup {Nobody}] /\ backlog \in Seq(Peers)
  BY DEF IInv, Types
<1>1. h \in Peers /\ Fresh(h)
  <2>1. h = backlog[1] /\ 1 \in 1 .. Len(backlog)
    BY <1>t
  <2> QED BY <1>t, <2>1 DEF IInv, Arrivals
<1>2. free # {}
  <2> SUFFICES ASSUME free = {} PROVE FALSE
    OBVIOUS
  <2>1. files \in [Descriptors -> Peers \ {h}]
    <3>1. ASSUME NEW d \in Descriptors PROVE files[d] \in Peers \ {h}
      <4>1. files[d] \in Peers
        BY <1>t
      <4>2. files[d] = h => conn[h].fd = d
        BY <1>1 DEF IInv, Files
      <4> QED BY <1>1, <4>1, <4>2, PeersAreNumbers DEF Fresh
    <3> QED BY <1>t, <3>1
  <2>2. /\ IsFiniteSet(Descriptors) /\ Cardinality(Descriptors) = MaxPeers
        /\ IsFiniteSet(Peers) /\ Cardinality(Peers) = MaxPeers
    BY HandlerAssumption, FS_Interval DEF Descriptors, Peers
  <2>3. IsFiniteSet(Peers \ {h}) /\ Cardinality(Peers \ {h}) = MaxPeers - 1
    BY <1>1, <2>2, FS_RemoveElement
  <2>4. PICK d, e \in Descriptors : d # e /\ files[d] = files[e]
    <3>1. Cardinality(Peers \ {h}) < Cardinality(Descriptors)
      BY <2>2, <2>3, HandlerAssumption
    <3> QED BY <2>1, <2>2, <2>3, <3>1, FS_PigeonHole
  <2>5. conn[files[d]].fd = d /\ conn[files[d]].fd = e
    BY <2>1, <2>4 DEF IInv, Files
  <2> QED BY <2>4, <2>5
<1>3. \E d \in free : \A e \in free : ~(e < d)
  <2>1. free \subseteq Nat
    BY PeersAreNumbers
  <2>2. PICK d \in free : \A e \in free : ~(<<e, d>> \in OpToRel(<, Nat))
    BY <1>2, <2>1, NatLessThanWellFounded, WFMin
  <2> QED BY <2>1, <2>2 DEF OpToRel
<1>4. \E d \in Descriptors : files[d] = Nobody /\ \A e \in 1 .. d - 1 : files[e] # Nobody
  <2>1. PICK d \in free : \A e \in free : ~(e < d)
    BY <1>3
  <2>2. ASSUME NEW e \in 1 .. d - 1 PROVE files[e] # Nobody
    <3>1. e \in Descriptors /\ e < d
      BY HandlerAssumption DEF Descriptors
    <3> QED BY <2>1, <3>1
  <2> QED BY <2>2
<1> QED BY <1>4 DEF FreeDescriptor

LEMMA BacklogWithoutItsHead ==
  ASSUME IInv, backlog # <<>>, backlog' = Tail(backlog)
  PROVE  /\ Head(backlog) \in Peers /\ Fresh(Head(backlog)) /\ presence[Head(backlog)] # "away"
         /\ backlog' \in Seq(Peers)
         /\ \A i \in 1 .. Len(backlog') : \A q \in Peers :
              backlog'[i] = q => q # Head(backlog) /\ Fresh(q) /\ presence[q] # "away"
         /\ \A i, j \in 1 .. Len(backlog') : backlog'[i] = backlog'[j] => i = j
<1>1. backlog \in Seq(Peers)
  BY DEF IInv, Types
<1>2. /\ Head(backlog) = backlog[1] /\ backlog' \in Seq(Peers)
      /\ \A i \in 1 .. Len(backlog') : i + 1 \in 1 .. Len(backlog) /\ backlog'[i] = backlog[i + 1]
      /\ 1 \in 1 .. Len(backlog) /\ backlog[1] \in Peers
  BY <1>1
<1>3. \A i \in 1 .. Len(backlog') : backlog[i + 1] # backlog[1]
  BY <1>2 DEF IInv, Arrivals
<1>4. \A i, j \in 1 .. Len(backlog') : backlog'[i] = backlog'[j] => i = j
  <2> SUFFICES ASSUME NEW i \in 1 .. Len(backlog'), NEW j \in 1 .. Len(backlog'),
                      backlog'[i] = backlog'[j]
               PROVE  i = j
    OBVIOUS
  <2>1. i + 1 = j + 1
    BY <1>2 DEF IInv, Arrivals
  <2> QED BY <2>1
<1> QED BY <1>2, <1>3, <1>4 DEF IInv, Arrivals

LEMMA AcceptKeepsInvariant ==
  ASSUME IInv, Accept
  PROVE  IInv'
<1>d. /\ Head(backlog) \in Peers
      /\ FreeDescriptor \in Descriptors /\ files[FreeDescriptor] = Nobody
  <2>1. backlog # <<>> /\ backlog' = Tail(backlog)
    BY DEF Accept
  <2> QED BY <2>1, BacklogWithoutItsHead, SomeDescriptorIsFree
<1>e. PICK h \in Peers, f \in Descriptors :
        h = Head(backlog) /\ f = FreeDescriptor /\ files[f] = Nobody
  BY <1>d
<1> DEFINE c == [conn[h] EXCEPT !.fd = f]
<1>t. /\ files \in [Descriptors -> Peers \cup {Nobody}] /\ conn \in [Peers -> Connections]
      /\ backlog # <<>> /\ stage = "accepting" /\ stage' = "reading" /\ connection' = h
      /\ backlog' = Tail(backlog) /\ files' = [files EXCEPT ![f] = h]
      /\ conn' = [conn EXCEPT ![h].fd = f]
      /\ UNCHANGED <<presence, table, capacity, joined, stale, main, misplayed>>
  BY <1>e DEF IInv, Types, Accept, Handler
<1>h. /\ h \in Peers /\ Fresh(h) /\ presence[h] # "away" /\ backlog' \in Seq(Peers)
      /\ \A i \in 1 .. Len(backlog') : \A q \in Peers :
           backlog'[i] = q => q # h /\ Fresh(q) /\ presence[q] # "away"
      /\ \A i, j \in 1 .. Len(backlog') : backlog'[i] = backlog'[j] => i = j
  BY <1>e, <1>t, BacklogWithoutItsHead
<1>f. f \in Descriptors /\ files[f] = Nobody
  BY <1>e
<1>c. /\ conn'[h] = c /\ \A q \in Peers \ {h} : conn'[q] = conn[q]
      /\ conn' \in [Peers -> Connections]
      /\ c.fd = f /\ c.sender = "none" /\ c.receiver = conn[h].receiver
  <2>1. c \in Connections /\ c.fd = f /\ c.sender = conn[h].sender /\ c.receiver = conn[h].receiver
    <3>1. conn[h] \in Connections
      BY <1>t, <1>h
    <3> QED BY <1>f, <3>1 DEF Connections
  <2>2. conn' = [conn EXCEPT ![h] = c]
    BY <1>t
  <2> HIDE DEF c
  <2> QED BY <1>t, <1>h, <2>1, <2>2 DEF Fresh
<1>r. c.registered = conn[h].registered
  BY <1>t, <1>h DEF Connections
<1> HIDE DEF c
<1>1. Types'
  BY <1>t, <1>h, <1>f, <1>c DEF IInv, Types
<1>2. \A q \in Peers : Sound(q, conn[q])'
  <2>1. Sound(h, c)
    <3>1. Sound(h, conn[h]) /\ conn[h].sender = "none"
      BY <1>h DEF IInv, Fresh
    <3> QED BY <1>c, <1>r, <3>1 DEF Sound, HasDescriptor
  <2> QED BY <1>c, <2>1 DEF IInv, Sound
<1>3. Files'
  <2>1. /\ Open(h)' /\ \A q \in Peers \ {h} : Open(q)' <=> Open(q)
        /\ ~Open(h)
    BY <1>t, <1>h, <1>c DEF Open, Reading, Fresh, HasDescriptor
  <2>2. ASSUME NEW q \in Peers, Open(q)'
        PROVE  conn'[q].fd \in Descriptors /\ files'[conn'[q].fd] = q
    <3>1. CASE q = h
      BY <1>t, <1>f, <1>c, <3>1
    <3>2. CASE q # h
      <4>1. conn[q].fd \in Descriptors /\ files[conn[q].fd] = q
        BY <2>1, <2>2, <3>2 DEF IInv, Files
      <4>2. conn[q].fd # f
        BY <1>f, <4>1, PeersAreNumbers
      <4> QED BY <1>t, <1>c, <3>2, <4>1, <4>2
    <3> QED BY <3>1, <3>2
  <2>3. ASSUME NEW d \in Descriptors, NEW q \in Peers, files'[d] = q
        PROVE  Open(q)' /\ conn'[q].fd = d
    <3>1. CASE d = f
      BY <1>t, <1>c, <2>1, <2>3, <3>1
    <3>2. CASE d # f
      <4>1. Open(q) /\ conn[q].fd = d
        BY <1>t, <2>3, <3>2 DEF IInv, Files
      <4> QED BY <1>c, <2>1, <4>1
    <3> QED BY <3>1, <3>2
  <2> QED BY <2>2, <2>3 DEF Files
<1>4. Arrivals'
  <2>1. \A q \in Peers \ {h} : Fresh(q)' <=> Fresh(q)
    BY <1>c DEF Fresh
  <2>2. \A q \in Peers : presence'[q] = "away" => Fresh(q)'
    BY <1>t, <1>h, <2>1 DEF IInv, Arrivals
  <2>3. \A i \in 1 .. Len(backlog') : \A q \in Peers :
          backlog'[i] = q => Fresh(q)' /\ presence'[q] # "away"
    BY <1>t, <1>h, <2>1
  <2>4. connection' \in Peers /\ conn'[connection'].sender = "none" /\ presence'[connection'] # "away"
    BY <1>t, <1>h, <1>c
  <2> QED BY <1>h, <2>2, <2>3, <2>4 DEF Arrivals
<1>5. Table'
  <2>1. \A q \in Peers : conn'[q].sender = conn[q].sender
    BY <1>c, <1>h DEF Fresh
  <2>2. joined = 0 /\ main # "destroyed"
    BY <1>t DEF IInv, Table
  <2> QED BY <1>t, <2>1, <2>2 DEF IInv, Table
<1> QED BY <1>t, <1>1, <1>2, <1>3, <1>4, <1>5 DEF IInv

\* Both ends of the loop at an accept.
LEMMA LastAcceptKeepsInvariant ==
  ASSUME IInv, AcceptTooLate \/ AcceptFails
  PROVE  IInv'
<1>t. /\ stage = "accepting" /\ stage' = "joining"
      /\ UNCHANGED backlog \/ (backlog # <<>> /\ backlog' = Tail(backlog))
      /\ UNCHANGED <<presence, files, connection, table, capacity, joined, stale, main, conn, misplayed>>
  BY DEF AcceptTooLate, AcceptFails, Handler
<1>h. /\ backlog' \in Seq(Peers)
      /\ \A i \in 1 .. Len(backlog') : \A q \in Peers :
           backlog'[i] = q => Fresh(q) /\ presence[q] # "away"
      /\ \A i, j \in 1 .. Len(backlog') : backlog'[i] = backlog'[j] => i = j
  <2>1. CASE backlog # <<>> /\ backlog' = Tail(backlog)
    BY <2>1, BacklogWithoutItsHead
  <2>2. CASE UNCHANGED backlog
    BY <2>2 DEF IInv, Types, Arrivals
  <2> QED BY <1>t, <2>1, <2>2
<1>1. Types'
  BY <1>t, <1>h DEF IInv, Types
<1>2. Files'
  BY <1>t, QuietKeepsFiles DEF IInv, Reading
<1>3. Arrivals'
  <2>1. \A q \in Peers : Fresh(q)' <=> Fresh(q)
    BY <1>t DEF Fresh
  <2> QED BY <1>t, <1>h, <2>1 DEF IInv, Arrivals
<1>4. Table'
  <2>1. joined = 0 /\ main # "destroyed"
    BY <1>t DEF IInv, Table
  <2> QED BY <1>t, <2>1 DEF IInv, Table
<1> QED BY <1>t, <1>1, <1>2, <1>3, <1>4 DEF IInv, Sound

\* The handler, or the signal, gives up the connection whose bytes it has waited for.
LEMMA RejectionKeepsInvariant ==
  ASSUME IInv, stage = "reading", stage' \in {"accepting", "joining"}, CloseAccepted,
         UNCHANGED <<presence, backlog, connection, table, capacity, joined, stale, conn, misplayed>>,
         main' = main \/ main' = "signalled"
  PROVE  IInv'
<1> DEFINE a == connection
<1>t. /\ files \in [Descriptors -> Peers \cup {Nobody}]
      /\ a \in Peers /\ conn[a].sender = "none" /\ files' = [files EXCEPT ![conn[a].fd] = Nobody]
  BY DEF IInv, Types, Arrivals, CloseAccepted
<1>o. /\ Open(a) /\ ~Open(a)' /\ \A q \in Peers \ {a} : Open(q)' <=> Open(q)
  BY <1>t DEF Open, Reading, HasDescriptor
<1>f. conn[a].fd \in Descriptors /\ files[conn[a].fd] = a
  BY <1>t, <1>o DEF IInv, Files
<1>1. Types'
  BY <1>t, <1>f DEF IInv, Types
<1>2. Files'
  <2>1. ASSUME NEW q \in Peers, Open(q)'
        PROVE  conn'[q].fd \in Descriptors /\ files'[conn'[q].fd] = q
    <3>1. q # a /\ Open(q)
      BY <1>o, <2>1
    <3>2. conn[q].fd \in Descriptors /\ files[conn[q].fd] = q
      BY <3>1 DEF IInv, Files
    <3> QED BY <1>t, <1>f, <3>1, <3>2
  <2>2. ASSUME NEW d \in Descriptors, NEW q \in Peers, files'[d] = q
        PROVE  Open(q)' /\ conn'[q].fd = d
    <3>1. d # conn[a].fd /\ files[d] = q
      BY <1>t, <2>2, PeersAreNumbers
    <3>2. Open(q) /\ conn[q].fd = d
      BY <3>1 DEF IInv, Files
    <3>3. q # a
      BY <3>1, <3>2
    <3> QED BY <1>o, <3>2, <3>3
  <2> QED BY <2>1, <2>2 DEF Files
<1>3. Arrivals'
  <2>1. \A q \in Peers : Fresh(q)' <=> Fresh(q)
    BY DEF Fresh
  <2> QED BY <2>1 DEF IInv, Arrivals
<1>4. Table'
  <2>1. joined = 0 /\ main # "destroyed"
    BY DEF IInv, Table
  <2> QED BY <2>1 DEF IInv, Table
<1> QED BY <1>1, <1>2, <1>3, <1>4 DEF IInv, Sound

LEMMA AdmitKeepsInvariant ==
  ASSUME IInv, Admit
  PROVE  IInv'
<1>e. PICK a \in Peers : a = connection
  BY DEF IInv, Arrivals, Admit, Handler
<1> DEFINE c == [conn[a] EXCEPT !.sender = "starting", !.receiver = "checking"]
<1>t. /\ conn \in [Peers -> Connections] /\ table \in Seq(Peers) /\ capacity \in Nat
      /\ stage = "reading" /\ stage' \in {"accepting", "joining"} /\ Grow
      /\ table' = Append(table, a)
      /\ conn' = [conn EXCEPT ![a].sender = "starting", ![a].receiver = "checking"]
      /\ UNCHANGED <<presence, backlog, files, connection, joined, main, misplayed>>
      /\ a \in Peers /\ conn[a].sender = "none" /\ presence[a] # "away"
      /\ joined = 0 /\ main # "destroyed"
  BY <1>e DEF IInv, Types, Table, Arrivals, Admit, Handler, Loop, Start, peerVars
<1>o. Open(a)
  BY <1>e, <1>t DEF Open, Reading
<1>f. conn[a].fd \in Descriptors
  BY <1>t, <1>o DEF IInv, Files
<1>c. /\ conn'[a] = c /\ \A q \in Peers \ {a} : conn'[q] = conn[q]
      /\ conn' \in [Peers -> Connections]
      /\ c.fd = conn[a].fd /\ c.sender = "starting" /\ c.receiver = "checking"
  <2>1. c \in Connections /\ c.fd = conn[a].fd /\ c.sender = "starting" /\ c.receiver = "checking"
    BY <1>t DEF Connections, SenderStages, HasDescriptor, ReceiverStages
  <2>2. conn' = [conn EXCEPT ![a] = c]
    BY <1>t
  <2> HIDE DEF c
  <2> QED BY <1>t, <2>1, <2>2
<1>r. c.registered = conn[a].registered
  BY <1>t DEF Connections
<1> HIDE DEF c
<1>n. /\ Len(table') = Len(table) + 1 /\ table' \in Seq(Peers) /\ Len(table) \in Nat
      /\ table'[Len(table) + 1] = a /\ \A i \in 1 .. Len(table) : table'[i] = table[i]
  BY <1>t
<1>g. /\ Len(table') <= capacity' /\ capacity' \in Nat /\ InitialCapacity <= capacity'
      /\ stale' # {} => Len(table') > InitialCapacity
  <2>1. /\ Len(table) <= capacity /\ InitialCapacity <= capacity /\ InitialCapacity \in Nat \ {0}
        /\ stale # {} => Len(table) > InitialCapacity
    BY HandlerAssumption DEF IInv, Table
  <2>2. CASE Len(table) = capacity
    <3>1. capacity' = 2 * capacity
      BY <1>t, <2>2 DEF Grow
    <3> QED BY <1>t, <1>n, <2>1, <2>2, <3>1
  <2>3. CASE Len(table) # capacity
    <3>1. capacity' = capacity /\ stale' = stale
      BY <1>t, <2>3 DEF Grow
    <3> QED BY <1>t, <1>n, <2>1, <2>3, <3>1
  <2> QED BY <2>2, <2>3
<1>1. Types'
  BY <1>t, <1>n, <1>g, <1>c DEF IInv, Types
<1>2. \A q \in Peers : Sound(q, conn[q])'
  <2>1. Sound(a, c)
    <3>1. Sound(a, conn[a])
      BY <1>t DEF IInv
    <3> QED BY <1>t, <1>f, <1>c, <1>r, <3>1 DEF Sound, HasDescriptor
  <2> QED BY <1>c, <2>1 DEF IInv, Sound
<1>3. Files'
  <2>1. \A q \in Peers : (Open(q)' <=> Open(q)) /\ conn'[q].fd = conn[q].fd
    BY <1>e, <1>t, <1>c, <1>o DEF Open, Reading, HasDescriptor
  <2> QED BY <1>t, <2>1 DEF IInv, Files
<1>4. Arrivals'
  <2>1. ~Fresh(a) /\ \A q \in Peers \ {a} : Fresh(q)' <=> Fresh(q)
    BY <1>c, <1>f, PeersAreNumbers DEF Fresh
  <2> QED BY <1>t, <2>1 DEF IInv, Arrivals
<1>5. Table'
  <2>1. ASSUME NEW q \in Peers, conn'[q].sender # "none"
        PROVE  \E i \in 1 .. Len(table') : table'[i] = q
    <3>1. CASE q = a
      BY <1>n, <3>1
    <3>2. CASE q # a
      <4>1. PICK i \in 1 .. Len(table) : table[i] = q
        BY <1>c, <2>1, <3>2 DEF IInv, Table
      <4> QED BY <1>n, <4>1
    <3> QED BY <3>1, <3>2
  <2>2. joined' = 0 /\ 1 .. joined' = {} /\ joined' <= Len(table')
    BY <1>t, <1>n
  <2>3. stage' \notin {"waiting", "ended"} /\ main' # "destroyed"
    BY <1>t
  <2> QED BY <1>g, <2>1, <2>2, <2>3 DEF Table
<1> QED BY <1>t, <1>1, <1>2, <1>3, <1>4, <1>5 DEF IInv

\* A step that shuts a connection down, or does nothing to any of them.
LEMMA QuietStepKeepsInvariant ==
  ASSUME IInv, conn' \in [Peers -> Connections],
         \A q \in Peers : /\ conn'[q].fd = conn[q].fd /\ conn'[q].sender = conn[q].sender
                          /\ Sound(q, conn[q])' /\ (Runs(q)' => Runs(q)),
         UNCHANGED <<presence, backlog, files, connection, table, capacity, stale, misplayed>>,
         stage' \in {"reading", "spinning"} <=> stage \in {"reading", "spinning"},
         Table => /\ joined' \in Nat /\ joined' <= Len(table)
                  /\ stage' \notin {"joining", "waiting", "ended"} => joined' = 0
                  /\ stage' = "waiting" => joined' < Len(table)
                  /\ \A i \in 1 .. joined' : ~Runs(table[i])
                  /\ stage' = "ended" => joined' = Len(table)
                  /\ main' = "destroyed" => stage' = "ended"
  PROVE  IInv'
<1>t. conn \in [Peers -> Connections] /\ table \in Seq(Peers)
  BY DEF IInv, Types
<1>1. Types'
  BY DEF IInv, Types
<1>3. Files'
  <2>1. \A q \in Peers : Open(q)' <=> Open(q)
    BY DEF Open, Reading
  <2> QED BY <2>1 DEF IInv, Files
<1>4. Arrivals'
  <2>1. \A q \in Peers : Fresh(q)' <=> Fresh(q)
    BY DEF Fresh
  <2> QED BY <2>1 DEF IInv, Arrivals
<1>5. Table'
  <2>1. \A i \in 1 .. joined' : ~Runs(table[i])'
    <3> SUFFICES ASSUME NEW i \in 1 .. joined' PROVE ~Runs(table[i])'
      OBVIOUS
    <3>1. i \in 1 .. Len(table) /\ ~Runs(table[i])
      BY <1>t DEF IInv
    <3>2. PICK q \in Peers : q = table[i]
      BY <1>t, <3>1
    <3> QED BY <3>1, <3>2 DEF Runs
  <2> QED BY <2>1 DEF IInv, Table
<1> QED BY <1>1, <1>3, <1>4, <1>5 DEF IInv

LEMMA ShutDownNextKeepsInvariant ==
  ASSUME IInv, ShutDownNext
  PROVE  IInv'
<1>t. /\ conn \in [Peers -> Connections] /\ table \in Seq(Peers) /\ joined \in Nat
      /\ stage = "joining" /\ stage' = "waiting" /\ joined < Len(table)
      /\ UNCHANGED <<presence, backlog, files, connection, table, capacity, joined, stale, main, misplayed>>
  BY DEF IInv, Types, ShutDownNext, Handler, peerVars
<1>p. joined + 1 \in 1 .. Len(table) /\ table[joined + 1] \in Peers
  BY <1>t
<1>e. PICK p \in Peers : p = table[joined + 1]
  BY <1>p
<1>o. conn[p] \in Connections /\ Sound(p, conn[p])
  BY <1>t DEF IInv
<1>1. \E c \in IF p \in stale THEN Interrupted(conn[p]) ELSE ShutDown(conn[p]) :
        conn' = [conn EXCEPT ![p] = c]
  BY <1>e DEF ShutDownNext
<1>2. ASSUME NEW c, conn' = [conn EXCEPT ![p] = c],
             c \in Connections, Sound(p, c), c.fd = conn[p].fd, c.sender = conn[p].sender,
             c.receiver = conn[p].receiver \/ c.receiver = "ended"
      PROVE  IInv'
  <2>1. conn' \in [Peers -> Connections] /\ conn'[p] = c /\ \A q \in Peers \ {p} : conn'[q] = conn[q]
    BY <1>t, <1>2
  <2>2. \A q \in Peers : /\ conn'[q].fd = conn[q].fd /\ conn'[q].sender = conn[q].sender
                         /\ Sound(q, conn[q])' /\ (Runs(q)' => Runs(q))
    BY <1>2, <2>1 DEF IInv, Sound, Runs
  <2>3. Table => main' # "destroyed"
    BY <1>t DEF Table
  <2> QED BY <1>t, <2>1, <2>2, <2>3, QuietStepKeepsInvariant DEF Table
<1>3. CASE \E c \in Interrupted(conn[p]) : conn' = [conn EXCEPT ![p] = c]
  <2>1. PICK c \in Interrupted(conn[p]) : conn' = [conn EXCEPT ![p] = c]
    BY <1>3
  <2> DEFINE d == [conn[p] EXCEPT !.receiver = "ended"]
  <2>2. c \in Connections /\ (c = conn[p] \/ (conn[p].receiver = "blocked" /\ c = d))
    BY <1>o, <2>1, InterruptedConnection
  <2>3. /\ d.fd = conn[p].fd /\ d.sender = conn[p].sender /\ d.source = conn[p].source
        /\ d.receiver = "ended"
    BY <1>o DEF Connections
  <2>4. d.registered = conn[p].registered /\ d.shutdown = conn[p].shutdown
    BY <1>o DEF Connections
  <2> HIDE DEF d
  <2>5. Sound(p, c)
    BY <1>o, <2>2, <2>3, <2>4 DEF Sound
  <2> QED BY <1>2, <2>1, <2>2, <2>3, <2>5
<1>4. CASE \E c \in ShutDown(conn[p]) : conn' = [conn EXCEPT ![p] = c]
  BY <1>2, <1>4, <1>o, ShutDownConnection, ShutDownIsSound
<1> QED BY <1>1, <1>3, <1>4

\* The rest of what the handler and the main thread do.
LEMMA OtherStepsKeepInvariant ==
  ASSUME IInv, Spin \/ Join \/ CloseListening \/ EndGame \/ SetShutdown \/ Destroy
  PROVE  IInv'
<1>t. conn \in [Peers -> Connections] /\ table \in Seq(Peers) /\ joined \in Nat
  BY DEF IInv, Types
<1>u. UNCHANGED <<presence, backlog, files, conn, connection, table, capacity, stale, misplayed>>
  BY DEF Spin, Join, CloseListening, EndGame, SetShutdown, Destroy, Main, peerVars, handlerVars
<1>q. \A q \in Peers : /\ conn'[q].fd = conn[q].fd /\ conn'[q].sender = conn[q].sender
                       /\ Sound(q, conn[q])' /\ (Runs(q)' => Runs(q))
  BY <1>u DEF IInv, Sound, Runs
<1>1. CASE Spin
  <2>1. stage = "reading" /\ stage' = "spinning" /\ UNCHANGED <<main, joined>>
    BY <1>1 DEF Spin, Handler
  <2> QED BY <1>t, <1>u, <1>q, <2>1, QuietStepKeepsInvariant DEF Table
<1>2. CASE Join
  <2>1. /\ stage = "waiting" /\ stage' = "joining" /\ main' = main /\ joined' = joined + 1
        /\ ~Runs(table[joined + 1])
    BY <1>2 DEF Join, Handler
  <2>2. Table => /\ joined' <= Len(table) /\ main' # "destroyed"
                 /\ \A i \in 1 .. joined' : ~Runs(table[i])
    <3> SUFFICES ASSUME Table
                 PROVE  /\ joined' <= Len(table) /\ main' # "destroyed"
                        /\ \A i \in 1 .. joined' : ~Runs(table[i])
      OBVIOUS
    <3>1. joined' <= Len(table) /\ main' # "destroyed" /\ \A i \in 1 .. joined : ~Runs(table[i])
      BY <1>t, <2>1 DEF Table
    <3>2. \A i \in 1 .. joined' : i = joined + 1 \/ i \in 1 .. joined
      BY <1>t, <2>1
    <3> QED BY <2>1, <3>1, <3>2
  <2> QED BY <1>t, <1>u, <1>q, <2>1, <2>2, QuietStepKeepsInvariant
<1>3. CASE CloseListening
  <2>1. /\ stage = "joining" /\ stage' = "ended" /\ UNCHANGED <<main, joined>> /\ joined = Len(table)
    BY <1>3 DEF CloseListening, Handler
  <2> QED BY <1>t, <1>u, <1>q, <2>1, QuietStepKeepsInvariant DEF Table
<1>4. CASE EndGame \/ SetShutdown \/ Destroy
  <2>1. UNCHANGED <<stage, joined>> /\ (main' = "destroyed" => stage = "ended")
    BY <1>4 DEF EndGame, SetShutdown, Destroy, Main, handlerVars
  <2> QED BY <1>t, <1>u, <1>q, <2>1, QuietStepKeepsInvariant DEF Table
<1> QED BY <1>1, <1>2, <1>3, <1>4

LEMMA SignalKeepsInvariant ==
  ASSUME IInv, Signal
  PROVE  IInv'
<1>t. conn \in [Peers -> Connections] /\ joined \in Nat
  BY DEF IInv, Types
<1>u. /\ main = "flagged" /\ main' = "signalled"
      /\ UNCHANGED <<presence, backlog, conn, connection, table, capacity, joined, stale, misplayed>>
  BY DEF Signal, Main, peerVars
<1>q. \A q \in Peers : /\ conn'[q].fd = conn[q].fd /\ conn'[q].sender = conn[q].sender
                       /\ Sound(q, conn[q])' /\ (Runs(q)' => Runs(q))
  BY <1>u DEF IInv, Sound, Runs
<1>1. CASE stage = "accepting" /\ stage' = "joining" /\ UNCHANGED files
  BY <1>t, <1>u, <1>q, <1>1, QuietStepKeepsInvariant DEF Table
<1>2. CASE stage = "reading" /\ stage' = "joining" /\ CloseAccepted
  BY <1>u, <1>2, RejectionKeepsInvariant
<1>3. CASE UNCHANGED <<stage, files>>
  BY <1>t, <1>u, <1>q, <1>3, QuietStepKeepsInvariant DEF Table
<1> QED BY <1>1, <1>2, <1>3 DEF Signal

-----------------------------------------------------------------------------
(* All steps, and what follows.                                            *)

LEMMA StepKeepsInvariant == IInv /\ [Next]_vars => IInv'
<1> SUFFICES ASSUME IInv, [Next]_vars PROVE IInv'
  OBVIOUS
<1>1. CASE HandlerRuns \/ AcceptFails
  <2>1. CASE Reject
    <3>1. /\ stage = "reading" /\ stage' \in {"accepting", "joining"} /\ CloseAccepted
          /\ UNCHANGED <<presence, backlog, connection, table, capacity, joined, stale, conn, misplayed, main>>
      BY <2>1 DEF Reject, Handler, Loop, peerVars
    <3> QED BY <3>1, RejectionKeepsInvariant
  <2> QED
    BY <1>1, <2>1, AcceptKeepsInvariant, LastAcceptKeepsInvariant, AdmitKeepsInvariant,
       ShutDownNextKeepsInvariant, OtherStepsKeepInvariant DEF HandlerRuns
<1>2. CASE EndGame \/ SetShutdown \/ Signal \/ Destroy
  BY <1>2, OtherStepsKeepInvariant, SignalKeepsInvariant
<1>3. ASSUME NEW p \in Peers, Connect(p) \/ Leave(p)
      PROVE  IInv'
  BY <1>3, ConnectKeepsInvariant, LeaveKeepsInvariant
<1>4. ASSUME NEW p \in Peers, SenderRuns(p) \/ ReceiverRuns(p)
      PROVE  IInv'
  BY <1>4, SenderSteps, ReceiverSteps, ThreadKeepsInvariant
<1>5. CASE UNCHANGED <<peerVars, handlerVars, files, main, conn, misplayed>>
  <2>1. UNCHANGED <<presence, backlog, stage, connection, table, capacity, joined, stale>>
    BY <1>5 DEF peerVars, handlerVars
  <2>2. \A q \in Peers : /\ conn'[q].fd = conn[q].fd /\ conn'[q].sender = conn[q].sender
                         /\ Sound(q, conn[q])' /\ (Runs(q)' => Runs(q))
    BY <1>5 DEF IInv, Sound, Runs
  <2> QED BY <1>5, <2>1, <2>2, QuietStepKeepsInvariant DEF Table, IInv, Types
<1>6. ASSUME NEW p \in Peers, UseFreedMemory(p)
      PROVE  IInv'
  BY <1>5, <1>6 DEF UseFreedMemory
<1>7. CASE UNCHANGED vars
  BY <1>5, <1>7 DEF vars
<1> QED BY <1>1, <1>2, <1>3, <1>4, <1>6, <1>7 DEF Next

\* For any number of peers: no descriptor that is used again, however late its
\* old number is read from, makes a message move another player's snake.
THEOREM PlayersAreTheirOwn == Spec => []NobodyPlaysForAnother
<1>1. IInv => NobodyPlaysForAnother
  BY DEF IInv, NobodyPlaysForAnother
<1> QED BY <1>1, InitialInvariant, StepKeepsInvariant, PTL DEF Spec

\* For any number of peers and any capacity: the table always has room for what
\* is written, its threads lose it only by its growth, and what the main thread
\* frees at the end has no thread left, so that no step after it can use it.
THEOREM MemoryIsFreedLast == Spec => []MemoryOutlivesThreads
<1>1. IInv => MemoryOutlivesThreads
  <2> SUFFICES ASSUME IInv PROVE MemoryOutlivesThreads
    OBVIOUS
  <2>1. ASSUME main = "destroyed", NEW p \in Peers PROVE ~Runs(p)
    <3>1. joined = Len(table) /\ \A i \in 1 .. joined : ~Runs(table[i])
      BY <2>1 DEF IInv, Table
    <3>2. CASE conn[p].sender = "none"
      BY <3>2 DEF IInv, Sound, Runs
    <3>3. CASE conn[p].sender # "none"
      BY <3>1, <3>3 DEF IInv, Table
    <3> QED BY <3>2, <3>3
  <2> QED BY <2>1 DEF IInv, Table, MemoryOutlivesThreads
<1> QED BY <1>1, InitialInvariant, StepKeepsInvariant, PTL DEF Spec
=============================================================================
