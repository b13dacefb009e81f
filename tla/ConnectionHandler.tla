-------------------------- MODULE ConnectionHandler --------------------------
(***************************************************************************)
(* The thread of server/client_connection_handler.c: it accepts one peer   *)
(* after the other, waits for its magic bytes, and keeps a table of the    *)
(* connections, whose two threads (client_connection.c, of which only the  *)
(* life is here: what they tell is in ClientConnection) hold pointers into *)
(* the table and the number of a descriptor that is used again when one of *)
(* them has closed it.  The main thread ends all of it.                    *)
(***************************************************************************)
EXTENDS Naturals, SequencesExt

CONSTANTS
  MaxPeers,         \* bound of the model: how many connect, each once
  InitialCapacity   \* of the table, 4 in the code

ASSUME HandlerAssumption ==
  MaxPeers \in Nat /\ InitialCapacity \in Nat \ {0}

VARIABLES
  presence,   \* of each peer: "away", "open" or "gone"
  backlog,    \* peers the kernel has connected, and nobody accepted
  files,      \* whose connection each descriptor stands for
  main,       \* where the main thread is
  stage,      \* where the handler's thread is
  connection, \* what its loop has accepted
  table,      \* connections_, as the peers they have been made for
  capacity,   \* connections_capacity_
  joined,     \* how many of them the handler has destroyed
  conn,       \* each connection as its threads see it
  stale,      \* the connections whose threads point to where the table once was
  crashed,    \* such a thread has brought the server down
  misplayed,  \* history: a message has been taken for that of another player
  acceptFailed  \* history: an accept has failed by itself

peerVars == <<presence, backlog>>
handlerVars == <<stage, connection, table, capacity, joined, stale>>
history == <<misplayed, acceptFailed>>
vars == <<peerVars, handlerVars, files, main, conn, crashed, history>>

\* The peers are named in the order in which they come.
Peers == 1 .. MaxPeers
Nobody == 0

Descriptors == 1 .. MaxPeers
FreeDescriptor == CHOOSE d \in Descriptors :
  files[d] = Nobody /\ \A e \in 1 .. d - 1 : files[e] # Nobody

Unborn == [fd |-> 0, sender |-> "none", receiver |-> "none", source |-> Nobody,
           registered |-> FALSE, shutdown |-> FALSE]

Runs(p) == conn[p].sender \notin {"none", "ended"} \/ conn[p].receiver \notin {"none", "ended"}

shutdown == main \in {"flagged", "signalled", "destroyed"}  \* of the handler
gameEnded == main # "running"

-----------------------------------------------------------------------------
(* The peers.  What they say is not in the state: a read of a connection  *)
(* gives any message, also when its peer has gone since; it blocks when    *)
(* there is none and the peer has not gone, and else gives no bytes or an  *)
(* error.                                                                  *)

Connect(p) ==
  /\ presence[p] = "away" /\ stage # "ended" /\ ~crashed
  /\ \A q \in 1 .. p - 1 : presence[q] # "away"
  /\ presence' = [presence EXCEPT ![p] = "open"]
  /\ backlog' = Append(backlog, p)
  /\ UNCHANGED <<handlerVars, files, main, conn, crashed, history>>

Leave(p) ==
  /\ presence[p] = "open" /\ ~crashed
  /\ presence' = [presence EXCEPT ![p] = "gone"]
  /\ UNCHANGED <<backlog, handlerVars, files, main, conn, crashed, history>>

MayBlock(p) == presence[p] = "open"
MayGiveNothing(p) == presence[p] = "gone"

-----------------------------------------------------------------------------
(* client_connection_shutdown for the connection c, as one of its threads  *)
(* sees it, and what its signal does to a read.                            *)

Interrupted(c) ==
  {c} \cup IF c.receiver = "blocked" /\ MayBlock(c.source) THEN {[c EXCEPT !.receiver = "ended"]} ELSE {}

ShutDown(c) == IF c.shutdown THEN {c} ELSE Interrupted([c EXCEPT !.shutdown = TRUE])

-----------------------------------------------------------------------------
(* The handler's thread: one action is what it does from one call that may *)
(* block to the next.                                                      *)

Handler(from, to) == stage = from /\ ~crashed /\ stage' = to

\* The look at the flag before the next accept.
Loop == IF shutdown THEN "joining" ELSE "accepting"

Accept ==
  /\ Handler("accepting", "reading") /\ backlog # <<>> /\ ~shutdown
  /\ connection' = Head(backlog)
  /\ backlog' = Tail(backlog)
  /\ files' = [files EXCEPT ![FreeDescriptor] = Head(backlog)]
  /\ conn' = [conn EXCEPT ![Head(backlog)].fd = FreeDescriptor]
  /\ UNCHANGED <<presence, table, capacity, joined, stale, main, crashed, history>>

\* What has been accepted is closed again, with the flag set.
AcceptTooLate ==
  /\ Handler("accepting", "joining") /\ backlog # <<>> /\ shutdown
  /\ backlog' = Tail(backlog)
  /\ UNCHANGED <<presence, files, connection, table, capacity, joined, stale, main,
                 conn, crashed, history>>

\* Any error but the signal's: a peer that has gone since it came, or no room for
\* another descriptor, which has nothing to do with any peer.  The loop ends,
\* whether the game does or not.
AcceptFails ==
  /\ Handler("accepting", "joining")
  /\ \/ UNCHANGED backlog
     \/ backlog # <<>> /\ MayGiveNothing(Head(backlog)) /\ backlog' = Tail(backlog)
  /\ acceptFailed' = TRUE
  /\ UNCHANGED <<presence, files, connection, table, capacity, joined, stale, main, conn,
                 crashed, misplayed>>

CloseAccepted == files' = [files EXCEPT ![conn[connection].fd] = Nobody]

\* Mutant of the next: the first stranger ends the loop.
RejectForGood ==
  /\ Handler("reading", "joining")
  /\ CloseAccepted
  /\ UNCHANGED <<peerVars, connection, table, capacity, joined, stale, main, conn,
                 crashed, history>>

\* Other bytes, or an error.
Reject ==
  /\ Handler("reading", Loop)
  /\ CloseAccepted
  /\ UNCHANGED <<peerVars, connection, table, capacity, joined, stale, main, conn,
                 crashed, history>>

\* The peer has gone without a word: each read gives no bytes, and there is
\* always another one.
Spin ==
  /\ Handler("reading", "spinning") /\ MayGiveNothing(connection)
  /\ UNCHANGED <<peerVars, files, connection, table, capacity, joined, stale, main, conn, crashed,
                 history>>

\* realloc may give the table another place, and the old one to somebody else.
Grow ==
  IF Len(table) = capacity
  THEN capacity' = 2 * capacity /\ stale' \in {stale, ToSet(table)}
  ELSE UNCHANGED <<capacity, stale>>

\* client_connection_init
Start == conn' = [conn EXCEPT ![connection].sender = "starting", ![connection].receiver = "checking"]

\* Mutant of the next: the table does not grow.
AdmitWithoutGrowing ==
  /\ Handler("reading", Loop)
  /\ table' = Append(table, connection)
  /\ Start
  /\ UNCHANGED <<peerVars, files, connection, capacity, stale, joined, main, crashed,
                 history>>

Admit ==
  /\ Handler("reading", Loop)
  /\ Grow
  /\ table' = Append(table, connection)
  /\ Start
  /\ UNCHANGED <<peerVars, files, connection, joined, main, crashed, history>>

\* client_connection_destroy, up to its joins.  Where the table has moved the
\* flag in it may be an older one, and no thread sees what is set there.
ShutDownNext ==
  /\ Handler("joining", "waiting") /\ joined < Len(table)
  /\ LET p == table[joined + 1]
     IN  \E c \in IF p \in stale THEN Interrupted(conn[p]) ELSE ShutDown(conn[p]) :
           conn' = [conn EXCEPT ![p] = c]
  /\ UNCHANGED <<peerVars, files, connection, table, capacity, joined, stale, main, crashed, history>>

Join ==
  /\ Handler("waiting", "joining") /\ ~Runs(table[joined + 1])
  /\ joined' = joined + 1
  /\ UNCHANGED <<peerVars, files, connection, table, capacity, stale, main, conn, crashed, history>>

CloseListening ==
  /\ Handler("joining", "ended") /\ joined = Len(table)
  /\ UNCHANGED <<peerVars, files, connection, table, capacity, joined, stale, main, conn, crashed,
                 history>>

HandlerRuns ==
  \/ Accept \/ AcceptTooLate \/ Reject \/ Spin \/ Admit
  \/ ShutDownNext \/ Join \/ CloseListening

-----------------------------------------------------------------------------
(* The threads of a connection: the one that sends.                        *)

Sender(p, from, to) == conn[p].sender \in from /\ ~crashed /\ conn' = [conn EXCEPT ![p] = to]

ThreadOnly == UNCHANGED <<peerVars, handlerVars, main, crashed, history>>

\* Whether there is a slot depends on all the players (PlayerSlots).
Register(p) ==
  /\ \/ Sender(p, {"starting"}, [conn[p] EXCEPT !.sender = "playing", !.registered = TRUE])
     \/ Sender(p, {"starting"}, [conn[p] EXCEPT !.sender = "full"])
  /\ UNCHANGED files /\ ThreadOnly

\* What is written to a peer that has gone may fail.
WriteFails(p) ==
  /\ presence[p] = "gone"
  /\ \E c \in ShutDown(conn[p]) : Sender(p, {"playing", "full"}, c)
  /\ UNCHANGED files /\ ThreadOnly

\* Mutant of the next: the other thread is not told.
UnregisterQuietly(p) ==
  /\ conn[p].shutdown \/ gameEnded
  /\ Sender(p, {"playing"}, [conn[p] EXCEPT !.sender = "closing"])
  /\ UNCHANGED files /\ ThreadOnly

Unregister(p) ==
  /\ conn[p].shutdown \/ gameEnded
  /\ \E c \in ShutDown([conn[p] EXCEPT !.sender = "closing"]) : Sender(p, {"playing"}, c)
  /\ UNCHANGED files /\ ThreadOnly

\* Mutant of the next: who is turned away keeps the descriptor.
CloseForPlayers(p) ==
  /\ Sender(p, {"closing", "full"}, [conn[p] EXCEPT !.sender = "ended"])
  /\ files' = IF conn[p].registered THEN [files EXCEPT ![conn[p].fd] = Nobody] ELSE files
  /\ ThreadOnly

Close(p) ==
  /\ Sender(p, {"closing", "full"}, [conn[p] EXCEPT !.sender = "ended"])
  /\ files' = [files EXCEPT ![conn[p].fd] = Nobody]
  /\ ThreadOnly

SenderRuns(p) == Register(p) \/ WriteFails(p) \/ Unregister(p) \/ Close(p)

-----------------------------------------------------------------------------
(* The one that receives.                                                  *)

Receiver(p, from, c) == conn[p].receiver = from /\ ~crashed /\ conn' = [conn EXCEPT ![p] = c]

CheckShutdown(p) ==
  /\ Receiver(p, "checking", [conn[p] EXCEPT !.receiver = IF conn[p].shutdown THEN "ended" ELSE "calling"])
  /\ UNCHANGED files /\ ThreadOnly

\* The number of the descriptor may stand for nothing, or for another socket.
BeginRead(p) ==
  /\ LET file == files[conn[p].fd]
     IN  Receiver(p, "calling", IF file = Nobody THEN [conn[p] EXCEPT !.receiver = "ended"]
                                ELSE [conn[p] EXCEPT !.receiver = "blocked", !.source = file])
  /\ UNCHANGED files /\ ThreadOnly

\* A message, and what is done with it: a move is the player's operation, a
\* disconnect or what is not expected ends the connection.
Receive(p, isMove) ==
  LET c == conn[p]
      ended == [c EXCEPT !.receiver = "ended"]
      acts == ~c.shutdown /\ isMove /\ c.registered
  IN  /\ \E d \in IF acts THEN {[c EXCEPT !.receiver = "checking"]} ELSE ShutDown(ended) :
           Receiver(p, "blocked", IF c.shutdown THEN ended ELSE d)
      /\ misplayed' = (misplayed \/ (acts /\ c.source # p))
      /\ UNCHANGED <<peerVars, handlerVars, files, main, crashed, acceptFailed>>

\* No bytes, and another read; or an error.
ReceiveNothing(p) ==
  /\ conn[p].receiver = "blocked" /\ MayGiveNothing(conn[p].source)
  /\ \E to \in {"calling", "ended"} : Receiver(p, "blocked", [conn[p] EXCEPT !.receiver = to])
  /\ UNCHANGED files /\ ThreadOnly

ReceiverRuns(p) ==
  CheckShutdown(p) \/ BeginRead(p) \/ ReceiveNothing(p) \/ \E isMove \in BOOLEAN : Receive(p, isMove)

\* A thread whose connection is not where it thinks may do anything; that it
\* finds what was there before is in the other actions.
UseFreedMemory(p) ==
  /\ p \in stale /\ Runs(p) /\ ~crashed
  /\ crashed' = TRUE
  /\ UNCHANGED <<peerVars, handlerVars, files, main, conn, history>>

-----------------------------------------------------------------------------
(* The main thread.                                                        *)

Main(from, to) == main = from /\ ~crashed /\ main' = to /\ UNCHANGED <<peerVars, conn, crashed, history>>

EndGame == Main("running", "ended") /\ UNCHANGED <<handlerVars, files>>

SetShutdown == Main("ended", "flagged") /\ UNCHANGED <<handlerVars, files>>

\* The signal ends an accept or a read, if the handler is in it already.
Signal ==
  /\ Main("flagged", "signalled")
  /\ \/ stage = "accepting" /\ backlog = <<>> /\ stage' = "joining" /\ UNCHANGED files
     \/ stage = "reading" /\ MayBlock(connection) /\ stage' = "joining" /\ CloseAccepted
     \/ UNCHANGED <<stage, files>>
  /\ UNCHANGED <<connection, table, capacity, joined, stale>>

\* With what server_destroy frees after it.
Destroy == stage = "ended" /\ Main("signalled", "destroyed") /\ UNCHANGED <<handlerVars, files>>

-----------------------------------------------------------------------------
Init ==
  /\ presence = [p \in Peers |-> "away"]
  /\ backlog = <<>>
  /\ files = [d \in Descriptors |-> Nobody]
  /\ main = "running"
  /\ stage = "accepting" /\ connection = Nobody
  /\ table = <<>> /\ capacity = InitialCapacity /\ joined = 0
  /\ conn = [p \in Peers |-> Unborn]
  /\ stale = {} /\ crashed = FALSE /\ misplayed = FALSE /\ acceptFailed = FALSE

Next ==
  \/ HandlerRuns \/ AcceptFails \/ EndGame \/ SetShutdown \/ Signal \/ Destroy
  \/ \E p \in Peers : Connect(p) \/ Leave(p) \/ SenderRuns(p) \/ ReceiverRuns(p) \/ UseFreedMemory(p)

Spec == Init /\ [][Next]_vars

\* Every thread runs, and every peer goes at some time; no accept has to fail.
FairSpec ==
  /\ Spec
  /\ WF_vars(HandlerRuns)
  /\ WF_vars(SetShutdown \/ Signal \/ Destroy)
  /\ \A p \in Peers :
       /\ WF_vars(SenderRuns(p))
       /\ WF_vars(ReceiverRuns(p))
       /\ WF_vars(Leave(p))

-----------------------------------------------------------------------------
\* The table is never written behind its end; the connections' threads lose
\* their place in it only when more peers have been admitted than it had room
\* for at first; and none of them runs when the memory they use is freed.
MemoryOutlivesThreads ==
  /\ Len(table) <= capacity
  /\ stale # {} => Len(table) > InitialCapacity
  /\ main = "destroyed" => \A p \in Peers : ~Runs(p)

\* A thread that still reads when its descriptor has been given to another
\* connection may take that one's messages away, but it never plays them for
\* the player it is there for.
NobodyPlaysForAnother == ~misplayed

\* The server has crashed, or the handler spins on the connection of a peer who
\* has gone without a word.
IsStuck == crashed \/ stage = "spinning"

\* Nobody who has connected waits for ever to be heard, whatever the peers before
\* it do or do not say, unless one of them has gone before it said anything, the handler is told
\* to end, or one accept has failed: after that nobody is heard any more.
EveryoneIsHeard ==
  \A p \in Peers :
    []<>(p \notin ToSet(backlog) \/ IsStuck \/ shutdown \/ acceptFailed)

\* The server ends when the game has: the signal may miss the accept it is to
\* interrupt, but then any peer that comes ends it as well.
ServerEnds ==
  main = "flagged" ~>
    main = "destroyed" \/ IsStuck \/ (stage = "accepting" /\ backlog = <<>>)
=============================================================================
