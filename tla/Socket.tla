------------------------------- MODULE Socket -------------------------------
(***************************************************************************)
(* One connection as libsnake/socket/socket.c and socket_message.c use it: *)
(* a stream of whole messages in each direction.  A message is written and *)
(* read in one step; what its bytes are is left out.                       *)
(*                                                                         *)
(* The kernel's side: a stream has room for BufferSize messages, a write   *)
(* blocks while there is none, and a read while there is no message.  The  *)
(* end of the stream does not end a read: socket_read takes its 0 bytes    *)
(* for a short read and tries again.  A side that closes with messages     *)
(* unread, or is written to after it has closed, resets the connection;    *)
(* then what has been received can still be read, and all else fails.      *)
(***************************************************************************)
EXTENDS Naturals, Sequences

CONSTANT BufferSize

ASSUME SocketAssumption == BufferSize \in Nat \ {0}

VARIABLES
  toClient,      \* messages the client has not read yet
  toServer,      \* messages the server has not read yet
  clientClosed,  \* the client has closed its socket
  serverClosed,  \* the server has closed its socket
  reset          \* the connection is broken

socketVars == <<toClient, toServer, clientClosed, serverClosed, reset>>

SocketInit ==
  /\ toClient = <<>>
  /\ toServer = <<>>
  /\ clientClosed = FALSE
  /\ serverClosed = FALSE
  /\ reset = FALSE

-----------------------------------------------------------------------------
(* The server's end.                                                       *)

SendToClient(m) ==
  /\ ~reset
  /\ Len(toClient) < BufferSize
  /\ toClient' = IF clientClosed THEN toClient ELSE Append(toClient, m)
  /\ reset' = clientClosed
  /\ UNCHANGED <<toServer, clientClosed, serverClosed>>

\* The next message from the client.
ServerReads ==
  /\ toServer # <<>>
  /\ toServer' = Tail(toServer)
  /\ UNCHANGED <<toClient, clientClosed, serverClosed, reset>>

\* A read that began before the socket was closed goes on until the stream
\* ends; the next one then finds no socket.
ServerReadFails ==
  /\ toServer = <<>>
  /\ reset \/ (clientClosed /\ serverClosed)

CloseServerSide ==
  /\ serverClosed' = TRUE
  /\ reset' = (reset \/ toServer # <<>>)
  /\ UNCHANGED <<toClient, toServer, clientClosed>>

-----------------------------------------------------------------------------
(* The client's end.                                                       *)

SendToServer(m) ==
  /\ ~reset
  /\ Len(toServer) < BufferSize
  /\ toServer' = IF serverClosed THEN toServer ELSE Append(toServer, m)
  /\ reset' = serverClosed
  /\ UNCHANGED <<toClient, clientClosed, serverClosed>>

ClientReads ==
  /\ toClient # <<>>
  /\ toClient' = Tail(toClient)
  /\ UNCHANGED <<toServer, clientClosed, serverClosed, reset>>

ClientReadFails == toClient = <<>> /\ reset

CloseClientSide ==
  /\ clientClosed' = TRUE
  /\ reset' = (reset \/ toClient # <<>>)
  /\ UNCHANGED <<toClient, toServer, serverClosed>>
=============================================================================
