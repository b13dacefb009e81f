----------------------------- MODULE PlayerSlots -----------------------------
(***************************************************************************)
(* Who owns which slot: the clients and the server's tick around the       *)
(* player_manager_t they share, one mutex of a slot at a time.             *)
(*                                                                         *)
(* A client is one connection of the socket server, or one process of a    *)
(* shared-memory room.  Its main thread registers, and unregisters when it *)
(* leaves; its second thread (the receive thread of a connection, the      *)
(* input thread of a process) calls the other operations.  The server      *)
(* locks all the slots one after the other, gives each its turn, and       *)
(* releases them one after the other.  Directions and the map are left     *)
(* out: a turn may have any outcome that the status allows.                *)
(***************************************************************************)
EXTENDS PlayerManager

CONSTANT Clients

VARIABLES
  phase,     \* of each client: what its main thread is doing
  slot,      \* of each client: the slot it tries, and then its player_id_
  handling,  \* of each client: its second thread is about to do an operation
  sweep,     \* what player_manager_for_each is doing
  index      \* its loop counter

slotsVars == <<players, phase, slot, handling, sweep, index>>

Phases == {"outside", "searching", "registered", "left", "crashed"}
Sweeps == {"away", "acquire", "process", "release"}

Init ==
  /\ PlayerManagerInit
  /\ phase = [c \in Clients |-> "outside"]
  /\ slot = [c \in Clients |-> 0]
  /\ handling = [c \in Clients |-> FALSE]
  /\ sweep = "away"
  /\ index = 0

\* The server holds the mutex of the slot.
IsHeld(p) ==
  \/ sweep = "acquire" /\ p < index
  \/ sweep = "process"
  \/ sweep = "release" /\ p >= index

Owns(c) == phase[c] \in {"registered", "crashed"}

-----------------------------------------------------------------------------
(* The clients.                                                            *)

ServerUnchanged == UNCHANGED <<sweep, index>>

Connect(c) ==
  /\ phase[c] = "outside"
  /\ phase' = [phase EXCEPT ![c] = "searching"]
  /\ slot' = [slot EXCEPT ![c] = 0]
  /\ UNCHANGED <<players, handling>> /\ ServerUnchanged

\* Mutant of the next: the status of the slot is not looked at.
TakeAnySlot(c) ==
  /\ phase[c] = "searching"
  /\ slot[c] \in PlayerIds
  /\ ~IsHeld(slot[c])
  /\ players' = [players EXCEPT ![slot[c]] = [status |-> "Joining", direction |-> "up"]]
  /\ phase' = [phase EXCEPT ![c] = "registered"]
  /\ UNCHANGED <<slot, handling>> /\ ServerUnchanged

TakeSlot(c) ==
  /\ phase[c] = "searching"
  /\ slot[c] \in PlayerIds
  /\ ~IsHeld(slot[c])
  /\ HasStatus(slot[c], {"NotConnected"})
  /\ players' = [players EXCEPT ![slot[c]] = [status |-> "Joining", direction |-> "up"]]
  /\ phase' = [phase EXCEPT ![c] = "registered"]
  /\ UNCHANGED <<slot, handling>> /\ ServerUnchanged

PassSlot(c) ==
  /\ phase[c] = "searching"
  /\ slot[c] \in PlayerIds
  /\ ~IsHeld(slot[c])
  /\ ~HasStatus(slot[c], {"NotConnected"})
  /\ slot' = [slot EXCEPT ![c] = @ + 1]
  /\ UNCHANGED <<players, phase, handling>> /\ ServerUnchanged

\* The client is told that the game is full.
GiveUp(c) ==
  /\ phase[c] = "searching"
  /\ slot[c] = MaxPlayers
  /\ phase' = [phase EXCEPT ![c] = "outside"]
  /\ UNCHANGED <<players, slot, handling>> /\ ServerUnchanged

\* The second thread has a message or a key, and its client has not left.
BeginOperation(c) ==
  /\ phase[c] = "registered"
  /\ ~handling[c]
  /\ handling' = [handling EXCEPT ![c] = TRUE]
  /\ UNCHANGED <<players, phase, slot>> /\ ServerUnchanged

\* Mutant of the next: the second thread may unregister the player, too.
FinishOperationOrUnregister(c) ==
  /\ handling[c]
  /\ ~IsHeld(slot[c])
  /\ Pause(slot[c]) \/ Unpause(slot[c]) \/ Respawn(slot[c]) \/ Unregister(slot[c])
  /\ handling' = [handling EXCEPT ![c] = FALSE]
  /\ UNCHANGED <<phase, slot>> /\ ServerUnchanged

\* Mutant of the next: the operation does not wait for the slot's mutex.
FinishOperationUnlocked(c) ==
  /\ handling[c]
  /\ Pause(slot[c]) \/ Unpause(slot[c]) \/ Respawn(slot[c]) \/ UNCHANGED players
  /\ handling' = [handling EXCEPT ![c] = FALSE]
  /\ UNCHANGED <<phase, slot>> /\ ServerUnchanged

\* It acts on the slot whoever has it by now.  An operation that the status
\* does not allow does nothing; nor, to the status, does a direction.
FinishOperation(c) ==
  /\ handling[c]
  /\ ~IsHeld(slot[c])
  /\ \/ Pause(slot[c])
     \/ Unpause(slot[c])
     \/ Respawn(slot[c])
     \/ UNCHANGED players
  /\ handling' = [handling EXCEPT ![c] = FALSE]
  /\ UNCHANGED <<phase, slot>> /\ ServerUnchanged

\* Mutant of the next: a dead player leaves without a word.
LeaveQuietlyWhenDead(c) ==
  /\ phase[c] = "registered"
  /\ ~IsHeld(slot[c])
  /\ IF HasStatus(slot[c], {"Dead"}) THEN UNCHANGED players ELSE Unregister(slot[c])
  /\ phase' = [phase EXCEPT ![c] = "left"]
  /\ UNCHANGED <<slot, handling>> /\ ServerUnchanged

\* The send thread does not wait for the receive thread to finish.
Leave(c) ==
  /\ phase[c] = "registered"
  /\ ~IsHeld(slot[c])
  /\ Unregister(slot[c])
  /\ phase' = [phase EXCEPT ![c] = "left"]
  /\ UNCHANGED <<slot, handling>> /\ ServerUnchanged

\* The end of both threads; the same player may come back.
Forget(c) ==
  /\ phase[c] = "left"
  /\ ~handling[c]
  /\ phase' = [phase EXCEPT ![c] = "outside"]
  /\ UNCHANGED <<players, slot, handling>> /\ ServerUnchanged

\* A process of a shared-memory room is killed: its slot stays as it is.
Crash(c) ==
  /\ phase[c] = "registered"
  /\ phase' = [phase EXCEPT ![c] = "crashed"]
  /\ handling' = [handling EXCEPT ![c] = FALSE]
  /\ UNCHANGED <<players, slot>> /\ ServerUnchanged

ClientStep(c) ==
  \/ Connect(c) \/ TakeSlot(c) \/ PassSlot(c) \/ GiveUp(c)
  \/ BeginOperation(c) \/ FinishOperation(c)
  \/ Leave(c) \/ Forget(c) \/ Crash(c)

-----------------------------------------------------------------------------
(* The server: player_manager_for_each and what the turns of               *)
(* server_tick_process_player make of a status.                            *)

ClientsUnchanged == UNCHANGED <<phase, slot, handling>>

\* One iteration of each of the three loops over the slots.
Iterate(loop) ==
  /\ sweep = loop
  /\ index \in PlayerIds
  /\ index' = index + 1
  /\ UNCHANGED sweep /\ ClientsUnchanged

BeginForEach ==
  /\ sweep = "away"
  /\ sweep' = "acquire"
  /\ UNCHANGED <<players, index>> /\ ClientsUnchanged

Acquire == Iterate("acquire") /\ UNCHANGED players

TurnOutcomes(s) ==
  CASE s \in {"Joining", "Respawning"} -> {"Playing", "Dead"}
    [] s = "Disconnecting"             -> {"NotConnected"}
    [] s = "Playing"                   -> {"Playing", "Dead"}
    [] OTHER                           -> {s}

Process ==
  /\ Iterate("process")
  /\ \E s \in TurnOutcomes(players[index].status) : SetStatus(index, s)

Release == Iterate("release") /\ UNCHANGED players

\* From the end of one loop to the next.
NextLoop ==
  /\ index = MaxPlayers
  /\ index' = 0
  /\ sweep' = CASE sweep = "acquire" -> "process"
                [] sweep = "process" -> "release"
                [] OTHER             -> "away"
  /\ UNCHANGED players /\ ClientsUnchanged

ServerStep == BeginForEach \/ Acquire \/ Process \/ Release \/ NextLoop

Next == ServerStep \/ \E c \in Clients : ClientStep(c)

Spec == Init /\ [][Next]_slotsVars

-----------------------------------------------------------------------------
(* Properties.                                                             *)

TypeOK ==
  /\ PlayersTypeOK
  /\ phase \in [Clients -> Phases]
  /\ slot \in [Clients -> 0 .. MaxPlayers]
  /\ handling \in [Clients -> BOOLEAN]
  /\ sweep \in Sweeps
  /\ index \in 0 .. MaxPlayers

\* No slot is given to two clients, although the search of one may interleave
\* with another's, and with the tick that frees slots.
OneOwner ==
  \A c, d \in Clients : Owns(c) /\ Owns(d) /\ slot[c] = slot[d] => c = d

\* The slot of a client is its own until it leaves: neither the tick nor the
\* operation of a former owner, still under way, ever frees it.
OwnedSlotsStayInUse ==
  \A c \in Clients : Owns(c) => slot[c] \in PlayerIds /\ InUse(slot[c])

\* A slot is in use only while some client owns it: none is lost for good,
\* unless with the process that had it.
NoSlotLeaks ==
  \A p \in PlayerIds : InUse(p) => \E c \in Clients : Owns(c) /\ slot[c] = p

Lifecycle == INSTANCE PlayerLifecycle WITH
  status <- [p \in PlayerIds |-> players[p].status],
  locked <- sweep = "process",
  due    <- IF sweep = "process" THEN {p \in PlayerIds : index <= p} ELSE {},
  over   <- FALSE

\* Taking the mutexes one by one changes nothing that the lifecycle allows:
\* the clients see the turns of a tick as one locked step each.
ImplementsLifecycle == Lifecycle!Spec
=============================================================================
