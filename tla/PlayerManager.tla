---------------------------- MODULE PlayerManager ----------------------------
(***************************************************************************)
(* The player slots of libsnake/player/player_manager.c and the operations *)
(* the clients' threads call on them.  Each operation on one slot runs     *)
(* under that slot's mutex, so it is one step; ServerTick adds the one     *)
(* operation that holds all the mutexes at once, for_each.                 *)
(*                                                                         *)
(* A client calls the operations but register only for the slot that       *)
(* register gave it, which InUse expresses here.  PlayerSlots models the   *)
(* clients that own the slots, the search of register slot by slot, and    *)
(* the operation of a client's thread that comes after it has left.        *)
(***************************************************************************)
EXTENDS GameConstants

VARIABLE players  \* player_manager_t.players_

Statuses == {"NotConnected", "Playing", "Paused", "Dead", "Respawning",
             "Joining", "Disconnecting"}
Players  == [PlayerIds -> [status : Statuses, direction : Directions \cup {"unset"}]]

HasStatus(p, S) == players[p].status \in S
SetStatus(p, s) == players' = [players EXCEPT ![p].status = s]

\* init sets the status alone: the direction is whatever the memory held,
\* "unset" until register, the first to write it.
PlayerManagerInit ==
  players = [p \in PlayerIds |-> [status |-> "NotConnected", direction |-> "unset"]]

\* No slot is taken before its direction has been written.
PlayersTypeOK ==
  /\ players \in Players
  /\ \A p \in PlayerIds :
       players[p].direction = "unset" => players[p].status = "NotConnected"

-----------------------------------------------------------------------------
\* Has a client that may still call operations on its slot.
InUse(p) == ~HasStatus(p, {"NotConnected", "Disconnecting"})

\* player_manager_register takes the first slot that is not connected.
Register(p) ==
  /\ HasStatus(p, {"NotConnected"})
  /\ \A q \in PlayerIds : q < p => ~HasStatus(q, {"NotConnected"})
  /\ players' = [players EXCEPT ![p] = [status |-> "Joining", direction |-> "up"]]

\* A player with a snake on the map is left for the next tick to remove.
Unregister(p) ==
  SetStatus(p, IF HasStatus(p, {"Dead", "Respawning", "Joining"})
               THEN "NotConnected" ELSE "Disconnecting")

Pause(p) ==
  /\ HasStatus(p, {"Playing"})
  /\ SetStatus(p, "Paused")

Unpause(p) ==
  /\ HasStatus(p, {"Paused"})
  /\ SetStatus(p, "Playing")

\* Mutant of the next: a player that is not dead may respawn.
RespawnAnyone(p) ==
  SetStatus(p, "Respawning")

Respawn(p) ==
  /\ HasStatus(p, {"Dead"})
  /\ SetStatus(p, "Respawning")

\* The server takes any direction: only the clients refuse to turn back.
SetPlayerDirection(p, d) ==
  players' = [players EXCEPT ![p].direction = d]

ClientOperation(p) ==
  \/ Register(p)
  \/ /\ InUse(p)
     /\ \/ Unregister(p)
        \/ Pause(p)
        \/ Unpause(p)
        \/ Respawn(p)
        \/ \E d \in Directions : SetPlayerDirection(p, d)
=============================================================================
