--------------------------- MODULE PlayerLifecycle ---------------------------
(***************************************************************************)
(* What the server and the clients may do to the status of a player slot:  *)
(* the abstract specification of player_status_t that ServerTick and       *)
(* PlayerSlots implement.  A tick locks all the slots, gives each of them  *)
(* one turn, and unlocks them; a client changes a slot only while they are *)
(* not locked.                                                             *)
(***************************************************************************)
EXTENDS GameConstants

VARIABLES
  status,  \* of each slot
  locked,  \* the tick holds the mutexes of all the slots
  due,     \* the slots that still have their turn in the current tick
  over     \* the server makes no more ticks

lifecycleVars == <<status, locked, due, over>>

Init ==
  /\ status = [p \in PlayerIds |-> "NotConnected"]
  /\ locked = FALSE
  /\ due = {}
  /\ over = FALSE

\* The edges of the server: what a slot may be after its turn.
AfterTurn(s) ==
  CASE s \in {"Joining", "Respawning"} -> {"Playing", "Dead"}
    [] s = "Disconnecting"             -> {"NotConnected"}
    [] s = "Playing"                   -> {"Playing", "Dead"}
    [] OTHER                           -> {s}

\* The edges of the clients.
AfterOperation(s) ==
  CASE s = "NotConnected"              -> {"Joining"}
    [] s \in {"Joining", "Respawning"} -> {"NotConnected"}
    [] s = "Dead"                      -> {"Respawning", "NotConnected"}
    [] s = "Playing"                   -> {"Paused", "Disconnecting"}
    [] s = "Paused"                    -> {"Playing", "Disconnecting"}
    [] OTHER                           -> {}

Operate(p) ==
  /\ ~locked
  /\ \E s \in AfterOperation(status[p]) : status' = [status EXCEPT ![p] = s]
  /\ UNCHANGED <<locked, due, over>>

Lock ==
  /\ ~locked /\ ~over
  /\ locked' = TRUE
  /\ due' = PlayerIds
  /\ UNCHANGED <<status, over>>

Turn(p) ==
  /\ p \in due
  /\ \E s \in AfterTurn(status[p]) : status' = [status EXCEPT ![p] = s]
  /\ due' = due \ {p}
  /\ UNCHANGED <<locked, over>>

Unlock ==
  /\ locked /\ due = {}
  /\ locked' = FALSE
  /\ UNCHANGED <<status, due, over>>

Stop ==
  /\ ~locked
  /\ over' = TRUE
  /\ UNCHANGED <<status, locked, due>>

Next ==
  \/ Lock
  \/ Unlock
  \/ Stop
  \/ \E p \in PlayerIds : Turn(p) \/ Operate(p)

Spec == Init /\ [][Next]_lifecycleVars

=============================================================================
