-------------------------- MODULE PlayerSlotsProofs --------------------------
(***************************************************************************)
(* The ownership of the slots, for any number of clients and of slots.     *)
(* Each of the three invariants needs the others: a slot that is taken is  *)
(* not in use, hence has no owner; a slot that is left has no other owner  *)
(* that would lose it; and every step that changes a slot in use, the late *)
(* operation of a former owner too, leaves it in use.                      *)
(***************************************************************************)
EXTENDS PlayerSlots, TLAPS

\* An operation is under way only for a client that has had a slot.
HandlersHaveSlots ==
  \A c \in Clients :
    handling[c] => slot[c] \in PlayerIds /\ phase[c] \in {"registered", "left"}

Inv ==
  /\ TypeOK
  /\ HandlersHaveSlots
  /\ OneOwner
  /\ OwnedSlotsStayInUse
  /\ NoSlotLeaks

-----------------------------------------------------------------------------
\* What a change of one status means for all the slots.
LEMMA StatusChange ==
  ASSUME PlayersTypeOK, NEW p \in PlayerIds, NEW s \in Statuses, SetStatus(p, s),
         players[p].status = "NotConnected" => s = "NotConnected"
  PROVE  /\ PlayersTypeOK'
         /\ \A q \in PlayerIds :
              players'[q].status = IF q = p THEN s ELSE players[q].status
BY DEF PlayersTypeOK, Players, SetStatus

LEMMA InitInv == Init => Inv
<1> SUFFICES ASSUME Init PROVE Inv
  OBVIOUS
<1>1. PlayersTypeOK
  BY DEF Init, PlayerManagerInit, PlayersTypeOK, Players, Statuses
<1>2. \A p \in PlayerIds : players[p].status = "NotConnected"
  BY DEF Init, PlayerManagerInit
<1>3. \A c \in Clients : phase[c] = "outside" /\ slot[c] = 0 /\ ~handling[c]
  BY DEF Init
<1>4. phase \in [Clients -> Phases] /\ handling \in [Clients -> BOOLEAN]
  BY DEF Init, Phases
<1>5. slot \in [Clients -> 0 .. MaxPlayers] /\ index \in 0 .. MaxPlayers /\ sweep \in Sweeps
  BY MaxPlayersAssumption DEF Init, Sweeps
<1>6. TypeOK
  BY <1>1, <1>4, <1>5 DEF TypeOK
<1> QED
  BY <1>2, <1>3, <1>6 DEF Inv, HandlersHaveSlots, OneOwner, OwnedSlotsStayInUse,
                          NoSlotLeaks, Owns, InUse, HasStatus

-----------------------------------------------------------------------------
\* The server's turn keeps a slot in use, or frees one that has no owner.
LEMMA ServerStepInv == Inv /\ ServerStep => Inv'
<1> SUFFICES ASSUME Inv, ServerStep PROVE Inv'
  OBVIOUS
<1> USE DEF Inv
<1>1. UNCHANGED <<phase, slot, handling>>
  BY DEF ServerStep, BeginForEach, Acquire, Process, Release, NextLoop, Iterate,
         ClientsUnchanged
<1>2. index' \in 0 .. MaxPlayers /\ sweep' \in Sweeps
  BY MaxPlayersAssumption DEF ServerStep, BeginForEach, Acquire, Process, Release,
         NextLoop, Iterate, TypeOK, Sweeps, PlayerIds
<1>3. CASE UNCHANGED players
  BY <1>1, <1>2, <1>3 DEF TypeOK, PlayersTypeOK, HandlersHaveSlots, OneOwner,
       OwnedSlotsStayInUse, NoSlotLeaks, Owns, InUse, HasStatus
<1>4. CASE Process
  <2>1. index \in PlayerIds /\ players[index].status \in Statuses
    BY <1>4 DEF Process, Iterate, TypeOK, PlayersTypeOK, Players
  <2>2. PICK s \in TurnOutcomes(players[index].status) : SetStatus(index, s)
    BY <1>4 DEF Process
  <2>3. /\ s \in Statuses
        /\ s \in {"NotConnected", "Disconnecting"} <=>
             players[index].status \in {"NotConnected", "Disconnecting"}
        /\ players[index].status = "NotConnected" => s = "NotConnected"
    BY <2>1, <2>2 DEF TurnOutcomes, Statuses
  <2>4. /\ PlayersTypeOK'
        /\ \A q \in PlayerIds :
             players'[q].status = IF q = index THEN s ELSE players[q].status
    BY <2>1, <2>2, <2>3, StatusChange DEF TypeOK
  <2>5. \A q \in PlayerIds : InUse(q)' <=> InUse(q)
    BY <2>3, <2>4 DEF InUse, HasStatus
  <2> QED
    BY <1>1, <1>2, <2>4, <2>5 DEF TypeOK, HandlersHaveSlots, OneOwner,
         OwnedSlotsStayInUse, NoSlotLeaks, Owns
<1> QED BY <1>3, <1>4 DEF ServerStep, BeginForEach, Acquire, Release, NextLoop

\* A client's step that takes or gives up no slot.
LEMMA QuietStepInv ==
  ASSUME Inv, UNCHANGED <<players, sweep, index>>,
         phase' \in [Clients -> Phases], slot' \in [Clients -> 0 .. MaxPlayers],
         handling' \in [Clients -> BOOLEAN], HandlersHaveSlots',
         \A c \in Clients : Owns(c)' <=> Owns(c),
         \A c \in Clients : Owns(c) => slot'[c] = slot[c]
  PROVE  Inv'
<1>1. \A p \in PlayerIds : InUse(p)' <=> InUse(p)
  BY DEF InUse, HasStatus
<1> QED
  BY <1>1 DEF Inv, TypeOK, PlayersTypeOK, OneOwner, OwnedSlotsStayInUse, NoSlotLeaks

LEMMA TakeSlotInv ==
  ASSUME Inv, NEW c \in Clients, TakeSlot(c)
  PROVE  Inv'
<1> USE DEF Inv
<1> DEFINE p == slot[c]
<1>1. /\ p \in PlayerIds /\ players[p].status = "NotConnected"
      /\ players' = [players EXCEPT ![p] = [status |-> "Joining", direction |-> "up"]]
      /\ phase' = [phase EXCEPT ![c] = "registered"]
      /\ UNCHANGED <<slot, handling, sweep, index>>
  BY DEF TakeSlot, HasStatus, ServerUnchanged
<1>2. TypeOK'
  <2>1. PlayersTypeOK'
    BY <1>1 DEF TypeOK, PlayersTypeOK, Players, Statuses, Directions
  <2>2. phase' \in [Clients -> Phases]
    BY <1>1 DEF TypeOK, Phases
  <2> QED BY <1>1, <2>1, <2>2 DEF TypeOK
<1>3. \A q \in PlayerIds : InUse(q)' <=> InUse(q) \/ q = p
  BY <1>1 DEF InUse, HasStatus, TypeOK, PlayersTypeOK, Players
<1>4. \A d \in Clients : Owns(d)' <=> Owns(d) \/ d = c
  BY <1>1 DEF Owns, TypeOK
<1>5. ~InUse(p)
  BY <1>1 DEF InUse, HasStatus
<1>6. \A d \in Clients : Owns(d) => slot[d] # p
  BY <1>5 DEF OwnedSlotsStayInUse
<1> QED
  BY <1>1, <1>2, <1>3, <1>4, <1>6 DEF HandlersHaveSlots, OneOwner,
       OwnedSlotsStayInUse, NoSlotLeaks

LEMMA LeaveInv ==
  ASSUME Inv, NEW c \in Clients, Leave(c)
  PROVE  Inv'
<1> USE DEF Inv
<1> DEFINE p == slot[c]
<1>1. /\ phase[c] = "registered"
      /\ phase' = [phase EXCEPT ![c] = "left"]
      /\ UNCHANGED <<slot, handling, sweep, index>>
  BY DEF Leave, ServerUnchanged
<1>2. Owns(c) /\ p \in PlayerIds /\ InUse(p)
  BY <1>1 DEF Owns, OwnedSlotsStayInUse
<1>3. PICK s \in {"NotConnected", "Disconnecting"} : SetStatus(p, s)
  BY DEF Leave, Unregister
<1>4. /\ PlayersTypeOK'
      /\ \A q \in PlayerIds : players'[q].status = IF q = p THEN s ELSE players[q].status
  <2>1. players[p].status # "NotConnected" /\ s \in Statuses
    BY <1>2, <1>3 DEF InUse, HasStatus, Statuses
  <2> QED BY <1>2, <1>3, <2>1, StatusChange DEF TypeOK
<1>5. TypeOK'
  BY <1>1, <1>4 DEF TypeOK, Phases
<1>6. \A q \in PlayerIds : InUse(q)' <=> InUse(q) /\ q # p
  BY <1>3, <1>4 DEF InUse, HasStatus
<1>7. \A d \in Clients : Owns(d)' <=> Owns(d) /\ d # c
  BY <1>1 DEF Owns, TypeOK
<1>8. \A d \in Clients : Owns(d) /\ d # c => slot[d] # p
  BY <1>2 DEF OneOwner
<1> QED
  BY <1>1, <1>5, <1>6, <1>7, <1>8 DEF HandlersHaveSlots, OneOwner,
       OwnedSlotsStayInUse, NoSlotLeaks

\* Also when the client has left, and whoever has the slot by now.
LEMMA FinishOperationInv ==
  ASSUME Inv, NEW c \in Clients, FinishOperation(c)
  PROVE  Inv'
<1> USE DEF Inv
<1> DEFINE p == slot[c]
<1>1. /\ handling[c]
      /\ handling' = [handling EXCEPT ![c] = FALSE]
      /\ UNCHANGED <<phase, slot, sweep, index>>
  BY DEF FinishOperation, ServerUnchanged
<1>2. p \in PlayerIds
  BY <1>1 DEF HandlersHaveSlots
<1>3. handling' \in [Clients -> BOOLEAN] /\ HandlersHaveSlots'
  BY <1>1 DEF TypeOK, HandlersHaveSlots
<1>4. CASE UNCHANGED players
  BY <1>1, <1>3, <1>4, QuietStepInv DEF TypeOK, Owns
<1>5. CASE Pause(p) \/ Unpause(p) \/ Respawn(p)
  <2>1. PICK s \in {"Playing", "Paused", "Respawning"} :
          SetStatus(p, s) /\ players[p].status \in {"Playing", "Paused", "Dead"}
    BY <1>5 DEF Pause, Unpause, Respawn, HasStatus
  <2>2. /\ PlayersTypeOK'
        /\ \A q \in PlayerIds : players'[q].status = IF q = p THEN s ELSE players[q].status
    <3>1. players[p].status # "NotConnected" /\ s \in Statuses
      BY <2>1 DEF Statuses
    <3> QED BY <1>2, <2>1, <3>1, StatusChange DEF TypeOK
  <2>3. \A q \in PlayerIds : InUse(q)' <=> InUse(q)
    BY <2>1, <2>2 DEF InUse, HasStatus
  <2>4. TypeOK'
    BY <1>1, <1>3, <2>2 DEF TypeOK
  <2> QED
    BY <1>1, <1>3, <2>3, <2>4 DEF OneOwner, OwnedSlotsStayInUse, NoSlotLeaks, Owns
<1> QED BY <1>4, <1>5 DEF FinishOperation

LEMMA ClientStepInv ==
  ASSUME Inv, NEW c \in Clients, ClientStep(c)
  PROVE  Inv'
<1> USE DEF ServerUnchanged
<1>1. CASE Connect(c)
  <2>1. HandlersHaveSlots'
    BY <1>1 DEF Connect, Inv, HandlersHaveSlots, TypeOK
  <2> QED BY <1>1, <2>1, QuietStepInv, MaxPlayersAssumption
          DEF Connect, Inv, TypeOK, Owns, Phases
<1>2. CASE PassSlot(c)
  <2>1. slot[c] + 1 \in 0 .. MaxPlayers
    BY <1>2, MaxPlayersAssumption DEF PassSlot, PlayerIds
  <2>2. HandlersHaveSlots'
    BY <1>2 DEF PassSlot, Inv, HandlersHaveSlots, TypeOK
  <2> QED BY <1>2, <2>1, <2>2, QuietStepInv DEF PassSlot, Inv, TypeOK, Owns, Phases
<1>3. CASE GiveUp(c)
  <2>1. HandlersHaveSlots'
    BY <1>3 DEF GiveUp, Inv, HandlersHaveSlots, TypeOK
  <2> QED BY <1>3, <2>1, QuietStepInv DEF GiveUp, Inv, TypeOK, Owns, Phases
<1>4. CASE BeginOperation(c)
  <2>1. slot[c] \in PlayerIds
    BY <1>4 DEF BeginOperation, Inv, OwnedSlotsStayInUse, Owns
  <2>2. HandlersHaveSlots'
    BY <1>4, <2>1 DEF BeginOperation, Inv, HandlersHaveSlots, TypeOK
  <2> QED BY <1>4, <2>2, QuietStepInv DEF BeginOperation, Inv, TypeOK, Owns
<1>5. CASE Forget(c)
  <2>1. HandlersHaveSlots'
    BY <1>5 DEF Forget, Inv, HandlersHaveSlots, TypeOK
  <2> QED BY <1>5, <2>1, QuietStepInv DEF Forget, Inv, TypeOK, Owns, Phases
<1>6. CASE Crash(c)
  <2>1. HandlersHaveSlots'
    BY <1>6 DEF Crash, Inv, HandlersHaveSlots, TypeOK
  <2> QED BY <1>6, <2>1, QuietStepInv DEF Crash, Inv, TypeOK, Owns, Phases
<1> QED
  BY <1>1, <1>2, <1>3, <1>4, <1>5, <1>6, TakeSlotInv, LeaveInv, FinishOperationInv
  DEF ClientStep

LEMMA StutterInv == Inv /\ UNCHANGED slotsVars => Inv'
BY DEF Inv, slotsVars, TypeOK, PlayersTypeOK, HandlersHaveSlots, OneOwner,
       OwnedSlotsStayInUse, NoSlotLeaks, Owns, InUse, HasStatus

LEMMA InvHolds == Spec => []Inv
<1>1. Inv /\ [Next]_slotsVars => Inv'
  BY ServerStepInv, ClientStepInv, StutterInv DEF Next
<1> QED BY InitInv, <1>1, PTL DEF Spec

-----------------------------------------------------------------------------
\* No slot is ever given to two clients (player_manager.c:16-43).
THEOREM SlotsHaveOneOwner == Spec => []OneOwner
BY InvHolds, PTL DEF Inv

\* A client keeps its slot until it unregisters, whatever the tick and the
\* late operations of others do (player_manager.c:45-73, server.c:169-248).
THEOREM OwnersKeepTheirSlots == Spec => []OwnedSlotsStayInUse
BY InvHolds, PTL DEF Inv

\* A slot in use always has an owner that can leave it.
THEOREM SlotsDoNotLeak == Spec => []NoSlotLeaks
BY InvHolds, PTL DEF Inv

-----------------------------------------------------------------------------
(* The slots as PlayerLifecycle has them.                                  *)

Status == [p \in PlayerIds |-> players[p].status]
Locked == sweep = "process"
Due == IF sweep = "process" THEN {p \in PlayerIds : index <= p} ELSE {}

LEMMA LifecycleInit == Init => Lifecycle!Init
BY DEF Init, PlayerManagerInit, PlayerIds, Lifecycle!Init, Lifecycle!PlayerIds

\* A status that is set is one that changes, or the direction with it.
LEMMA StatusIsSet ==
  ASSUME PlayersTypeOK, NEW p \in PlayerIds, NEW s \in Statuses, SetStatus(p, s)
  PROVE  Status' = [Status EXCEPT ![p] = s]
BY DEF PlayersTypeOK, Players, SetStatus, Status

\* What the server's thread does is to lock, a turn, to unlock, or nothing.
LEMMA ServerStepIsAllowed ==
  ASSUME Inv, ServerStep
  PROVE  [Lifecycle!Next]_Lifecycle!lifecycleVars
<1> USE DEF Inv, TypeOK
<1>1. CASE BeginForEach \/ Acquire \/ Release
  <2>1. UNCHANGED players /\ sweep # "process" /\ sweep' # "process"
    BY <1>1 DEF BeginForEach, Acquire, Release, Iterate
  <2> QED BY <2>1 DEF Lifecycle!lifecycleVars
<1>2. CASE Process
  <2>1. sweep = "process" /\ sweep' = "process" /\ index \in PlayerIds /\ index' = index + 1
    BY <1>2 DEF Process, Iterate
  <2>2. PICK s \in TurnOutcomes(players[index].status) : SetStatus(index, s)
    BY <1>2 DEF Process
  <2>3. players[index].status \in Statuses
    BY <2>1 DEF PlayersTypeOK, Players
  <2>4. s \in Statuses /\ s \in Lifecycle!AfterTurn(Status[index])
    BY <2>1, <2>2, <2>3 DEF TurnOutcomes, Lifecycle!AfterTurn, Status, Statuses
  <2>5. Status' = [Status EXCEPT ![index] = s]
    BY <2>1, <2>2, <2>4, StatusIsSet
  <2>6. index \in Due /\ Due' = Due \ {index}
    BY <2>1, MaxPlayersAssumption DEF Due, PlayerIds
  <2>7. PICK p \in PlayerIds : p = index
    BY <2>1
  <2>8. Lifecycle!Turn(p)
    BY <2>1, <2>4, <2>5, <2>6, <2>7 DEF Lifecycle!Turn, Status, Due
  <2> QED BY <2>8 DEF Lifecycle!Next, Lifecycle!PlayerIds, PlayerIds
<1>3. CASE NextLoop
  <2>1. index = MaxPlayers /\ index' = 0 /\ UNCHANGED players
    BY <1>3 DEF NextLoop
  <2>2. CASE sweep = "acquire"
    <3>1. sweep' = "process" /\ Due' = PlayerIds
      BY <1>3, <2>1, <2>2, MaxPlayersAssumption DEF NextLoop, Due, PlayerIds
    <3>2. Lifecycle!Lock
      BY <2>1, <2>2, <3>1 DEF Lifecycle!Lock, Lifecycle!PlayerIds, PlayerIds, Due
    <3> QED BY <3>2 DEF Lifecycle!Next
  <2>3. CASE sweep = "process"
    <3>1. sweep' = "release" /\ Due = {} /\ Due' = {}
      BY <1>3, <2>1, <2>3, MaxPlayersAssumption DEF NextLoop, Due, PlayerIds
    <3>2. Lifecycle!Unlock
      BY <2>1, <2>3, <3>1 DEF Lifecycle!Unlock, Due
    <3> QED BY <3>2 DEF Lifecycle!Next
  <2>4. CASE sweep \notin {"acquire", "process"}
    <3>1. sweep' = "away"
      BY <1>3, <2>4 DEF NextLoop
    <3> QED BY <2>1, <2>4, <3>1 DEF Lifecycle!lifecycleVars
  <2> QED BY <2>2, <2>3, <2>4
<1> QED BY <1>1, <1>2, <1>3 DEF ServerStep

\* A status that a client may give, while the tick does not process the slots.
LEMMA OperationIsAllowed ==
  ASSUME Inv, NEW p \in PlayerIds, NEW s, s \in Lifecycle!AfterOperation(players[p].status),
         Status' = [Status EXCEPT ![p] = s], ~IsHeld(p), UNCHANGED <<sweep, index>>
  PROVE  Lifecycle!Next
<1>1. sweep # "process"
  BY DEF IsHeld
<1>2. Lifecycle!Operate(p)
  BY <1>1 DEF Lifecycle!Operate, Status
<1> QED BY <1>2 DEF Lifecycle!Next, Lifecycle!PlayerIds, PlayerIds

LEMMA ClientStepIsAllowed ==
  ASSUME Inv, NEW c \in Clients, ClientStep(c)
  PROVE  [Lifecycle!Next]_Lifecycle!lifecycleVars
<1> USE DEF Inv, TypeOK, ServerUnchanged
<1> DEFINE p == slot[c]
<1>0. CASE UNCHANGED <<players, sweep, index>>
  BY <1>0 DEF Lifecycle!lifecycleVars
<1>1. CASE TakeSlot(c)
  <2>1. /\ p \in PlayerIds /\ players[p].status = "NotConnected" /\ ~IsHeld(p)
        /\ players' = [players EXCEPT ![p] = [status |-> "Joining", direction |-> "up"]]
        /\ UNCHANGED <<sweep, index>>
    BY <1>1 DEF TakeSlot, HasStatus
  <2>2. Status' = [Status EXCEPT ![p] = "Joining"]
    BY <2>1 DEF Status, PlayersTypeOK, Players
  <2> QED BY <2>1, <2>2, OperationIsAllowed DEF Lifecycle!AfterOperation
<1>2. CASE FinishOperation(c)
  <2>1. p \in PlayerIds /\ ~IsHeld(p) /\ UNCHANGED <<sweep, index>>
    BY <1>2 DEF FinishOperation, HandlersHaveSlots
  <2>2. CASE UNCHANGED players
    BY <1>0, <2>1, <2>2
  <2>3. CASE Pause(p) \/ Unpause(p) \/ Respawn(p)
    <3>1. PICK s \in {"Playing", "Paused", "Respawning"} :
            SetStatus(p, s) /\ s \in Lifecycle!AfterOperation(players[p].status)
      BY <2>3 DEF Pause, Unpause, Respawn, HasStatus, Lifecycle!AfterOperation
    <3>2. Status' = [Status EXCEPT ![p] = s]
      BY <2>1, <3>1, StatusIsSet DEF Statuses
    <3> QED BY <2>1, <3>1, <3>2, OperationIsAllowed
  <2> QED BY <1>2, <2>2, <2>3 DEF FinishOperation
<1>3. CASE Leave(c)
  <2>1. p \in PlayerIds /\ InUse(p) /\ ~IsHeld(p) /\ UNCHANGED <<sweep, index>>
    BY <1>3 DEF Leave, Owns, OwnedSlotsStayInUse
  <2>2. players[p].status \in Statuses \ {"NotConnected", "Disconnecting"}
    BY <2>1 DEF InUse, HasStatus, PlayersTypeOK, Players
  <2>3. PICK s \in {"NotConnected", "Disconnecting"} :
          SetStatus(p, s) /\ s \in Lifecycle!AfterOperation(players[p].status)
    BY <1>3, <2>2 DEF Leave, Unregister, HasStatus, Statuses, Lifecycle!AfterOperation
  <2>4. Status' = [Status EXCEPT ![p] = s]
    BY <2>1, <2>3, StatusIsSet DEF Statuses
  <2> QED BY <2>1, <2>3, <2>4, OperationIsAllowed
<1>4. CASE \/ Connect(c) \/ PassSlot(c) \/ GiveUp(c)
           \/ BeginOperation(c) \/ Forget(c) \/ Crash(c)
  BY <1>0, <1>4 DEF Connect, PassSlot, GiveUp, BeginOperation, Forget, Crash
<1> QED BY <1>1, <1>2, <1>3, <1>4 DEF ClientStep

\* Registering slot by slot, late operations, and the three loops of for_each
\* (player_manager.c:16-117) change a status only as one locked step of the tick
\* or one operation of a client may, for any number of clients and slots.
THEOREM SlotsImplementLifecycle == Spec => ImplementsLifecycle
<1>1. Inv /\ [Next]_slotsVars => [Lifecycle!Next]_Lifecycle!lifecycleVars
  <2>1. UNCHANGED slotsVars => UNCHANGED Lifecycle!lifecycleVars
    BY DEF slotsVars, Lifecycle!lifecycleVars
  <2> QED BY <2>1, ServerStepIsAllowed, ClientStepIsAllowed DEF Next
<1> QED BY LifecycleInit, InvHolds, <1>1, PTL DEF Spec, ImplementsLifecycle, Lifecycle!Spec
=============================================================================
