-------------------------- MODULE ShmClientProofs --------------------------
(***************************************************************************)
(* A client of a shared-memory room, for any number of ticks, of changes   *)
(* in a tick and of commands that wait: what the input thread uses is      *)
(* there as long as the thread is, and the screen follows the room.        *)
(***************************************************************************)
EXTENDS ShmClient, SequenceTheorems, TLAPS

(* The threads: where the main thread is while the input thread lives.     *)

Before == {"registering", "observing", "peeking", "drawing", "full"}
Looping == {"checking", "waiting", "woken", "reading", "redrawing", "copying", "telling"}
After == {"joiningRenderer", "unregistering", "closed"}

Threads ==
  /\ main \in Before \cup Looping \cup {"stoppingInput", "joiningInput"} \cup After
  /\ main \in Before => input = "none"
  /\ main \in After => input = "ended"
  /\ rendererShutdown => main \in After
  /\ main \notin {"registering", "full", "closed"} => owner = "me"

\* The threads that are not the main thread's come and go as it wants them to.
LEMMA OthersKeepThreads ==
  ASSUME Threads, UNCHANGED <<main, rendererShutdown>>,
         owner' = owner \/ owner = "nobody",
         input' = input \/ input \notin {"none", "ended"}
  PROVE  Threads'
BY DEF Threads, Before, Looping, After

\* One step of the main thread after the other.
LEMMA MainKeepsThreads ==
  ASSUME Threads, MainRuns
  PROVE  Threads'
<1> USE DEF Threads, Before, Looping, After, OnlyMain, inputVars, slotVars, rendererVars
<1>1. CASE RegisterPlayer \/ InitObserver \/ ReadInitState
  BY <1>1 DEF RegisterPlayer, InitObserver, ReadInitState
<1>2. CASE StartInput
  BY <1>2 DEF StartInput, Redraw
<1>3. CASE CheckLoop \/ WakeUp \/ CheckWoken \/ ReadState \/ CopyChangelog
  BY <1>3 DEF CheckLoop, WakeUp, CheckWoken, ReadState, CopyChangelog
<1>4. CASE RedrawAll \/ TellRenderer
  BY <1>4 DEF RedrawAll, TellRenderer, Redraw, Update
<1>5. CASE StopInput
  BY <1>5 DEF StopInput
<1>6. CASE JoinInput
  BY <1>6 DEF JoinInput, StopDrawer
<1>7. CASE JoinRenderer \/ UnregisterPlayer
  BY <1>7 DEF JoinRenderer, UnregisterPlayer
<1> QED BY <1>1, <1>2, <1>3, <1>4, <1>5, <1>6, <1>7 DEF MainRuns

LEMMA NextKeepsThreads == Threads /\ [Next]_vars => Threads'
<1> SUFFICES ASSUME Threads, [Next]_vars PROVE Threads'
  OBVIOUS
<1>1. CASE ServerRuns
  BY <1>1, OthersKeepThreads
  DEF ServerRuns, ServerUpdate, ServerTick, EndGame, LastTick, Newcomer, OnlyRoom,
      mainVars, inputVars, rendererVars, slotVars
<1>2. CASE MainRuns
  BY <1>2, MainKeepsThreads
<1>3. CASE InputRuns
  BY <1>3, OthersKeepThreads
  DEF InputRuns, CheckInputShutdown, Poll, Event, PressExit, PressKey, Act, Resize,
      RedrawResized, Redraw, OnlyInput, mainVars, rendererVars
<1>4. CASE DrawerRuns /\ UNCHANGED <<roomVars, slotVars, mainVars, inputVars, inputShutdown>>
  BY <1>4, OthersKeepThreads
  DEF DrawerRuns, CheckShutdown, CheckQueue, FallAsleep, DrawRedraw, DrawUpdates,
      slotVars, mainVars, inputVars
<1>5. CASE UNCHANGED vars
  BY <1>5, OthersKeepThreads DEF vars, slotVars, mainVars, inputVars, rendererVars
<1> QED BY <1>1, <1>2, <1>3, <1>4, <1>5 DEF Next

\* As long as the input thread of shm_client.c lives, its slot is the player's
\* own, and neither the renderer nor the memory has been given up.
THEOREM InputHasItsContext == Spec => []ContextOutlivesInput
<1>1. Init => Threads
  BY DEF Init, RendererInit, Threads, Before, After
<1>2. Threads => ContextOutlivesInput
  BY DEF Threads, ContextOutlivesInput, Before, After
<1> QED BY <1>1, <1>2, NextKeepsThreads, PTL DEF Spec

-----------------------------------------------------------------------------
(* Types.                                                                  *)

Shown == Statuses \cup {"none"}
Commands == [type : {"redraw"}, status : Shown] \cup [type : {"update"}, tile : Contents]

RoomTypes ==
  /\ map \in Contents
  /\ changelog \in Seq(Contents)
  /\ tick \in Nat
  /\ players \in Players

MainTypes ==
  /\ last \in Nat /\ passed \in Nat
  /\ changes \in Seq(Contents)
  /\ overtaken \in BOOLEAN
  /\ lastStatus \in Statuses /\ resized \in Shown

RendererTypes ==
  /\ queue \in Seq(Commands)
  /\ screen \in [tile : Contents, controls : Shown]

Types == RoomTypes /\ MainTypes /\ RendererTypes

-----------------------------------------------------------------------------
(* What will be seen.                                                      *)

\* What the tile will be on the screen when everything has been told and drawn.
FinalTile ==
  IF changes # <<>> THEN changes[Len(changes)]
  ELSE IF queue = <<>> THEN screen.tile
  ELSE IF queue[Len(queue)].type = "update" THEN queue[Len(queue)].tile
  ELSE map

Agrees == FinalTile = map

\* How many times the room has changed since the client has last looked at the
\* ticker, the change that has not been ticked yet included.
UpToDate == last = tick /\ server # "updated"
OneBehind ==
  \/ last = tick /\ server = "updated"
  \/ tick = last + 1 /\ server # "updated"

\* Behind the head of the queue there are updates only.
UpdatesFollow == \A i \in 2 .. Len(queue) : queue[i].type = "update"

\* In the loop a client is right, but for the changelog of the tick it is to
\* wake up for; woken by one tick, it is right but for the changelog it is to copy.
Seen ==
  /\ UpdatesFollow
  /\ last <= tick
  /\ main # "telling" => changes = <<>>
  /\ main = "telling" => changes # <<>>
  /\ main \in {"woken", "reading"} => passed > 0
  /\ changelog # <<>> => changelog[Len(changelog)] = map
  /\ main \in {"checking", "waiting", "telling"} /\ ~overtaken =>
       /\ UpToDate => Agrees
       /\ OneBehind /\ changelog = <<>> => Agrees
  /\ main \in {"woken", "reading"} /\ ~overtaken /\ passed = 1 =>
       (UpToDate /\ changelog = <<>> => Agrees)
  /\ main = "copying" /\ ~overtaken =>
       (UpToDate /\ changelog = <<>> => Agrees)

Inv == Types /\ Seen

LEMMA InitInv == Init => Inv
<1> SUFFICES ASSUME Init PROVE Inv
  OBVIOUS
<1>1. RoomTypes
  BY DEF Init, RoomTypes, PlayerManagerInit, Players, Statuses
<1>2. MainTypes
  <2>1. <<>> \in Seq(Contents) /\ "NotConnected" \in Statuses
    BY DEF Statuses
  <2> QED BY <2>1 DEF Init, MainTypes, Shown
<1>3. RendererTypes
  BY DEF Init, RendererInit, RendererTypes, Shown
<1>4. Seen
  BY DEF Init, RendererInit, Seen, UpdatesFollow
<1> QED BY <1>1, <1>2, <1>3, <1>4 DEF Inv, Types

-----------------------------------------------------------------------------
(* What is drawn.                                                          *)

\* What is left when the head is taken away keeps its last element.
LEMMA TakingTheHead ==
  ASSUME NEW S, NEW s \in Seq(S), s # <<>>
  PROVE  /\ Len(s) \in Nat \ {0} /\ s[Len(s)] \in S
         /\ Head(s) = s[1] /\ Head(s) \in S
         /\ Tail(s) \in Seq(S)
         /\ \A i \in 1 .. Len(Tail(s)) : Tail(s)[i] = s[i + 1]
         /\ Len(s) = 1 <=> Tail(s) = <<>>
         /\ Tail(s) # <<>> => Tail(s)[Len(Tail(s))] = s[Len(s)]
<1>1. Len(s) \in Nat \ {0} /\ Head(s) = s[1]
  BY EmptySeq
<1>2. /\ Head(s) \in S /\ Tail(s) \in Seq(S) /\ Len(Tail(s)) = Len(s) - 1
      /\ \A i \in 1 .. Len(Tail(s)) : Tail(s)[i] = s[i + 1]
  BY HeadTailProperties
<1>3. Tail(s) # <<>> => Len(Tail(s)) \in Nat \ {0}
  BY <1>2, EmptySeq
<1>4. Len(s) = 1 <=> Tail(s) = <<>>
  <2>1. Tail(s) = <<>> <=> Len(Tail(s)) = 0
    BY <1>2, EmptySeq
  <2> QED BY <1>1, <1>2, <2>1
<1>5. Tail(s) # <<>> => Tail(s)[Len(Tail(s))] = s[Len(s)]
  BY <1>1, <1>2, <1>3
<1>6. s[Len(s)] \in S
  BY <1>1, ElementOfSeq
<1> QED BY <1>1, <1>2, <1>3, <1>4, <1>5, <1>6

\* A redraw of the input or of the main thread.
LEMMA RedrawAgrees ==
  ASSUME Inv, NEW status \in Shown, Redraw(RedrawCommand(status)), UNCHANGED map
  PROVE  /\ RendererTypes' /\ UpdatesFollow'
         /\ changes' = <<>> => Agrees'
         /\ changes' = changes => FinalTile' = FinalTile \/ Agrees'
<1>1. queue' = <<RedrawCommand(status)>> /\ screen' = screen
  BY DEF Redraw
<1>2. RedrawCommand(status) \in Commands
  BY DEF RedrawCommand, Commands
<1>3. RendererTypes'
  BY <1>1, <1>2 DEF Inv, Types, RendererTypes
<1>4. UpdatesFollow'
  BY <1>1 DEF UpdatesFollow
<1>5. changes' = <<>> => Agrees'
  BY <1>1 DEF Agrees, FinalTile, RedrawCommand
<1>6. ASSUME changes' = changes, changes # <<>> PROVE FinalTile' = FinalTile
  BY <1>6 DEF FinalTile
<1> QED BY <1>3, <1>4, <1>5, <1>6

\* A change that is told is still what will be seen.
LEMMA UpdateKeepsFinal ==
  ASSUME Inv, TellRenderer
  PROVE  /\ RendererTypes' /\ UpdatesFollow' /\ FinalTile' = FinalTile
         /\ changes' \in Seq(Contents)
         /\ main' = IF changes' = <<>> THEN "checking" ELSE "telling"
<1>1. /\ changes \in Seq(Contents) /\ changes # <<>>
      /\ changes' = Tail(changes)
      /\ main' = IF Len(changes) = 1 THEN "checking" ELSE "telling"
      /\ queue \in Seq(Commands)
      /\ queue' = Append(queue, UpdateCommand(Head(changes)))
      /\ UNCHANGED <<map, screen>>
  BY DEF TellRenderer, Update, OnlyMain, roomVars, Inv, Types, MainTypes, RendererTypes, Seen
<1>2. Head(changes) \in Contents /\ UpdateCommand(Head(changes)) \in Commands
  BY <1>1 DEF UpdateCommand, Commands
<1>3. /\ queue' \in Seq(Commands) /\ Len(queue') = Len(queue) + 1 /\ queue' # <<>>
      /\ \A i \in 1 .. Len(queue) : queue'[i] = queue[i]
      /\ queue'[Len(queue')] = UpdateCommand(Head(changes))
  BY <1>1, <1>2, AppendProperties
<1>4. UpdatesFollow'
  BY <1>1, <1>3 DEF Inv, Seen, UpdatesFollow, UpdateCommand
<1>5. /\ changes' \in Seq(Contents)
      /\ Head(changes) = changes[1]
      /\ Len(changes) = 1 <=> changes' = <<>>
      /\ changes' # <<>> => changes'[Len(changes')] = changes[Len(changes)]
  BY <1>1, TakingTheHead
<1>6. FinalTile' = FinalTile
  <2>1. CASE Len(changes) = 1
    BY <1>1, <1>3, <1>5, <2>1 DEF FinalTile, UpdateCommand
  <2>2. CASE Len(changes) # 1
    BY <1>1, <1>5, <2>2 DEF FinalTile
  <2> QED BY <2>1, <2>2
<1>7. RendererTypes'
  BY <1>1, <1>3 DEF Inv, Types, RendererTypes
<1> QED BY <1>1, <1>4, <1>5, <1>6, <1>7

\* What is taken out of the queue is on the screen.
LEMMA DrawerKeepsFinal ==
  ASSUME Inv, DrawerRuns, UNCHANGED changes
  PROVE  RendererTypes' /\ UpdatesFollow' /\ (map' = map => (FinalTile' = FinalTile))
<1>1. queue \in Seq(Commands) /\ UpdatesFollow
  BY DEF Inv, Types, RendererTypes, Seen
<1>2. CASE CheckShutdown \/ CheckQueue \/ FallAsleep
  BY <1>2 DEF CheckShutdown, CheckQueue, FallAsleep, Inv, Types, RendererTypes, Seen,
              UpdatesFollow, FinalTile
<1>3. CASE DrawRedraw
  <2>1. /\ queue # <<>> /\ queue' = Tail(queue)
        /\ Head(queue) \in Commands /\ Head(queue).type = "redraw"
        /\ screen' = [tile |-> map, controls |-> Head(queue).status]
    BY <1>1, <1>3 DEF DrawRedraw
  <2>2. RendererTypes'
    BY <1>1, <2>1 DEF RendererTypes, Commands, Inv, Types, RoomTypes
  <2>3. /\ Len(queue) \in Nat \ {0} /\ Len(queue') = Len(queue) - 1
        /\ Head(queue) = queue[1]
        /\ \A i \in 1 .. Len(queue') : queue'[i] = queue[i + 1]
        /\ Len(queue) = 1 <=> queue' = <<>>
        /\ queue' # <<>> => queue'[Len(queue')] = queue[Len(queue)]
    BY <1>1, <2>1, TakingTheHead, HeadTailProperties
  <2>4. UpdatesFollow'
    BY <1>1, <2>3 DEF UpdatesFollow
  <2>5. CASE Len(queue) = 1
    BY <2>1, <2>2, <2>3, <2>4, <2>5 DEF FinalTile
  <2>6. CASE Len(queue) # 1
    BY <2>1, <2>2, <2>3, <2>4, <2>6 DEF FinalTile
  <2> QED BY <2>5, <2>6
<1>4. CASE DrawUpdates
  <2>1. /\ queue # <<>> /\ queue' = <<>> /\ queue[1].type = "update"
        /\ screen' = [screen EXCEPT !.tile = queue[Len(queue)].tile]
    BY <1>1, <1>4 DEF DrawUpdates
  <2>2. Len(queue) \in Nat \ {0}
    BY <1>1, <2>1
  <2>3. queue[Len(queue)] \in Commands /\ queue[Len(queue)].type = "update"
    BY <1>1, <2>1, <2>2 DEF UpdatesFollow
  <2>4. queue[Len(queue)].tile \in Contents
    BY <2>3 DEF Commands
  <2>5. RendererTypes'
    BY <2>1, <2>4 DEF Inv, Types, RendererTypes
  <2>6. FinalTile' = FinalTile
    <3>1. screen'.tile = queue[Len(queue)].tile
      BY <2>1 DEF Inv, Types, RendererTypes
    <3> QED BY <2>1, <2>3, <3>1 DEF FinalTile
  <2> QED BY <2>1, <2>5, <2>6 DEF UpdatesFollow
<1> QED BY <1>2, <1>3, <1>4 DEF DrawerRuns

-----------------------------------------------------------------------------
(* The threads, one after the other.                                       *)

\* The operations on the slot keep its type.
LEMMA SlotTypes ==
  /\ me \in PlayerIds
  /\ \A p \in Players, s \in Statuses : [p EXCEPT ![me].status = s] \in Players
  /\ \A p \in Players, d \in Directions : [p EXCEPT ![me].direction = d] \in Players
  /\ \A p \in Players : [p EXCEPT ![me] = [status |-> "Joining", direction |-> "up"]] \in Players
  /\ \A p \in Players : p[me].status \in Statuses
<1>1. me \in PlayerIds
  BY MaxPlayersAssumption DEF me, PlayerIds
<1>2. ASSUME NEW p \in Players, NEW s \in Statuses
      PROVE  [p EXCEPT ![me].status = s] \in Players
  BY <1>1 DEF Players
<1>3. ASSUME NEW p \in Players, NEW d \in Directions
      PROVE  [p EXCEPT ![me].direction = d] \in Players
  BY <1>1 DEF Players
<1>4. ASSUME NEW p \in Players
      PROVE  [p EXCEPT ![me] = [status |-> "Joining", direction |-> "up"]] \in Players
  BY <1>1 DEF Players, Statuses, Directions
<1>5. \A p \in Players : p[me].status \in Statuses
  BY <1>1 DEF Players
<1> QED BY <1>1, <1>2, <1>3, <1>4, <1>5

\* A server's step takes a client at most one change further behind, and tells
\* by its changelog what the change was.
LEMMA ServerKeepsInv ==
  ASSUME Inv, ServerRuns
  PROVE  Inv'
<1>1. MainTypes' /\ RendererTypes'
  BY DEF ServerRuns, ServerUpdate, ServerTick, EndGame, LastTick, Newcomer, OnlyRoom, mainVars,
         inputVars, rendererVars, Inv, Types, MainTypes, RendererTypes
<1>2. UNCHANGED <<main, last, passed, changes, overtaken, queue, screen>>
  BY DEF ServerRuns, ServerUpdate, ServerTick, EndGame, LastTick, Newcomer, OnlyRoom, mainVars,
         rendererVars
<1>3. CASE ServerUpdate
  <2>1. PICK n \in 0 .. MaxChangelog :
          /\ changelog' \in [1 .. n -> Contents]
          /\ map' = IF n = 0 THEN map ELSE changelog'[n]
    BY <1>3 DEF ServerUpdate
  <2>2. /\ n \in Nat /\ changelog' \in Seq(Contents) /\ Len(changelog') = n
        /\ changelog' = <<>> => n = 0
    BY <2>1, ShmClientAssumption
  <2>3. map' \in Contents /\ tick' = tick
    BY <1>3, <2>1 DEF ServerUpdate, Inv, Types, RoomTypes
  <2>4. players' \in Players
    <3>1. PICK s \in Life!AfterTurn(players[me].status) : SetStatus(me, s)
      BY <1>3 DEF ServerUpdate
    <3>2. s \in Statuses
      BY <3>1, SlotTypes DEF Life!AfterTurn, Statuses, Inv, Types, RoomTypes
    <3> QED BY <3>1, <3>2, SlotTypes DEF SetStatus, Inv, Types, RoomTypes
  <2>5. server = "waiting" /\ server' = "updated"
    BY <1>3 DEF ServerUpdate
  <2>6. changelog' # <<>> => changelog'[Len(changelog')] = map'
    <3>1. n = 0 => changelog' = <<>>
      BY <2>1
    <3> QED BY <2>1, <2>2, <3>1
  <2>7. changelog' = <<>> => FinalTile' = FinalTile /\ map' = map
    BY <1>2, <2>1, <2>2 DEF FinalTile
  <2>8. Seen'
    BY <1>2, <2>3, <2>5, <2>6, <2>7
    DEF Inv, Types, RoomTypes, MainTypes, Seen, UpdatesFollow, UpToDate, OneBehind, Agrees
  <2> QED BY <1>1, <2>2, <2>3, <2>4, <2>8 DEF Inv, Types, RoomTypes
<1>4. CASE ServerTick \/ EndGame \/ LastTick \/ Newcomer
  <2>1. UNCHANGED <<map, changelog>>
    BY <1>4 DEF ServerTick, EndGame, LastTick, Newcomer, roomVars
  <2>2. tick' \in Nat /\ players' \in Players
    BY <1>4, SlotTypes
    DEF ServerTick, EndGame, LastTick, Newcomer, roomVars, slotVars, Register, Inv, Types,
        RoomTypes
  <2>3. \/ UNCHANGED tick /\ (UNCHANGED server \/ (server' = "ending" /\ server # "updated"))
        \/ tick' = tick + 1 /\ server = "updated" /\ server' = "waiting"
        \/ tick' = tick + 1 /\ server = "ending" /\ server' = "done"
    BY <1>4 DEF ServerTick, EndGame, LastTick, Newcomer, roomVars
  <2>4. FinalTile' = FinalTile
    BY <1>2, <2>1 DEF FinalTile
  <2>5. Seen'
    BY <1>2, <2>1, <2>2, <2>3, <2>4
    DEF Inv, Types, RoomTypes, MainTypes, Seen, UpdatesFollow, UpToDate, OneBehind, Agrees
  <2> QED BY <1>1, <2>1, <2>2, <2>5 DEF Inv, Types, RoomTypes
<1> QED BY <1>3, <1>4 DEF ServerRuns

\* A redraw by the input thread shows the room at once, a key changes the slot.
LEMMA InputKeepsInv ==
  ASSUME Inv, InputRuns
  PROVE  Inv'
<1>1. UNCHANGED <<server, map, changelog, tick, main, last, passed, changes, overtaken, lastStatus>>
  BY DEF InputRuns, CheckInputShutdown, Poll, Event, PressExit, PressKey, Act, Resize,
         RedrawResized, OnlyInput, roomVars, mainVars
<1>2. players' \in Players
  <2>1. CASE Act
    <3>1. CASE Pause(me) \/ Unpause(me) \/ Respawn(me)
      BY <3>1, SlotTypes
      DEF Pause, Unpause, Respawn, SetStatus, Inv, Types, RoomTypes, Statuses
    <3>2. ASSUME NEW arrow \in Arrows, SetPlayerDirection(me, arrow)
          PROVE  players' \in Players
      BY <3>2, SlotTypes, ShmClientAssumption DEF SetPlayerDirection, Inv, Types, RoomTypes
    <3>3. CASE UNCHANGED players
      BY <3>3 DEF Inv, Types, RoomTypes
    <3> QED BY <2>1, <3>1, <3>2, <3>3 DEF Act
  <2>2. CASE UNCHANGED players
    BY <2>2 DEF Inv, Types, RoomTypes
  <2> QED
    BY <2>1, <2>2 DEF InputRuns, CheckInputShutdown, Poll, PressExit, PressKey, Resize, RedrawResized
<1>3. resized' \in Shown
  BY DEF InputRuns, CheckInputShutdown, Poll, Event, PressExit, PressKey, Act, Resize,
         RedrawResized, Shown, Inv, Types, MainTypes
<1>4. RendererTypes' /\ UpdatesFollow' /\ (FinalTile' = FinalTile \/ Agrees')
  <2>1. CASE RedrawResized
    BY <1>1, <2>1, RedrawAgrees DEF RedrawResized, Inv, Types, MainTypes
  <2>2. CASE UNCHANGED rendererVars
    BY <1>1, <2>2
    DEF rendererVars, RendererTypes, UpdatesFollow, FinalTile, Inv, Types, Seen
  <2> QED
    BY <2>1, <2>2 DEF InputRuns, CheckInputShutdown, Poll, PressExit, PressKey, Act, Resize
<1>5. Seen'
  BY <1>1, <1>4 DEF Inv, Seen, UpToDate, OneBehind, Agrees
<1> QED BY <1>1, <1>2, <1>3, <1>4, <1>5 DEF Inv, Types, RoomTypes, MainTypes

\* The drawing thread.
LEMMA DrawerKeepsInv ==
  ASSUME Inv, DrawerRuns, UNCHANGED <<roomVars, slotVars, mainVars, inputVars>>
  PROVE  Inv'
<1>1. UNCHANGED <<server, map, changelog, tick, players, main, last, passed, changes, overtaken,
                  lastStatus, resized>>
  BY DEF roomVars, slotVars, mainVars, inputVars
<1>2. RendererTypes' /\ UpdatesFollow' /\ FinalTile' = FinalTile
  BY <1>1, DrawerKeepsFinal
<1>3. Seen'
  BY <1>1, <1>2 DEF Inv, Seen, UpToDate, OneBehind, Agrees
<1> QED BY <1>1, <1>2, <1>3 DEF Inv, Types, RoomTypes, MainTypes

\* A step of the main thread that draws nothing.
LEMMA Undisturbed ==
  ASSUME Inv, UNCHANGED <<server, map, changelog, tick, last, passed, changes, overtaken,
                          resized, queue, screen>>,
         main # "telling", main' \notin {"woken", "reading", "copying", "telling"},
         main' \in {"checking", "waiting"} => main \in {"checking", "waiting"},
         players' \in Players, lastStatus' \in Statuses
  PROVE  Inv'
<1>1. Types'
  BY DEF Inv, Types, RoomTypes, MainTypes, RendererTypes
<1>2. FinalTile' = FinalTile
  BY DEF FinalTile
<1>3. Seen'
  BY <1>2 DEF Inv, Seen, UpdatesFollow, UpToDate, OneBehind, Agrees
<1> QED BY <1>1, <1>3 DEF Inv

\* The main thread: what it has missed it draws anew, what it has not it copies.
LEMMA MainKeepsInv ==
  ASSUME Inv, MainRuns
  PROVE  Inv'
<1> USE DEF OnlyMain, roomVars, slotVars, inputVars, rendererVars
<1>t. Types /\ RoomTypes /\ MainTypes /\ RendererTypes /\ Seen
  BY DEF Inv, Types
<1>1. CASE RegisterPlayer \/ UnregisterPlayer
  <2>1. players' \in Players
    BY <1>1, <1>t, SlotTypes
    DEF RegisterPlayer, UnregisterPlayer, Register, Unregister, SetStatus, RoomTypes, Statuses
  <2> QED BY <1>1, <1>t, <2>1, Undisturbed DEF RegisterPlayer, UnregisterPlayer, MainTypes
<1>2. CASE InitObserver
  BY <1>2, <1>t
  DEF InitObserver, Inv, Types, RoomTypes, MainTypes, RendererTypes, Seen, UpdatesFollow
<1>3. CASE ReadInitState
  BY <1>3, <1>t, SlotTypes, Undisturbed DEF ReadInitState, RoomTypes
<1>4. CASE StartInput \/ RedrawAll
  <2>1. /\ Redraw(RedrawCommand(lastStatus)) /\ main' = "checking" /\ changes' = <<>>
        /\ UNCHANGED <<server, map, changelog, tick, players, last, passed, changes, lastStatus, resized>>
        /\ overtaken' \in BOOLEAN
    BY <1>4, <1>t DEF StartInput, RedrawAll, Seen, MainTypes
  <2>2. RendererTypes' /\ UpdatesFollow' /\ Agrees'
    BY <1>t, <2>1, RedrawAgrees DEF MainTypes, Shown
  <2>3. Seen'
    BY <1>t, <2>1, <2>2 DEF Seen
  <2> QED BY <1>t, <2>1, <2>2, <2>3 DEF Inv, Types, RoomTypes, MainTypes
<1>5. CASE CheckLoop \/ StopInput \/ JoinInput \/ JoinRenderer
  BY <1>5, <1>t, Undisturbed
  DEF CheckLoop, StopInput, JoinInput, StopDrawer, JoinRenderer, RoomTypes, MainTypes
<1>6. CASE WakeUp
  <2>1. /\ main = "waiting" /\ main' = "woken" /\ last # tick
        /\ passed' = tick - last /\ last' = tick
        /\ UNCHANGED <<server, map, changelog, tick, players, changes, lastStatus, overtaken,
                       resized, queue, screen>>
    BY <1>6 DEF WakeUp
  <2>2. passed' \in Nat \ {0}
    BY <1>t, <2>1 DEF RoomTypes, MainTypes, Seen
  <2>3. FinalTile' = FinalTile
    BY <2>1 DEF FinalTile
  <2>4. passed' = 1 /\ UpToDate' => OneBehind
    BY <1>t, <2>1 DEF UpToDate, OneBehind, RoomTypes, MainTypes
  <2>5. Seen'
    BY <1>t, <2>1, <2>2, <2>3, <2>4 DEF Seen, UpdatesFollow, Agrees, RoomTypes
  <2> QED BY <1>t, <2>1, <2>2, <2>5 DEF Inv, Types, RoomTypes, MainTypes, RendererTypes
<1>7. CASE CheckWoken
  <2>1. FinalTile' = FinalTile
    BY <1>7 DEF CheckWoken, FinalTile
  <2>2. Seen'
    BY <1>7, <1>t, <2>1 DEF CheckWoken, Seen, UpdatesFollow, UpToDate, OneBehind, Agrees
  <2> QED
    BY <1>7, <1>t, <2>2 DEF CheckWoken, Inv, Types, RoomTypes, MainTypes, RendererTypes
<1>8. CASE ReadState
  <2>1. /\ main = "reading" /\ passed' = 0
        /\ main' \in {"redrawing", "copying"}
        /\ main' = "copying" => ~(passed > 1)
        /\ lastStatus' \in Statuses
        /\ UNCHANGED <<server, map, changelog, tick, players, last, changes, overtaken,
                       resized, queue, screen>>
    BY <1>8, <1>t, SlotTypes DEF ReadState, RoomTypes
  <2>2. FinalTile' = FinalTile
    BY <2>1 DEF FinalTile
  <2>3. main' = "copying" => passed = 1
    BY <1>t, <2>1 DEF Seen, MainTypes
  <2>4. Seen'
    BY <1>t, <2>1, <2>2, <2>3 DEF Seen, UpdatesFollow, UpToDate, OneBehind, Agrees
  <2> QED BY <1>t, <2>1, <2>4 DEF Inv, Types, RoomTypes, MainTypes, RendererTypes
<1>9. CASE CopyChangelog
  <2>1. /\ main = "copying" /\ changes' = changelog
        /\ overtaken' = (overtaken \/ server = "updated" \/ tick # last)
        /\ main' = IF changelog = <<>> THEN "checking" ELSE "telling"
        /\ UNCHANGED <<server, map, changelog, tick, players, last, passed, lastStatus,
                       resized, queue, screen>>
    BY <1>9 DEF CopyChangelog
  <2>2. ~overtaken' => UpToDate /\ ~overtaken
    BY <2>1 DEF UpToDate
  <2>3. changes = <<>>
    BY <1>t, <2>1 DEF Seen
  <2>4. ~overtaken' => Agrees'
    <3>1. CASE changelog = <<>>
      BY <1>t, <2>1, <2>2, <2>3, <3>1 DEF Seen, Agrees, FinalTile
    <3>2. CASE changelog # <<>>
      BY <1>t, <2>1, <3>2 DEF Seen, Agrees, FinalTile
    <3> QED BY <3>1, <3>2
  <2>5. Seen'
    BY <1>t, <2>1, <2>4 DEF Seen, UpdatesFollow
  <2> QED BY <1>t, <2>1, <2>5 DEF Inv, Types, RoomTypes, MainTypes, RendererTypes
<1>10. CASE TellRenderer
  <2>1. /\ RendererTypes' /\ UpdatesFollow' /\ FinalTile' = FinalTile
        /\ changes' \in Seq(Contents)
        /\ main' = IF changes' = <<>> THEN "checking" ELSE "telling"
    BY <1>10, UpdateKeepsFinal
  <2>2. main = "telling" /\ UNCHANGED <<server, map, changelog, tick, players, last, passed,
                                        overtaken, lastStatus, resized>>
    BY <1>10 DEF TellRenderer
  <2>3. Seen'
    BY <1>t, <2>1, <2>2 DEF Seen, UpToDate, OneBehind, Agrees
  <2> QED BY <1>t, <2>1, <2>2, <2>3 DEF Inv, Types, RoomTypes, MainTypes
<1> QED
  BY <1>1, <1>2, <1>3, <1>4, <1>5, <1>6, <1>7, <1>8, <1>9, <1>10 DEF MainRuns

LEMMA NextInv == Inv /\ [Next]_vars => Inv'
<1> SUFFICES ASSUME Inv, [Next]_vars PROVE Inv'
  OBVIOUS
<1>1. CASE UNCHANGED vars
  BY <1>1 DEF vars, roomVars, slotVars, mainVars, inputVars, rendererVars, Inv, Types, RoomTypes,
              MainTypes, RendererTypes, Seen, UpdatesFollow, UpToDate, OneBehind, Agrees, FinalTile
<1> QED BY <1>1, ServerKeepsInv, MainKeepsInv, InputKeepsInv, DrawerKeepsInv DEF Next

\* The screen of a client of shm_client.c that has handled the latest tick and
\* drawn all of it shows the room, whatever its input thread has drawn meanwhile.
THEOREM ScreenIsCorrect == Spec => []ScreenFollowsRoom
<1>1. Inv => ScreenFollowsRoom
  BY DEF Inv, Seen, ScreenFollowsRoom, UpToDate, Agrees, FinalTile
<1> QED BY <1>1, InitInv, NextInv, PTL DEF Spec
=============================================================================
