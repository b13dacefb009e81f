------------------------- MODULE TickBroadcastProofs -------------------------
(***************************************************************************)
(* The view of a client follows the map, for any tiles and any number of   *)
(* ticks.  ViewFollowsMap is not inductive: it speaks of a client that has *)
(* caught up, and says nothing of the ones that are on their way.          *)
(***************************************************************************)
EXTENDS TickBroadcast, TLAPS

\* The tick whose content the map has: ahead of the count between the update
\* and the count of a tick, and behind it after the tick of the end.
MapTick ==
  CASE server = "updated" -> tick + 1
    [] server = "done"    -> tick - 1
    [] OTHER              -> tick

\* Nothing on the map is newer than the latest update, and what that update
\* wrote is in the changelog.
ChangelogIsLatest ==
  \A t \in Tiles :
    /\ map[t] <= MapTick
    /\ map[t] = MapTick /\ MapTick > 0 => t \in changed

\* The client's view lacks at most what ticks after number n have written.
ViewLacksOnly(n) == \A t \in Tiles : view[t] = map[t] \/ map[t] > n

\* A client that has woken up lacks the ticks that have passed, and one that
\* is about to wait only those still to come.
ViewIsUpToLast ==
  ~overtaken =>
    /\ client \in {"checking", "waiting"} => ViewLacksOnly(last)
    /\ client \in {"woken", "copying"} => ViewLacksOnly(last - passed)

\* The observer never runs ahead of the count.
ObserverIsBehind ==
  /\ last <= tick
  /\ client \in {"woken", "copying"} => 1 <= passed /\ passed <= last
  /\ server = "done" => tick >= 1

Inv == TypeOK /\ ObserverIsBehind /\ ChangelogIsLatest /\ ViewIsUpToLast

-----------------------------------------------------------------------------
LEMMA InitInv == Init => Inv
<1> SUFFICES ASSUME Init PROVE Inv
  OBVIOUS
<1>1. TypeOK /\ ObserverIsBehind
  <2>1. map \in [Tiles -> Nat] /\ view = map
    BY DEF Init
  <2>2. /\ server = "waiting" /\ client = "entering"
        /\ tick = 0 /\ last = 0 /\ passed = 0
        /\ changed = {}
    BY DEF Init
  <2>3. gameEnded \in BOOLEAN /\ overtaken \in BOOLEAN
    BY DEF Init
  <2> QED BY <2>1, <2>2, <2>3 DEF TypeOK, ObserverIsBehind, ServerStages, ClientStages
<1>2. ChangelogIsLatest
  <2>1. MapTick = 0
    BY DEF Init, MapTick
  <2>2. ASSUME NEW t \in Tiles
        PROVE  map[t] <= MapTick /\ ~(MapTick > 0)
    <3>1. map[t] = 0
      BY DEF Init
    <3> QED BY <2>1, <3>1
  <2> QED BY <2>2 DEF ChangelogIsLatest
<1>3. ViewIsUpToLast
  BY DEF Init, ViewIsUpToLast
<1> QED BY <1>1, <1>2, <1>3 DEF Inv

\* Preservation, by what the steps change: the four steps of the server leave
\* the client alone, and the client's leave the server alone.
LEMMA ServerStepInv == Inv /\ ServerStep => Inv'
<1> SUFFICES ASSUME Inv, ServerStep PROVE Inv'
  OBVIOUS
<1> USE DEF Inv, serverVars, clientVars
<1>1. CASE Update
  <2>1. TypeOK' /\ ObserverIsBehind'
    BY <1>1 DEF Update, TypeOK, ObserverIsBehind, ServerStages, ClientStages
  <2>2. \A t \in Tiles : map'[t] = IF t \in changed' THEN tick + 1 ELSE map[t]
    BY <1>1 DEF Update
  <2>3. ChangelogIsLatest'
    BY <1>1, <2>2 DEF Update, ChangelogIsLatest, MapTick, TypeOK
  <2>4. ViewIsUpToLast'
    BY <1>1, <2>2 DEF Update, ViewIsUpToLast, ViewLacksOnly, ObserverIsBehind, TypeOK
  <2> QED BY <2>1, <2>3, <2>4
<1>2. CASE Tick
  BY <1>2 DEF Tick, TypeOK, ObserverIsBehind, ChangelogIsLatest, ViewIsUpToLast,
              ViewLacksOnly, MapTick, ServerStages
<1>3. CASE EndGame
  BY <1>3 DEF EndGame, TypeOK, ObserverIsBehind, ChangelogIsLatest, ViewIsUpToLast,
              ViewLacksOnly, MapTick, ServerStages
<1>4. CASE LastTick
  BY <1>4 DEF LastTick, TypeOK, ObserverIsBehind, ChangelogIsLatest, ViewIsUpToLast,
              ViewLacksOnly, MapTick, ServerStages
<1> QED BY <1>1, <1>2, <1>3, <1>4 DEF ServerStep

LEMMA ClientStepInv == Inv /\ ClientStep => Inv'
<1> SUFFICES ASSUME Inv, ClientStep PROVE Inv'
  OBVIOUS
<1> USE DEF Inv, serverVars
<1>1. UNCHANGED serverVars
  BY DEF ClientStep, InitObserver, DrawFirst, Check, Wake, CheckWoken, Redraw,
         ApplyChangelog
<1>2. ChangelogIsLatest'
  BY <1>1 DEF ChangelogIsLatest, MapTick
<1>3. CASE InitObserver
  BY <1>2, <1>3 DEF InitObserver, TypeOK, ObserverIsBehind, ViewIsUpToLast, ClientStages
<1>4. CASE DrawFirst
  BY <1>2, <1>4 DEF DrawFirst, TypeOK, ObserverIsBehind, ViewIsUpToLast, ViewLacksOnly,
                    ClientStages
<1>5. CASE Check
  BY <1>2, <1>5 DEF Check, TypeOK, ObserverIsBehind, ViewIsUpToLast, ViewLacksOnly,
                    ClientStages
<1>6. CASE Wake
  BY <1>2, <1>6 DEF Wake, TypeOK, ObserverIsBehind, ViewIsUpToLast, ViewLacksOnly,
                    ClientStages
<1>7. CASE CheckWoken
  BY <1>2, <1>7 DEF CheckWoken, TypeOK, ObserverIsBehind, ViewIsUpToLast, ViewLacksOnly,
                    ClientStages
<1>8. CASE Redraw
  BY <1>2, <1>8 DEF Redraw, TypeOK, ObserverIsBehind, ViewIsUpToLast, ViewLacksOnly,
                    ClientStages
<1>9. CASE ApplyChangelog
  <2>1. TypeOK' /\ ObserverIsBehind'
    BY <1>9 DEF ApplyChangelog, TypeOK, ObserverIsBehind, ClientStages
  <2>2. ASSUME ~overtaken', NEW t \in Tiles
        PROVE  view'[t] = map[t] \/ map[t] > last
    <3>1. ~overtaken /\ server # "updated" /\ tick = last
      BY <1>9, <2>2, Zenon DEF ApplyChangelog
    <3>2. client = "copying" /\ passed = 1
      BY <1>9 DEF ApplyChangelog, ObserverIsBehind, TypeOK
    <3>3. view'[t] = IF t \in changed THEN map[t] ELSE view[t]
      BY <1>9, <2>2 DEF ApplyChangelog
    <3>4. view[t] = map[t] \/ map[t] > last - 1
      BY <3>1, <3>2, <2>2 DEF ViewIsUpToLast, ViewLacksOnly
    <3>5. CASE map[t] = tick
      <4>1. server # "done"
        BY <2>2, <3>5 DEF ChangelogIsLatest, MapTick, TypeOK
      <4>2. MapTick = tick /\ tick > 0
        BY <3>1, <3>2, <4>1 DEF MapTick, ObserverIsBehind, TypeOK
      <4> QED BY <2>2, <3>3, <3>5, <4>2 DEF ChangelogIsLatest
    <3>6. CASE map[t] # tick
      <4>1. map[t] <= tick /\ map[t] \in Nat /\ tick \in Nat
        BY <2>2, <3>1 DEF ChangelogIsLatest, MapTick, TypeOK
      <4> QED BY <3>1, <3>3, <3>4, <3>6, <4>1
    <3> QED BY <3>5, <3>6
  <2> QED BY <1>2, <1>9, <2>1, <2>2 DEF ApplyChangelog, ViewIsUpToLast, ViewLacksOnly
<1> QED BY <1>3, <1>4, <1>5, <1>6, <1>7, <1>8, <1>9 DEF ClientStep

LEMMA StutterInv == Inv /\ UNCHANGED vars => Inv'
BY DEF Inv, vars, serverVars, clientVars, TypeOK, ObserverIsBehind,
       ChangelogIsLatest, ViewIsUpToLast, ViewLacksOnly, MapTick

LEMMA InvHolds == Spec => []Inv
<1>1. Inv /\ [Next]_vars => Inv'
  BY ServerStepInv, ClientStepInv, StutterInv DEF Next, Terminated
<1> QED BY InitInv, <1>1, PTL DEF Spec

-----------------------------------------------------------------------------
\* The variables stay in their types.
THEOREM TypeCorrect == Spec => []TypeOK
BY InvHolds, PTL DEF Inv

\* A client that has handled the latest tick, whose changelog it got in time,
\* shows the server's map (client_connection.c:103-121, shm_client.c:130-144).
THEOREM ViewIsCorrect == Spec => []ViewFollowsMap
<1>1. Inv => ViewFollowsMap
  <2> SUFFICES ASSUME Inv, client \in {"checking", "waiting"}, last = tick,
                      server # "updated", ~overtaken
               PROVE  view = map
    BY DEF ViewFollowsMap
  <2>1. ASSUME NEW t \in Tiles PROVE view[t] = map[t]
    BY DEF Inv, ViewIsUpToLast, ViewLacksOnly, ChangelogIsLatest, MapTick, TypeOK
  <2> QED BY <2>1 DEF Inv, TypeOK
<1> QED BY <1>1, InvHolds, PTL
=============================================================================
