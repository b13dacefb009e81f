----------------------------- MODULE MCStaleTail -----------------------------
(***************************************************************************)
(* One behaviour of ServerTick, scripted: every step is a step of Next, the *)
(* script only says which operation the clients call next and which tile   *)
(* the server's random searches return.                                    *)
(*                                                                         *)
(* Player 0 takes the tail of player 2, which is about to crawl on, but    *)
(* the fruit of player 1, who joins between their turns, lands in front of *)
(* player 2.  It eats, and its cached tail stays on a tile of player 0.    *)
(* Player 2 pauses until a fruit lands on that tile, and eats it: the      *)
(* cached tail is now its own head.  Crawling on empties that tile and     *)
(* cuts the snake in two; the next searches find the tail of the rear      *)
(* part, whose last tile has nothing behind it but the gap: the third      *)
(* search fails.                                                           *)
(***************************************************************************)
EXTENDS ServerTick

\* The operation a client makes: after which tick, on which slot, and the
\* status or the direction it sets.
Operation(tick, slot, to) == [tick |-> tick, slot |-> slot, to |-> to]

Script ==
  << Operation(0, 0, "Joining"), Operation(0, 1, "Joining"),
     Operation(0, 2, "Joining"), Operation(0, 1, "NotConnected"),
     Operation(1, 1, "Joining"),
     Operation(2, 2, "Paused"),  Operation(2, 1, "Disconnecting"),
     Operation(3, 1, "Joining"),
     Operation(4, 2, "Playing"), Operation(4, 0, "Disconnecting"),
     Operation(4, 1, "Disconnecting"),
     Operation(5, 2, "down") >>

\* The tiles that change in the ticks that search for random ones.
Changed ==
  << << <<0, 0>>, <<4, 0>>, <<3, 1>>, <<1, 1>>, <<1, 0>>, <<0, 2>> >>,
     << <<1, 0>>, <<4, 0>>, <<0, 0>>, <<3, 2>>, <<2, 2>>, <<1, 2>>, <<1, 2>>, <<4, 1>> >>,
     << <<2, 0>>, <<0, 0>>, <<1, 0>>, <<2, 2>>, <<3, 2>> >>,
     << <<3, 0>>, <<1, 0>>, <<2, 0>>, <<3, 2>>, <<2, 2>>, <<1, 0>> >>,
     << <<1, 0>>, <<2, 0>>, <<2, 2>>, <<3, 0>>, <<3, 2>>, <<4, 2>> >> >>

FollowsOperations ==
  /\ operations' # operations =>
       LET o == Script[operations + 1]
       IN  /\ stage = "idle" /\ ticks = o.tick
           /\ o.to \in {players'[o.slot].status, players'[o.slot].direction}
           /\ players[o.slot] # players'[o.slot]
  /\ ticks' # ticks =>
       \A k \in operations + 1 .. Len(Script) : Script[k].tick > ticks

FollowsTiles ==
  ticks \in DOMAIN Changed =>
    /\ Len(data'.changelog) <= Len(Changed[ticks])
    /\ \A k \in DOMAIN data'.changelog :
         data'.changelog[k].coordinates = Changed[ticks][k]

ScriptedSpec == Init /\ [][Next /\ FollowsOperations /\ (ticks' = ticks => FollowsTiles)]_vars

FieldWalls == {<<0, 1>>, <<2, 1>>}
=============================================================================
