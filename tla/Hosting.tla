------------------------------ MODULE Hosting ------------------------------
(***************************************************************************)
(* Clients that host and join games: the loop of client/main.c, its menus  *)
(* (client/menu/*.c with the reading functions of client/terminal.c), and  *)
(* the launcher of client/server_launcher.c, with the servers they start.  *)
(* What a client does in a game is not here: it is the matter of           *)
(* SocketClient and ShmClient; how long a sleep lasts is left open.        *)
(***************************************************************************)
EXTENDS ServerLife

CONSTANTS
  TypedNames,    \* what players type for names, Empty for none
  TypedPaths,    \* ... for maps
  TypedPorts,
  TypedSizes,
  PrivateNames,  \* what the random numbers of a private room give
  CommandLines,  \* the words of servers started by hand
  MaxPlayers

\* Every name that is given is one of the names, what is typed is a text, and digits
\* where a number is asked for, and nobody who starts a server by hand gives a client
\* for its parent.
ASSUME HostingAssumption ==
  /\ (TypedNames \ {Empty}) \cup PrivateNames \subseteq RoomNames
  /\ NULL \notin TypedNames \cup PrivateNames \cup TypedPaths
  /\ \A line \in TypedPorts \cup TypedSizes :
       line = Empty \/ (line = Number(line.number) /\ line.number \in Nat)
  /\ \A words \in CommandLines :
       LET settings == ParseArguments(words)
       IN  settings # NoSettings =>
             settings.room \in RoomNames \cup {NULL} /\ settings.parent \notin Clients

VARIABLE client

vars == <<serverVars, client>>

NoGame == 0
NoChild == 0
AtMenu == [stage |-> "menu", settings |-> NoSettings, child |-> NoChild,
           game |-> NoGame, shared |-> FALSE]

Cancelled == [form |-> "cancelled"]
Typed(lines) == lines \cup {Cancelled}

Init ==
  /\ ServerLifeInit
  /\ client = [c \in Clients |-> AtMenu]

-----------------------------------------------------------------------------
(* The menus.  A line is what terminal_read leaves: letters are refused    *)
(* where a number is asked for.                                            *)

Atoi(line) == IF line = Empty THEN 0 ELSE line.number

\* terminal_read_port; the menus ask again while the port is invalid.
ValidPort(line) == line \in {Cancelled, Empty} \/ Atoi(line) <= 65535

\* host_menu_clamp_coordinate
Clamp(least, value, most) ==
  CASE value < least -> least
    [] value > most  -> most
    [] OTHER         -> value

\* host_menu: what a player has typed makes settings, or none.  The parent is
\* written by the launcher.
HostMenu(public, in) ==
  LET room == CASE ~public                   -> in.random
                [] public /\ in.name = Empty -> NULL
                [] OTHER                     -> in.name
      port == IF public /\ in.port \notin {Empty, Cancelled} THEN Atoi(in.port) ELSE NoPort
      blank == in.map = Empty
      leaves == \/ public /\ Cancelled \in {in.name, in.port}
                \/ room = NULL /\ port = NoPort
                \/ in.map = Cancelled
                \/ blank /\ Cancelled \in {in.width, in.height}
  IN  IF leaves THEN NoSettings ELSE
      [room |-> room, port |-> port, parent |-> NoParent,
       map |-> IF blank THEN NULL ELSE in.map,
       width |-> IF blank THEN Clamp(MinWidth, Atoi(in.width), MaxWidth) ELSE 0,
       height |-> IF blank THEN Clamp(MinHeight, Atoi(in.height), MaxHeight) ELSE 0]

HostInputs ==
  [name : Typed(TypedNames), random : PrivateNames, map : Typed(TypedPaths),
   port : {line \in Typed(TypedPorts) : ValidPort(line)},
   width : Typed(TypedSizes), height : Typed(TypedSizes)]

\* What can come out of the menu.
PublicSettings == {HostMenu(TRUE, in) : in \in HostInputs} \ {NoSettings}
PrivateSettings == {HostMenu(FALSE, in) : in \in HostInputs} \ {NoSettings}
HostSettings(public) == IF public THEN PublicSettings ELSE PrivateSettings

-----------------------------------------------------------------------------
(* server_launcher.c                                                       *)

\* Mutant of the next: the letters of map and name are swapped.
SwappedArguments(settings) ==
  (IF settings.room # NULL THEN <<Short(<<"m">>), settings.room>> ELSE <<>>) \o
  (IF settings.port # NoPort THEN <<Short(<<"p">>), Number(settings.port)>> ELSE <<>>) \o
  (IF settings.map # NULL
     THEN <<Short(<<"n">>), settings.map>>
     ELSE <<Short(<<"w">>), Number(settings.width), Short(<<"h">>), Number(settings.height)>>) \o
  <<Short(<<"a">>), Number(settings.parent)>>

\* The words behind the name of the program.
ArgumentsOf(settings) ==
  (IF settings.room # NULL THEN <<Short(<<"n">>), settings.room>> ELSE <<>>) \o
  (IF settings.port # NoPort THEN <<Short(<<"p">>), Number(settings.port)>> ELSE <<>>) \o
  (IF settings.map # NULL
     THEN <<Short(<<"m">>), settings.map>>
     ELSE <<Short(<<"w">>), Number(settings.width), Short(<<"h">>), Number(settings.height)>>) \o
  <<Short(<<"a">>), Number(settings.parent)>>

ClientAt(c, stage) == client[c].stage = stage
ClientGoes(c, stage) == client' = [client EXCEPT ![c].stage = stage]
BackToMenu(c) == client' = [client EXCEPT ![c] = AtMenu]

Wait(c, settings, child) ==
  client' = [client EXCEPT ![c].stage = "waiting", ![c].settings = settings, ![c].child = child]

\* Mutant of the next: what a server has signalled too late counts for the next.
LaunchWithoutReset(c, public) ==
  /\ ClientAt(c, "menu")
  /\ \E menu \in HostSettings(public), s \in Servers :
       LET settings == [menu EXCEPT !.parent = c]
       IN  Fork(s, settings, ArgumentsOf(settings)) /\ Wait(c, settings, s)
  /\ UNCHANGED <<shm, flag>>

\* The host menu, and the launch up to the sleep; servers get their numbers in order.
Launch(c, public) ==
  /\ ClientAt(c, "menu")
  /\ flag' = [flag EXCEPT ![c] = FALSE]
  /\ \E menu \in HostSettings(public), s \in Servers :
       LET settings == [menu EXCEPT !.parent = c]
       IN  /\ \A other \in 1 .. s - 1 : ~At(other, "unborn")
           /\ Fork(s, settings, ArgumentsOf(settings))
           /\ Wait(c, settings, s)
  /\ UNCHANGED shm

\* fork has failed, which nothing looks at.
ForkFails(c) ==
  /\ ClientAt(c, "menu")
  /\ flag' = [flag EXCEPT ![c] = FALSE]
  /\ \E menu \in HostSettings(FALSE) : Wait(c, [menu EXCEPT !.parent = c], NoChild)
  /\ UNCHANGED <<server, shm>>

\* The sleep ends by itself, by the server's signal, or by any other.
SleepEnds(c) ==
  /\ ClientAt(c, "waiting")
  /\ ClientGoes(c, IF flag[c] THEN "launched" ELSE "giving up")
  /\ UNCHANGED serverVars

\* SIGKILL for the child; for pid -1, for whatever the player may kill.
GiveUp(c) ==
  LET doomed == IF client[c].child # NoChild THEN {client[c].child} ELSE Servers
  IN  /\ ClientAt(c, "giving up")
      /\ server' = [s \in Servers |->
           IF s \in doomed /\ Alive(s)
             THEN Remains(s, IF At(s, "created") THEN "unsized" ELSE "killed") ELSE server[s]]
      /\ client' = [d \in Clients |->
           CASE d = c -> AtMenu
             [] d # c /\ client[c].child = NoChild -> [AtMenu EXCEPT !.stage = "killed"]
             [] OTHER -> client[d]]
      /\ UNCHANGED <<shm, flag>>

-----------------------------------------------------------------------------
(* Into the game and out of it.                                            *)

\* "shared": by shared memory.
Plays(c, s, shared) ==
  client' = [client EXCEPT ![c] =
               [AtMenu EXCEPT !.stage = "playing", !.game = s, !.shared = shared]]

Enter(c, s, shared) ==
  /\ server' = [server EXCEPT ![s].players = @ \cup {c}]
  /\ Plays(c, s, shared)

\* shm_client_run: the memory of a room that nobody has sized yet ends the
\* client (SIGBUS); one that is not initialised is taken as it is, zero.  A server
\* that exits in a tick, or is killed there, holds the mutexes of the slots: whoever
\* comes waits for them, registered or not.
OpenRoom(c, name) ==
  LET s == shm[name]
  IN  /\ \/ s = NoServer /\ BackToMenu(c) /\ UNCHANGED server
         \/ /\ s # NoServer /\ server[s].stage \in {"created", "unsized"}
            /\ ClientGoes(c, "killed") /\ UNCHANGED server
         \/ /\ s # NoServer /\ server[s].stage \in {"aborted", "killed"}
            /\ Plays(c, s, TRUE) /\ UNCHANGED server
         \/ /\ s # NoServer /\ server[s].stage \notin {"created", "unsized", "aborted"}
            /\ IF Cardinality(server[s].players) = MaxPlayers
                 THEN BackToMenu(c) /\ UNCHANGED server
                 ELSE Enter(c, s, TRUE)
      /\ UNCHANGED <<shm, flag>>

\* socket_client_run: what is refused, or full, comes back to the menu.
ConnectTo(c, port) ==
  /\ \/ \E s \in Servers :
          /\ Listens(s) /\ server[s].settings.port = port
          /\ Cardinality(server[s].players) < MaxPlayers
          /\ Enter(c, s, FALSE)
     \/ BackToMenu(c) /\ UNCHANGED server
  /\ UNCHANGED <<shm, flag>>

PlayLaunched(c) ==
  /\ ClientAt(c, "launched")
  /\ IF client[c].settings.room # NULL
       THEN OpenRoom(c, client[c].settings.room)
       ELSE ConnectTo(c, client[c].settings.port)

\* connect_menu_local
JoinLocal(c) ==
  /\ ClientAt(c, "menu")
  /\ \E name \in TypedNames \ {Empty} : name \in RoomNames /\ OpenRoom(c, name)

\* connect_menu_remote; hosts other than this one do not answer.
JoinRemote(c) ==
  /\ ClientAt(c, "menu")
  /\ \E line \in TypedPorts \ {Empty} : ValidPort(line) /\ ConnectTo(c, Atoi(line))

\* A game is left by the exit key or at its end.  Who shares its memory comes
\* out of the wait only by a tick: never, when the server has died, and who has
\* played with a dead server over a socket stays in its memory, if there is one.
Leave(c) ==
  LET s == client[c].game
  IN  /\ ClientAt(c, "playing")
      /\ client[c].shared => server[s].stage \in {"running", "ending", "ended"}
      /\ server' = [server EXCEPT ![s].players = IF server[s].stage \in Abandoned THEN @ ELSE @ \ {c}]
      /\ BackToMenu(c)
      /\ UNCHANGED <<shm, flag>>

ExitMenu(c) ==
  /\ ClientAt(c, "menu")
  /\ ClientGoes(c, "exited")
  /\ UNCHANGED serverVars

StartByHand ==
  /\ \E words \in CommandLines, s \in Servers :
       /\ \A other \in 1 .. s - 1 : ~At(other, "unborn")
       /\ Fork(s, NoSettings, words)
  /\ UNCHANGED <<shm, flag, client>>

\* What a key in the main menu leads to.
MainMenu(c) ==
  \/ \E public \in BOOLEAN : Launch(c, public)
  \/ ForkFails(c) \/ JoinLocal(c) \/ JoinRemote(c) \/ ExitMenu(c)

\* The loop of main.
ClientRuns(c) ==
  MainMenu(c) \/ SleepEnds(c) \/ GiveUp(c) \/ PlayLaunched(c) \/ Leave(c)

Next ==
  \/ \E s \in Servers : ServerRuns(s) /\ UNCHANGED client
  \/ \E c \in Clients : ClientRuns(c)
  \/ StartByHand

Spec == Init /\ [][Next]_vars

-----------------------------------------------------------------------------
(* The properties.                                                         *)

\* What has been started: the server has said so itself, or is about to.
Started(s) == s # NoChild /\ server[s].stage \in {"running", "ending", "ended", "aborted"}

\* A client enters a game it has launched only when server_init has come to its
\* end in the very server it has started: nothing another server has done, or one
\* that was given up has done too late, is taken for it.
LaunchedMeansReady ==
  \A c \in Clients :
    /\ ClientAt(c, "launched") => Started(client[c].child)
    /\ ClientAt(c, "waiting") /\ flag[c] => Started(client[c].child)

\* The name of a room is there for the server that made it and for no other, as
\* long as that one lives.  A name without its server, which keeps the room from
\* being hosted again (O_EXCL), is left only by a server that was killed or that
\* exited in a tick (server.c:109) or while it made the memory (shm_game_state.c:
\* 19, 48): neither by one that came to its end nor by one that could not start
\* for its map or its port.
RoomsBelongToServers ==
  /\ \A name \in RoomNames :
       LET s == shm[name]
       IN  s # NoServer => \/ Alive(s) /\ server[s].settings.room = name
                           \/ server[s].stage \in Abandoned
  /\ \A s \in Servers :
       Alive(s) /\ server[s].stage \notin {"forked", "parsed"} /\ server[s].settings.room # NULL
         => shm[server[s].settings.room] = s

\* What comes out of the menu is what the server parses out of its arguments,
\* never refused, and the map it makes of it fits its arrays.
ServersGetTheirSettings ==
  \A s \in Servers : server[s].asked # NoSettings =>
    /\ ~At(s, "refused")
    /\ server[s].settings \in {NoSettings, server[s].asked}
    /\ server[s].template # NULL =>
         /\ server[s].template.width \in MinWidth .. MaxWidth
         /\ server[s].template.height \in MinHeight .. MaxHeight
=============================================================================
