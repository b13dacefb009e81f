----------------------------- MODULE ServerLife -----------------------------
(***************************************************************************)
(* The process of a server from its start to its end: server/main.c,       *)
(* server_init and server_destroy of server/server.c, map_loader.c, and    *)
(* the shared memory of libsnake/shm_game_state.c.  A tick is here only    *)
(* whether somebody was alive in it: the rest is ServerTick's.             *)
(*                                                                         *)
(* Unix: the name of a shared memory is there from shm_open to shm_unlink, *)
(* also when the process that made it has died; those who have it mapped   *)
(* keep it without its name.                                               *)
(*                                                                         *)
(* Left out: what fails while the memory is given back (munmap, close,     *)
(* shm_unlink) and in the mutexes and conditions, which ends the process   *)
(* as well.                                                                *)
(***************************************************************************)
EXTENDS Arguments

CONSTANTS
  MaxServers,  \* bound of the model: how many servers are started
  Clients,     \* the processes of players, as their pids
  RoomNames,   \* names of rooms
  MapFiles,    \* the map files: path -> [width, height, walls]
  MinWidth, MaxWidth, MinHeight, MaxHeight

ASSUME ServerLifeAssumption ==
  /\ MaxServers \in Nat
  /\ Clients \subseteq Nat \ {NoParent}
  /\ {MinWidth, MaxWidth, MinHeight, MaxHeight} \subseteq Nat
  /\ MinWidth <= MaxWidth /\ MinHeight <= MaxHeight

VARIABLES
  server,  \* each server
  shm,     \* which server has made the shared memory of the name
  flag     \* launched_signal_received of each client

serverVars == <<server, shm, flag>>

Servers == 1 .. MaxServers
NoServer == 0

Unborn == [stage |-> "unborn", asked |-> NoSettings, words |-> <<>>, settings |-> NoSettings,
           template |-> NULL, players |-> {}, played |-> FALSE]

\* The ends in which a process frees nothing of what it has put elsewhere: it is
\* killed, or exits by itself in a tick or while it makes its memory.
Abandoned == {"killed", "aborted", "unsized", "unmapped"}

\* What a process has not left behind it yet.
Alive(s) == server[s].stage \notin {"unborn", "refused", "failed", "ended"} \cup Abandoned

Listens(s) == server[s].stage \in {"listening", "running", "ending"} /\ server[s].settings.port # NoPort

ServerLifeInit ==
  /\ server = [s \in Servers |-> Unborn]
  /\ shm = [name \in RoomNames |-> NoServer]
  /\ flag = [c \in Clients |-> FALSE]

-----------------------------------------------------------------------------
(* map_loader.c and map_template.c                                         *)

EmptyTemplate(width, height) == [width |-> width, height |-> height, walls |-> {}]

\* The walls are at the places of the '#'s among the characters read: place n is
\* column n % width of its row.  Of a file that ends early or has no numbers
\* at its start the code reads uninitialised variables: the files here have both.
LoadTemplate(path) ==
  IF path \notin DOMAIN MapFiles THEN NULL ELSE
  LET file == MapFiles[path]
      fits == file.width \in MinWidth .. MaxWidth /\ file.height \in MinHeight .. MaxHeight
  IN  IF fits
        THEN [EmptyTemplate(file.width, file.height)
                EXCEPT !.walls = {<<n \div file.width, n % file.width>> : n \in file.walls}]
        ELSE NULL

TemplateOf(settings) ==
  IF settings.map # NULL
    THEN LoadTemplate(settings.map)
    ELSE EmptyTemplate(settings.width, settings.height)

-----------------------------------------------------------------------------
(* The steps of the process.                                               *)

At(s, stage) == server[s].stage = stage
Goes(s, stage) == server' = [server EXCEPT ![s].stage = stage]

\* Nothing of a process is left when it has ended, but what it has put elsewhere.
Ends(s, stage) == server' = [server EXCEPT ![s] = [Unborn EXCEPT !.stage = stage]]

\* What an abandoned memory holds stays: those who have taken a slot in it.
Remains(s, stage) == [Unborn EXCEPT !.stage = stage, !.players = server[s].players]

\* exit(EXIT_FAILURE) without server_destroy.
Abandons(s, stage) ==
  /\ server' = [server EXCEPT ![s] = Remains(s, stage)]
  /\ UNCHANGED <<shm, flag>>

\* fork and execv, which fails where there is no program to execute.  "asked" is
\* history: what the words have been made from.
Fork(s, asked, words) ==
  /\ At(s, "unborn")
  /\ server' = [server EXCEPT ![s] = [Unborn EXCEPT !.stage = "forked", !.asked = asked, !.words = words]]

ExecFails(s) ==
  /\ At(s, "forked")
  /\ Ends(s, "failed")
  /\ UNCHANGED <<shm, flag>>

Parse(s) ==
  /\ At(s, "forked")
  /\ LET settings == ParseArguments(server[s].words)
     IN  server' = [server EXCEPT ![s].settings = settings, ![s].words = <<>>,
                                  ![s].stage = IF settings = NoSettings THEN "refused" ELSE "parsed"]
  /\ UNCHANGED <<shm, flag>>

\* shm_game_state_init: O_EXCL lets nobody take the name of another.
CreateRoom(s) ==
  /\ At(s, "parsed")
  /\ LET room == server[s].settings.room
     IN  CASE room = NULL -> Goes(s, "sized") /\ UNCHANGED shm
           [] room # NULL /\ shm[room] # NoServer -> Ends(s, "failed") /\ UNCHANGED shm
           [] OTHER -> Goes(s, "created") /\ shm' = [shm EXCEPT ![room] = s]
  /\ UNCHANGED flag

\* ftruncate and mmap: the memory is zero.
SizeRoom(s) ==
  /\ At(s, "created")
  /\ Goes(s, "sized")
  /\ UNCHANGED <<shm, flag>>

\* Either of them fails.
SizeRoomFails(s) ==
  /\ At(s, "created")
  /\ \E stage \in {"unsized", "unmapped"} : Abandons(s, stage)

\* Mutant of the next: the name is left.
CloseShm(room) == UNCHANGED shm

\* shm_game_state_destroy: closed, and unlinked by its name.
DestroyShm(room) == shm' = [shm EXCEPT ![room] = NoServer]

\* server_destroy_game_state_memory
DestroyMemory(s) ==
  LET room == server[s].settings.room
  IN  IF room # NULL THEN DestroyShm(room) ELSE UNCHANGED shm

\* game_state_init, which knows of nobody who came before.
InitGame(s, template) ==
  server' = [server EXCEPT ![s].stage = "initialised",
                           ![s].template = template, ![s].players = {}]

LoadMap(s) ==
  /\ At(s, "sized")
  /\ LET template == TemplateOf(server[s].settings)
     IN  IF template = NULL
           THEN Ends(s, "failed") /\ DestroyMemory(s)
           ELSE InitGame(s, template) /\ UNCHANGED shm
  /\ UNCHANGED flag

\* The port, if there is one.  It may be refused also when nobody listens
\* there: connections of a server before linger.
Listen(s) ==
  /\ At(s, "initialised")
  /\ \A other \in Servers : Listens(other) => server[other].settings.port # server[s].settings.port
  /\ Goes(s, "listening")
  /\ UNCHANGED <<shm, flag>>

ListenFails(s) ==
  /\ At(s, "initialised")
  /\ server[s].settings.port # NoPort
  /\ Ends(s, "failed")
  /\ DestroyMemory(s)
  /\ UNCHANGED flag

\* kill(parent_, SIG_LAUNCHED)
TellParent(s) ==
  flag' = IF server[s].settings.parent \in Clients
            THEN [flag EXCEPT ![server[s].settings.parent] = TRUE] ELSE flag

\* Mutant of the next: the parent is told before the port has been opened.
TellEarly(s) ==
  /\ server[s].stage \in {"initialised", "listening"}
  /\ Goes(s, IF At(s, "listening") THEN "running" ELSE "initialised")
  /\ TellParent(s)
  /\ UNCHANGED shm

SignalLaunched(s) ==
  /\ At(s, "listening")
  /\ Goes(s, "running")
  /\ TellParent(s)
  /\ UNCHANGED shm

\* One turn of the loop of main.  It does not end before it has seen anybody.
Tick(s) ==
  /\ At(s, "running")
  /\ \E gameRunning \in BOOLEAN :
       /\ gameRunning => server[s].players # {}
       /\ server' = [server EXCEPT
            ![s].played = @ \/ gameRunning,
            ![s].stage = IF gameRunning \/ ~server[s].played THEN "running" ELSE "ending"]
  /\ UNCHANGED <<shm, flag>>

\* The exit of move_player_tail, which takes a player to move.
TickFails(s) ==
  /\ At(s, "running")
  /\ server[s].players # {}
  /\ Abandons(s, "aborted")

\* SIGINT; before the handler is there it would kill.
Interrupt(s) ==
  /\ At(s, "running")
  /\ Goes(s, "ending")
  /\ UNCHANGED <<shm, flag>>

\* server_destroy, two seconds after the clients have been told.
Destroy(s) ==
  /\ At(s, "ending")
  /\ Ends(s, "ended")
  /\ DestroyMemory(s)
  /\ UNCHANGED flag

ServerRuns(s) ==
  \/ ExecFails(s) \/ Parse(s) \/ CreateRoom(s) \/ SizeRoom(s) \/ SizeRoomFails(s) \/ LoadMap(s)
  \/ Listen(s) \/ ListenFails(s) \/ SignalLaunched(s)
  \/ Tick(s) \/ TickFails(s) \/ Interrupt(s) \/ Destroy(s)
=============================================================================
