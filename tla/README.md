# A TLA+ model of the snake game

The repository is a multiplayer snake game in C: a server process that ticks
the game, clients that start servers and follow them through a socket or through
shared memory, and a library (`libsnake`) with the state they share. This
directory holds TLA+ modules of all of it that has behaviour of its own, TLC
configurations that check them on small instances, and proofs that the TLA+
proof system checks for all instances.

Paths below are relative to the repository's root; `PROJECT.json` gives, for
every definition that models code, the lines it stands for.

## 1. The system

### Components

| component | state | operations | interacts through |
|---|---|---|---|
| server tick, `server/server.c` | cache of each snake's head and tail tile | `server_tick` gives each slot its turn, sweeps dead tiles, spawns fruits; `server_end_game` | locks map, then changelog, then all slots; ticks the ticker |
| main loop, `server/main.c` | `game_running`, `game_ticked_at_least_once`, `interrupted` | starts the server, signals its parent, ticks until nobody is alive or a signal comes, cleans up | calls the server |
| map, `libsnake/map` | tiles: type, owner, order | setters, movement on the torus, flood of a dead snake, neighbour searches, random search | under the map's mutex |
| players, `libsnake/player` | 64 slots: status, direction, a mutex each | register, unregister, pause, unpause, respawn, direction; `for_each` with all the mutexes | clients' threads and the tick |
| changelog, `libsnake/changelog` | array of tile changes, cleared by each tick | push, copy, copy and apply | written by the tick, copied by the clients |
| ticker, `libsnake/ticker.c` | count of ticks, mutex, condition variable | `ticker_tick`; observers wait for the count to change | wakes the clients |
| connection, `server/client_connection.c` | two threads, `shutdown_`, `player_id_` | send thread: register, send map or changelog, unregister; receive thread: operations of the player | slots, ticker, changelog, signals between the threads |
| connection handler, `server/client_connection_handler.c` | table of connections | accept, check the magic bytes, destroy | starts and joins connections |
| sockets, `libsnake/socket` | file descriptor | reads and writes in pieces, messages | connections, socket clients |
| shared-memory client, `client/shm_client.c` | last status and direction seen, `exit` | the loop over ticks; callbacks of keys | slots, ticker, map and changelog, renderer |
| socket client, `client/socket_client.c` | the same, and a map built from messages | the loop over messages; callbacks of keys | socket, renderer |
| renderer, input, `client/` | command queue, threads | draw, read keys | the clients, signals |
| launcher, `client/server_launcher.c` | `launched_signal_received` | fork a server, wait for its signal, kill it when it does not come | command line, signals |
| menus, `client/menu`, `client/terminal.c` | none | ask what to host or join, and with which settings | launcher, clients |
| arguments, `server/argument_parser.c`, `libargs` | table of options | parse a command line, check it | menus to server |
| map files, `server/map_loader.c` | none | read sizes and walls | server's start |
| rooms, `libsnake/shm_game_state.c` | a shared-memory object | create, open, close | server and shared-memory clients |

### What is hard about it

* **Snakes that follow each other's tails.** A snake may move onto the tile
  that another snake's tail is about to leave. The code decides that from the
  other's slot number, its status, its cached tail and the tile ahead of it,
  in the *follower's* turn; the other snake moves only in its own turn, after
  the turns of the slots between them.
* **Derived state.** Order numbers of tiles, the cached heads and tails, the
  dead tiles that wait for the sweep, and the changelog all repeat what the
  map says, each in its own way.
* **Who owns a slot.** A slot goes from client to client; registering searches
  one mutex at a time, the tick frees slots, and a connection's receive
  thread may act for a player that its send thread has just unregistered. A local
  client's input thread holds a pointer to the slot itself.
* **Following the ticks.** Map, changelog and tick count have a mutex each. A
  client reads them in separate critical sections; the flag that the game is
  over has no mutex at all.
* **Threads, signals and blocked calls.** A connection has two threads in the
  server, a client three. They end each other with flags, signals and condition
  variables that may come before the call they are to interrupt; a read does not
  notice the end of its stream, and a write may find a broken connection.
* **Pointers and numbers that go stale.** The table of connections is moved when
  it grows, while the threads of the connections point into it; a descriptor that
  one thread closes is given to the next peer while the other thread reads it.
* **Streams.** A message is written and read in pieces of any size, by loops that
  do not go on where the last piece ended.
* **Starting servers.** A client forks a server, hands it its settings as words
  of a command line, sleeps until a signal says that it is ready, and gives up
  on it otherwise; names of rooms are there from the creation of their memory,
  before there is a game in it, until they are unlinked, which a server that is
  killed, or exits in the middle of a tick, does not do.
* **The screen.** Two threads ask for redraws and updates, a third draws them
  later, from a map that has changed since.

`PROJECT.json` lists each hazard at its line with the properties that cover it.

### What makes each component correct

* tick: it never comes to its "this should not happen"; every snake is one
  trail from head to tail; fruits are conserved; the changelog is complete and
  fits its array; paused snakes do not move; the game ends only when nobody plays.
* map: the recursive searches return what the tick relies on.
* players: one owner per slot, no slot freed under its owner, none lost.
* ticker and loops around it: a client that keeps up shows the server's map;
  every client learns that the game is over.
* connection and client: what one side says is what the other expects; both
  threads of a connection end, and its slot is given up, after any failure;
  the player learns of its death.
* connection handler: no thread uses memory or a descriptor that is not its own
  any more; every peer is heard; the server ends.
* messages: what is read is what was written, in order.
* local client: the input thread uses nothing its main thread has given up; the
  screen follows the room.
* renderer: no wake-up is lost, the queue is read as what it is, and the screen
  shows what was last told when nothing is left to draw.
* launcher, arguments, rooms: what a client enters after a launch is ready; a
  name leads to the memory of a server that has made it; a server gets the settings
  that were chosen in the menu.

## 2. Modules

```
GameConstants ── SnakeMap ─────┬── MapAlgorithms ── MCServerWall
      │             │          └── SnakeGame                    (abstract)
      │             └─────┐
      ├── PlayerManager ──┴─ ServerTick ── ServerTickRefinement ── MCServerTick
      │        │                 │                      └── ServerTickProofs
      │        │                 └── MCStaleTail
      │        ├──── PlayerSlots ── PlayerSlotsProofs, MCPlayerSlots
      │        └──┬─ ShmClient ── ShmClientProofs, MCShmClient
      │  Renderer ┘
      └── PlayerLifecycle                                       (abstract)
TickBroadcast ── TickBroadcastProofs, MCTickBroadcast

Socket ─┬── ConnectionProtocol ──┬── SocketClient ── SocketClientProofs,
        │   (abstract)  Renderer ┘                   MCSocketClient
        └── ClientConnection ── ConnectionProofs, MCClientConnection
            (extends PlayerManager, implements ConnectionProtocol)
Wire ── ConnectionProofs, MCWire
ConnectionHandler ── ConnectionHandlerProofs

Arguments ── ServerLife ── Hosting ── HostingProofs, MCHosting
```

**GameConstants, SnakeMap, PlayerManager** hold what the others share: slots
and directions, the field (a map is a function from coordinates to tiles), and
the operations on a slot. `MarkPlayerAsDead` defines the flood by what it
reaches, the neighbour searches by the set of candidates and the order of the
directions, the random search by the set of tiles it may return;
**MapAlgorithms** has all of them as the recursion and the comparisons of
`map.c`, and justifies these definitions on the maps that ServerTick makes.

**ServerTick** is the core: `server_tick`, every branch of
`server_tick_process_player`, and the loop of `main`. Its variable `data` is
`process_player_data_t` with what the pointers in it point to: map, changelog
and cache. One action is one slot's turn (`Spawn`, `FailToSpawn`,
`RemoveDisconnected`, `Rest`, `Crawl`, `Eat`, `Crash` are the branches), one
step of the sweep, or one fruit; they are steps of one thread, kept apart
because what one turn leaves behind is what the next one reads. The random
choices of the code (tiles) are nondeterministic. Clients' operations
interleave wherever the slots' mutexes are free: between ticks, and after the
turns. `failed` stands for `exit(EXIT_FAILURE)`; `before` is a history variable,
the map at the start of the latest tick. The clock is left out: a tick comes
at any time.

**PlayerSlots** looks at the same slots from the clients' side: `for_each`
takes and releases the mutexes one at a time, and `register` searches the
same way. A client is a connection or a process of a shared-memory room; its
second thread checks that the client has not left (`BeginOperation`) and acts
(`FinishOperation`) in two steps, so that it may act on a slot that is
somebody else's by then. A crash leaves the slot as it is. A turn has any
outcome its status allows; the map is left out.

**TickBroadcast** models the ticker and the loops around it. A tile's content
is the number of the tick that last wrote it. Wherever the code releases one
mutex before it takes the next, there are two actions.

**Socket** is the connection between the two processes: two streams of whole
messages with room for `BufferSize` each, which either side may close. What the
kernel makes of that is in its operations: a write blocks while the stream is
full, a closed end resets the connection when something comes to it or has been
left in it, and a read at the end of a stream goes on, as the loop of
`socket_read` does. (A signal may end a write too; that is in ClientConnection.)

**Wire** says when a message may be taken for one step: it has one direction of
a connection as bytes, the encoding and decoding of `socket_message.c` field by
field, and the two loops of `socket.c`. The kernel may take or give a part of
what it is asked for; the next call asks for the rest, but from the start of the
buffer. What a buffer holds before it is read into is arbitrary (`Garbage`). A signal
that ends a read, or a write before its first byte, is left to ClientConnection.

**ClientConnection** is the server's side, both threads of
`client_connection.c`, with the ticks and the connection handler as far as the
threads meet them. One action is what a thread does between two blocking
calls or between two looks at what the other one writes. The signal of
`client_connection_shutdown` goes to both threads. `AfterSignal` says what it does
to the receive thread at each of its stages; `SignalSender`, what it does to the send
thread when another thread sends it: if that waits for room in the stream
(`IsBlocked`), its write fails (`SIG_DESTROYED` restarts nothing), and the message is
lost although the connection is intact, and what comes behind it, which may be the
end of the game, is still told. ConnectionProtocol allows for exactly that.

**ConnectionHandler** is the thread of `client_connection_handler.c`: the accept
loop that waits for the magic bytes of one peer before it accepts the next, the
table that `realloc` moves (`stale` has the connections whose threads still point
to where it was), and the clean-up after the game. The connections' threads are
there with their life only. An accept may fail at any time for want of a descriptor, or
because the peer has gone (`AcceptFails`): the loop then ends and every connection is
shut down, whether the game is over or not; `acceptFailed` notes it. A descriptor is the lowest free number and may be
used again (`files`); `misplayed` notes that a thread read a message that was
another peer's, `crashed` that it used memory that had been freed.

**SocketClient** is the other side of the connection: the main thread's loop over
messages, the input thread with the callbacks of the keys, and **Renderer**, the
queue of commands and the thread that draws them. The drawing thread's mutex is
seen in `QueueIsFree`: it holds it from its look at the flag until it draws or
waits, and "dozing" is the moment between its look at the queue and the wait. The
map is one tile, as tiles are drawn independently of one another.

The two sides are composed through **ConnectionProtocol**, which says what a
server may say, and when, and that a client may say anything: `ClientConnection`
implements it, with the server's place in it as the refinement mapping
(`Place`), and `SocketClient` runs against every server that keeps to it.

**ShmClient** is the client of a shared-memory room, from its registration to
its unregistration, with the same Renderer. The server is a tick that changes the
tile and turns the slot as PlayerLifecycle allows; the changelog is the sequence
of contents that the tick has written. `owner` says whose the slot is, since the
callbacks of the input thread write to it through a pointer.

**Arguments** is the command line: the parser of `libargs` with its hash table, as
functions over words (a word is what the parser looks at: short options, long
options, assignments, numbers, text), and `argument_parser.c` on top of it.
**ServerLife** is the process of a server from `fork` or a shell to its end: parse,
create the shared memory, load the map file, initialise, listen, tell the parent,
run, clean up; and what Unix makes of the memory's name. A process may also end
without a clean-up (`Abandoned`): killed, by the exit of a tick (`TickFails`: the
finding of section 5 comes to it), or because its new memory cannot be sized or
mapped (`SizeRoomFails`). The name of its room then stays, and leads to what is left:
whoever opens memory without a size dies, whoever enters a room whose server died at
work may wait for ever for the mutexes of the slots. **Hosting** adds the
clients around it: the menus, the launcher, and joining. What goes on in a game
is left to the other modules.

**PlayerLifecycle** and **SnakeGame** are the abstract specifications: what may
happen to the status of a slot, and the game as its players see it, with a
snake as a sequence of tiles, no orders, no caches and no ticks (`owed` marks a
snake whose last tile another has taken and that will therefore not lose one
when it crawls). `PlayerSlots` and `ServerTick` implement PlayerLifecycle;
`ServerTickRefinement` reads the snakes off the tiles' orders and shows that
ServerTick implements SnakeGame. Neither has a run of its own: what they say is
what the implementations are held to.

Definitions whose comment begins with "Mutant of the next" are not part of any
specification: each is the definition after it with a plausible mistake, used
to show that a property notices the mistake.

## 3. Runs

| run | instance | what it shows |
|---|---|---|
| `ServerTick_pair` | 2 players, ring of 5 tiles with an alcove of 2, 4 ticks, 3 client operations | all the invariants of the tick, the two action properties, and that ServerTick implements PlayerLifecycle |
| `ServerTick_wall` | 2 players, 2x3 torus with a wall, 7 ticks, 2 operations | snakes that grow until they fill the field, turn, pause and crash into the wall or each other implement SnakeGame; the recursive searches compute what SnakeMap says on every map they make |
| `ServerTick_stale_tail` | 3 players, 5x3 torus with two walls, one scripted behaviour | the violation of `NeverFails`, see section 5 |
| `PlayerSlots` | 3 clients, 2 slots, no bound | ownership of slots; implements PlayerLifecycle |
| `TickBroadcast` | 2 tiles, 4 ticks | the client's view, and (under fairness) that clients wake and leave |
| `SocketClient` | 1 message in each stream, a queue of 2 commands, 2 contents of the tile, 1 status, a key | the screen follows the map and the status; commands behind an update are updates; no wake-up for a command is lost; (under fairness) exit key and end of the game are seen |
| `SocketClient_leave` | the same with a queue of 1 and 1 content | the violation of `LeavingEnds`, see section 5 |
| `ClientConnection` | 1 slot, 1 message in each stream, 1 content, keys to pause and respawn | ClientConnection, with signals that take a message from a write, implements ConnectionProtocol; (under fairness) statuses are told, slots given up, threads joined |
| `Wire` | one message of each form, 2 of them in a row, 2 transfers cut short, bytes of base 13 | a message that was cut is garbled but leaves those behind it in place, unless the dimensions of a map were cut; (under fairness) everything is read |
| `ConnectionHandler` | 2 peers, a table with room for 1 | who uses descriptors and memory when; (under fairness) every peer is heard until an accept fails, the server ends |
| `Hosting` | 2 clients, 2 servers, typed names, sizes and ports of every kind the menus distinguish, 3 command lines by hand | launched servers are ready; which servers' names stay behind; settings get through the command line |
| `ShmClient` | 1 slot, 2 ticks of up to 2 changes each, a queue of 2 | no key is played for the slot's next owner; the screen follows the room |

### Bounds, and why they are enough

* *Field.* Snakes enter with their tail upwards where there is room, and head
  downwards. On the ring (`RingWalls`: the first column of a 5x2 torus, with two
  free tiles beside it) they are therefore soon behind one another, so that
  tails are followed without a turn, with and without a free tile ahead, and
  wrapping around the edge; with two snakes and their fruits the field is
  nearly full, so that snakes crash, joining fails for want of room and fruits
  are lost. On a 2x3 torus up and down lead to the same tile, left and right do
  not: a snake fills it in all the ways it can wind.
  Fields with a single row or column are left out of the tick's runs: there a
  snake's two first tiles could be the same one. (`constants.h` wants at least ten
  of each; the menus and a map file keep to that, a size given by hand on the
  command line is not checked.)
* *Players.* Two suffice for each pairwise interaction. They do not suffice
  for the finding of section 5, which needs a third slot between the two;
  three players on a field large enough for it are out of reach of an
  exhaustive search, hence the scripted run.
* *Ticks and operations* (`MaxTicks`, `MaxOperations`) bound the length of the
  behaviours. Two operations are needed for two players to join, one more
  to pause, turn, leave or come back; three ticks let a snake enter, grow
  and be followed, four let it die and come back, seven let it fill the field.
* `PlayerSlots`: with three clients and two slots, one client can be late on a
  slot that a second owns while a third finds the room full. Clients are
  interchangeable, hence the symmetry; the run has no liveness property.
* `TickBroadcast`: a client has to miss none, one, and more than one tick,
  before and after the end of the game: four ticks. A tile that has changed and
  one that has not: two tiles. `IsLocal` is true in the run, which allows
  the behaviours of a connection and those of a local client, which copies the
  whole map also when its status has changed.
* The connection: with one message in each stream every write may block. One slot
  may be free or taken, which is what the connection sees of the others. The
  protocol does not ask which map is sent (TickBroadcast does), so that
  `ClientConnection` needs one content only; for the screen two contents tell an
  old tile from a new one. The key is one that is refused in one of the
  directions the client is told and sent in the other. A queue of two
  has a command behind another, an update behind a redraw or behind an update; with
  one alone `UpdatesAreUpdates` would say nothing. `SocketClient_leave` needs no queue
  to speak of: the drawing thread sleeps because it is empty. Renderer and client are
  proved for every bound of the queue.
* `Wire`: `Base` is larger than any type of a message and small enough that numbers
  need two digits, so that the order of digits counts. Two messages show whether
  the second is where the reader looks for it; two short transfers let one be cut
  while written and while read. The map has one row and two columns.
* `ConnectionHandler`: one peer can be admitted, leave its descriptor to the second
  while its own thread still reads, and be in a table that the second makes grow.
* `Hosting`: `MaxServers` = 2 lets a client launch again after a launch that it gave
  up, or join, by its name, the server of another while that is starting, or has been
  killed. The map files and the sizes contain those that are refused; a room may
  be named like an option; a port is missing, good, or out of range.
* `ShmClient`: with one slot, that of a client who has left is the next one's. Two
  ticks let one be missed; two changes and a queue of two let a changelog be half
  drawn when the next one comes. Contents are interchangeable, and the run has
  no liveness property.

### Deadlock

It is checked in the runs of the tick, the slots and the broadcast, where the
specifications say when the program ends or a bound is reached (`Terminated`), so
that every other state without a successor is an error. It is not checked
where the program may stop for good: both sides of a connection end
(`ClientConnection`, `SocketClient`), and the client may hang where section 5
says; a stream is read to its end (`Wire`); the handler ends, or waits for a peer
that does not come (`ConnectionHandler`); clients leave, or wait for ever for a
server that has died (`Hosting`, `ShmClient`).

### Fairness

`TickBroadcast!FairSpec`: weak fairness of the server's thread and of the
client's; a broadcast wakes every waiting thread, and no step of a thread is
disabled again before it is taken.
`ClientConnection!FairSpec`: weak fairness of each thread of the server, and a
client that reads what it is told as long as it keeps its end open; it need not
say anything, nor close. `SocketClient!FairSpec`: weak fairness of the drawing
thread and of what the input thread does by itself; strong fairness of the main
thread, which competes with the drawing thread for the mutex of the queue: the
drawing thread takes it only for commands, and the ones that are not the main
thread's come from a window that somebody resizes. After the client has asked
its input thread to end, the user presses some key if nothing else wakes that
thread (the signal may have come before the wait for a key). The server is not
fair at all: `ExitIsSeen` says what the exit key needs of it.
`Wire!FairWireSpec`: both processes go on with their loops; that a transfer is not cut
short for ever is the bound `MaxShort`. `ConnectionHandler!FairSpec`: the handler's
thread, the threads of each connection, and the main thread once the game has
ended; and every peer goes at some time, without which one that says nothing
would hold the accept loop for ever; no accept has to fail (`EveryoneIsHeard` and
`ServerEnds` name what is still in the way; for the former that is also an accept that
has failed, after which nobody is heard).

## 4. Proofs

TLC checks small instances; the theorems hold for every number of players,
every field, every set of walls, every number of clients, servers, peers, ticks
and operations, and every hash. They rest on nothing but the named assumptions
on the constants (`MaxPlayersAssumption`, `MapAssumption`, `ServerTickAssumption`,
`TickBroadcastAssumption`, `SocketAssumption`, `ProtocolAssumption`,
`MapVersionsAssumption`, `KeyMessagesAssumption`,
`RendererAssumption`, `ShmClientAssumption`, `HandlerAssumption`, `WireAssumption`,
`HashAssumption`, `ServerLifeAssumption`, `HostingAssumption`), which TLC
evaluates in the runs, except that all but one of those about snakes in
ServerTickProofs have hypotheses of their own, below. Of the assumptions that the
code does not make by itself, `WireAssumption` says that the messages sent are those the
code makes (their numbers fit their fields, and a map has no more tiles than a
coordinate counts: `constants.h` has 5000 at most), `HashAssumption` says that the twelve keys are hashed,
`ServerLifeAssumption` that the least sizes are below the largest, and
`HostingAssumption` that digits are typed where a number is asked for
(`terminal_read` refuses anything else) and that who starts a server by hand names no
client as its parent.

**ServerTickProofs**, part 1: `TypeCorrect` (types, and no entry of the cache is read
before a spawn has written it), `WallsAlwaysStand`, `DeadTilesAreSwept` and
`ChangelogIsComplete`. None of the four is inductive. The invariant `IInv` adds
what holds *inside* a tick: the changelog accounts for every tile that is not
dead (`Reported`), dead tiles exist only until the sweep and only while
`player_died_` is set, and no more fruits have been eaten than turns taken. The
argument is one lemma, `WrittenTileIsReported`: writing a tile and pushing it
keeps `Reported`, because the push is the last change of that tile and
touches no other. `Progress(d, e, old)` is what each handler of `server.c` keeps
of the data, it composes, and there is a lemma that each handler makes
progress (`HeadProgress`, `TailProgress`, `FruitProgress`, `SpawnProgress`);
`KillChangesTiles` is the exception that leaves tiles unreported, as dead ones.
Then there is one lemma per action.

On top of the same invariant, `TickImplementsLifecycle` (each branch of a turn gives
a slot a status that PlayerLifecycle has behind the one before; `index` tells which
slots are still due), `OnlyTheDeadEndTheGame` and `PausedSnakesAreSafe`. The game's
end needs an invariant of its own: in the middle of a tick `no_player_alive` speaks
for the slots that have had their turn, and only after the last of them for all.

**ServerTickProofs**, part 2, is about the snakes, on any field and for any number of
players. Two hypotheses come back in it. `Roomy` is that the field has at least two rows and
two columns, so that a tile is not its own neighbour: `map_loader.c:22` asks for
more than that of a map file, nobody asks it of a size on the command line.
`NobodyEatsAtItsTail` says that no snake eats the fruit on a tile that its own cached
tail names. That is not an assumption on the environment but what the code would
have to see to: step 4 of the finding in section 5 is a snake that does. What is
shown is that nothing else can go wrong, and that with two players this cannot.

| theorem | says | under |
|---|---|---|
| `SnakesStayTrails`, `TailIsAlwaysFound` | `SnakesAreTrails`, `NeverFails` | `Roomy`, `[]NobodyEatsAtItsTail` |
| `TailCacheIsRight` | `TailCacheFollows` | `Roomy`, `[]WholeSnakesEat` (no snake eats while its tail tile is another's: step 3 of the finding) |
| `ChangelogHasRoom` | `ChangelogFits` | `Roomy`, `[]NobodyEatsAtItsTail` |
| `TickPlaysTheGame` | `ImplementsGame` | `Roomy`, `[]NobodyEatsAtItsTail` |
| `PairsKeepTrails`, `PairsNeverFail`, `PairsKeepTailCaches`, `PairsHaveRoom`, `PairsPlayTheGame` | the five properties above | `Roomy`, `MaxPlayers <= 2` |
| `NoFruitIsLost` | `FruitsLast` | nothing |

* *Trails.* `Trail(T, map, head, last)` says of a set of tiles what `SnakesAreTrails`
  says of a snake, and which tile is its last. The invariant `Snakes` adds what
  the cached tail may be: the last tile, and then not the head, or a neighbour of
  the last tile that is not the snake's own. That is all the search of
  `move_player_tail` needs (`LastIsFound`: from a tile beside the last one of a trail,
  the neighbour with the lowest order is that last one), and it is what a turn of
  *another* snake can make of it, by taking the last tile (`SnakeLosesItsTail`). Each handler has
  a lemma that says what it makes of the data field by field (`Made`), each
  branch one for the snake whose turn it is (`SnakeGrows`, `SnakeCrawls`,
  `SnakeEnters`, `SnakeDies`) and one for the others. That the flood from a
  dead snake's head takes all its tiles is `FloodTakesAll`.
* *Pairs.* `Prompt` says that a snake is owed a tile only until its own turn in the same
  tick, and `Ahead`, for two slots, that it then has an empty tile ahead, as the
  follower's turn just before saw it (`server.c:229`): no turn comes between that puts
  a fruit there. So it does not eat before it has its tail back.
* *Room in the changelog.* Nothing checks the bound when a change is pushed. A turn
  pushes at most three, the fruit it owes counted with them, and only if it leaves a
  snake there (`TurnPushes`). A snake that has had its turn has a slot and two tiles of its
  own (`Twofold`), so that there is room for three changes each, and one more for each
  dead tile to be swept (`RoomForAll`, `Fits`).
* *Fruits.* An injection from the old fruits to the new ones, which is what
  `FruitsLast` asks for, is there if there are no fewer: the invariant counts
  (`FruitsAreKept`), with the fruits eaten and not yet replaced.
* *The game.* The refinement reads a snake off the orders (`BodyOf`); `Spells` says
  what makes a sequence that snake, and that there is only one (`SpellingsAgree`). A
  trail has as many tiles as orders between its ends (`TrailIsCounted`), so that the
  mapping spells it; then a head that moves puts a tile in front
  (`SpellingGrows`), and a tail that goes takes the last off (`SpellingShrinks`).
  There is one lemma for each action of SnakeGame (`SpawnPlays`, `EatPlays`,
  `DeathPlays`, `CrawlPlays`, `TailIsTaken`, `SweepPlays`, `FruitPlays`), and one
  for all the steps that are not seen in it (`RestIsUnseen`).

**PlayerSlotsProofs**: `SlotsHaveOneOwner`, `OwnersKeepTheirSlots`,
`SlotsDoNotLeak`, by one invariant: the slots in use are those that are owned,
each by one client; and `SlotsImplementLifecycle`.

**TickBroadcastProofs**: `TypeCorrect` and `ViewIsCorrect`. The invariant says, for
every place in the client's loop, which tiles may differ between the
client's view and the map: those that the next copy is going to
bring, unless the client has been overtaken.

**ConnectionProofs**, part 1: `TypeCorrect` and `ConnectionKeepsToProtocol`. The mapping
`Place` makes every step of the send thread a step of the protocol or a stutter,
whatever the other threads have done since the one before. The step of another thread
whose signal takes a message from the send thread is one too: a server that plays, or
leaves, may say nothing, and the first map is lost only when the stream was full
(`SignalPlaysItsPart`). The invariant adds that
who has a player has given it a direction, so that what is told is a state, and
that only the keys' messages come in.

**ConnectionProofs**, part 2, is about the bytes: `MessagesAreReceived`, for all
messages, all sizes of the numbers in them, and any number of messages and of
transfers that are cut short.

* *A message as bytes.* A number has the digits that the recursion of `Digits` says
  (`DigitsAre`), and the fold of `Number` takes it from them again (`NumberOfDigits`).
  A map is the bytes of its tiles, one tile of always the same length after the other
  (`Flattened`, `MapTiles`), row by row (`TileOfCell`). `Serialized` says what the
  bytes of each message are; `MapIsRead`, `TileChangeIsRead`, `DimensionsAreRead` and
  `OthersAreRead` say of a buffer that holds them that the message is read from it.
* *Which byte is where.* The invariant `WireInv` has a position for the start of every
  message, `start`, which is not a variable of the model. Where the reader
  is in the message it reads (`ReadTo`), and how far the writer has got
  (`WrittenTo`), are counted in bytes from the first one on. The counting is right
  whatever has been cut, since a short transfer garbles bytes and loses none. The
  values are right for a message that has not been cut (`StreamIsRight`, `WriterIsRight`,
  `HeldIsRight`) and, of one that has, for the bytes that lengths are taken from
  (`IsSafe`: the type, which is one byte and so never cut, and the dimensions of a map
  unless `torn`). So the reader asks for as many bytes as there are, and the next
  message begins where it looks for it. When a map has been torn nothing is left to
  say: the reader takes some other bytes for dimensions. The invariant says as much
  (`~torn =>`), and so does `MessagesArrive`.

**SocketClientProofs**: `TypeCorrect`, `ScreenIsCorrect`, `QueueIsReadRightly`,
`CommandsWakeTheDrawer` and `ControlsAreCorrect`. `ScreenFollowsMap` speaks only of a
client with nothing left to draw; the invariant says for every state what *will*
be on the screen (`FinalTile`: the command the main thread has in hand, else the
last one in the queue, else what is there), and that this is the map; for the
controls, `PendingControls` is what the steps before a message's end still have to
bring about. It needs `UpdatesAreUpdates`, since a redraw draws the map of its time
and an update its own tile. There is one lemma for each of the three threads, and
one for the steps that draw nothing.

**ShmClientProofs**: `InputHasItsContext` and `ScreenIsCorrect`. The first follows the
stages of the main and the input thread together (`Threads`); the second is the
argument of SocketClientProofs once more, with a map that other processes write:
what the client has not copied yet is in the changelog as long as it is no more
than one tick behind (`UpToDate`, `OneBehind`).

**ConnectionHandlerProofs**: `PlayersAreTheirOwn` and `MemoryIsFreedLast`. `Files` says
that the descriptors in use are exactly those of the connections whose sending thread
has not closed them, and of the peer the handler reads from, each with its own. That
accepting finds a free one is an argument by pigeon-holes (`SomeDescriptorIsFree`).
A receiving thread may hold a number that has become another connection's, but only
after its own was unregistered, and then `shutdown_` is set (`Sound`): its messages
are dropped. `Table` has every thread that runs in the part of the table that is still
to be joined. This is true although threads may use memory that `realloc` has freed,
since the model ends with such a use (`crashed`).

**HostingProofs**, part 1, is about the parser, for every hash function and for all
names, paths and numbers the menu lets through.

* *The table.* A table (`IsTable`) is at most half full, and every entry is where the
  search for its key stops (`Reachable`). `WhatIsSetIsFound`: what `map_set` enters is
  found, and so is everything that was there before, with its value, also when the
  table has grown for it. `map_grow` is a fold; it is taken apart once (`ReinsertFold`)
  and then followed place by place (`GrowKeeps`). A search ends because a table that is
  half full has a free place and one round comes by every place (`EveryPlaceComesUp`).
* *The parser.* `ServerParserStarts` follows the six options and their twelve keys into
  the table; `Parsing` says what the parser is when it has read a part of its words,
  and `TakesOption` what a turn makes of an option and its word, also of a word that
  looks like an option itself.
* `ParserReturnsSettings`: the settings of every menu, written by the launcher and read
  by the server, are the same settings again. The words are followed from the front
  (`ArgumentsFromTheFront`, `ArgumentsRead`); numbers keep their width because the menu
  lets none through that does not (`AskedAreFilled`).

Part 2 is `ServersAreAsTheyWereAskedFor`, `LaunchesAreReady` and
`RoomsHaveTheirServers`. The invariant follows who has forked whom (`Origins`: a
server's parent is the client that waits for it, or none; `Given`: a server that was
asked for has the words that were made of what was asked, and then, by part 1, the
settings), which server has which name (`Rooms`; one that is `Abandoned` keeps it), and that a signal a client has got
is of the child it waits for (`Launches`).

Only model-checked, not proved: liveness (`EveryoneLeaves`, `WaitingEnds`,
`ExitIsSeen`, `GameEndIsSeen`, `StatusIsTold`, `ShutdownFreesTheSlot`,
`GameEndEndsThreads`, `AllIsRead`, `EveryoneIsHeard`, `ServerEnds`), which is out of
the proof system's reach; the recursive searches of MapAlgorithms
(`AlgorithmsAgree`), since the prover has no SMT backend where recursive operators are
declared. Of the snakes of three or more players TLC checks nothing exhaustively: what
holds of them is what ServerTickProofs shows under its hypotheses.

## 5. Findings

### The server can come to "this should not happen"

`server/server.c:108` says of the exit of `move_player_tail`: "failed to find
next snake tail tile, this should not happen". `MCStaleTail` scripts a behaviour
of ServerTick in which it does, in the eighth tick. Slots 0, 1 and 2:

1. Player 0 moves onto the tail tile of player 2, whose tile ahead is empty
   (`server.c:229-236`): the tile will have been left, it is thought, when
   player 2 has had its turn.
2. In the same tick, player 1 joins, and the fruit that comes with it lands on
   the tile ahead of player 2 (`server.c:176-177`).
3. Player 2 eats it and so does not move its tail (`server.c:205-212`): its cached
   tail stays on a tile that now belongs to player 0.
4. Later a fruit lands on that very tile and player 2 eats that: the cached
   tail is its own head.
5. Player 2 crawls on. A crawl empties the tile of the cached tail and searches
   around it. In tick 6 that tile is <<1,0>>, the former head: emptying it cuts the snake
   in two, but the search finds the lowest order beside it, the rear part's <<1,1>>
   (the first search cannot fail, since the new head is a neighbour too). In tick 7
   <<1,1>> goes, and <<1,2>> is found. In tick 8 <<1,2>> goes, whose only successor
   was the tile emptied first: no tile of player 2 is beside it, and the process exits,
   without unlinking its room.

Each step of the script is a step of `Next`; the script only chooses. With two
players there is no turn between the two that matter: the exhaustive runs find no
violation, and `PairsNeverFail` proves that there is none. With more, step 4 is the
only way to get there (`TailIsAlwaysFound`).

### A client that leaves can hang

`renderer_destroy` (`renderer.c:127-132`) sets `shutdown_` and signals the condition
variable, both without the mutex of the queue. The drawing thread may have
seen the flag unset and the queue empty (`renderer.c:90`) and not have begun to wait:
then the signal wakes nobody, the thread waits for ever, and the main thread
in `pthread_join` with it. `SocketClient_leave` finds this as a violation of
`LeavingEnds`, although every thread is fair: a player who presses the key that
is offered to "leave the game" (`renderer.c:70`) does not get out of it.
`NobodySleepsOverCommands` shows that the commands themselves, which are put
into the queue under the mutex, do not have this problem.

## 6. Not modelled, and what is left

Not modelled: the line editor of `terminal_read` and the vendored `libtermbox2`
(input and output without state of the game), random numbers (a
nondeterministic choice wherever they are used), clocks (a tick comes at any
time), running out of memory, unmapping, map files that end before their last
tile.

Abstractions that a reader should know of:

* `kill` ends a process at once; how long the launcher's sleep is, is left open. A
  `fork` that fails, which the code does not look at, makes the launcher's
  `kill(-1, SIGKILL)` end everything the player may kill: here, all the servers and
  the other clients (`GiveUp`).
* Who joins a room whose memory has a name but no size yet is killed (SIGBUS); one
  that has a size but no content is entered as it is, filled with zeros.
* Threads that use freed memory end the behaviour of the server (`crashed`); any
  other outcome is that of the memory still being what it was, which the other
  actions have.
* Mutexes of a process that dies stay as they are: PlayerSlots has crashes, but not
  in a critical section; in Hosting, whoever joins the room of a server that exited in
  a tick waits for its mutexes for ever, and of one that was killed, does so or not.
* Exits of the process that are left out: a failure of `munmap`, `close` or
  `shm_unlink` (`shm_game_state.c:28`, `33`, `60`), of a mutex or condition
  (`syn_helpers.c`), and of a client's own `mmap`.
* Signals between the threads of a connection: two threads may both find `shutdown_`
  unset and signal twice (`client_connection.c:23`); a signal may be sent to a
  `send_thread_` that is not assigned yet; a write that is interrupted half-way leaves a
  message of which `socket_write` does not say how much has gone. None of the three is
  in ClientConnection, where an interrupted message is lost whole.
* SIGPIPE is left out (`socket_client.c:75`), and so is how soon a lost client is
  noticed (`client_connection.c:103`). Four more hazards are in the models but no
  property catches them, since nothing in the repository promises otherwise: changes
  that an overtaken client misses (`client_connection.c:120`), the slot of a killed
  process (`shm_client.c:150`), two fast keys that turn a snake back
  (`socket_client.c:61`), and a resize that draws an older status
  (`socket_client.c:103`). `PROJECT.json` has a note on each.

What is left, in order:

1. Both sides of a connection in one instance. The product is too large for TLC
   with the detail both have now; the protocol between them stands for it.
2. The changes that a client misses when it is overtaken (`overtaken` in
   TickBroadcast): how often, and until when, its view is wrong.

## 7. Running it

    tlc -workers 2 -config ServerTick_pair.cfg MCServerTick
    tlapm ServerTickProofs.tla

The table of section 3 names the runs; `PROJECT.json` gives the module and the
configuration of each. All of them pass but `ServerTick_stale_tail` and
`SocketClient_leave`, which are there for their counterexamples. The largest,
`ConnectionHandler`, takes about three minutes.
