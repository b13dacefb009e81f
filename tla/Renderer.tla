------------------------------ MODULE Renderer ------------------------------
(***************************************************************************)
(* The renderer of the clients, client/renderer/renderer.c: commands in a  *)
(* queue (libsnake/queue.h), and a thread that draws them.                 *)
(*                                                                         *)
(* The other threads hold the mutex of the queue for one step each, the    *)
(* drawing thread from "locked" until it draws or sleeps.  The map is one  *)
(* tile here: tiles are drawn independently of one another.                *)
(***************************************************************************)
EXTENDS Naturals, Sequences

CONSTANT MaxQueue  \* bound of the model: the updates that wait to be drawn

ASSUME RendererAssumption == MaxQueue \in Nat \ {0}

VARIABLES
  queue,             \* renderer_t.queue_
  drawer,            \* what the drawing thread is doing
  rendererShutdown,  \* renderer_t.shutdown_
  screen,            \* the tile and the controls that are on the screen
  map                \* what the map_ of the redraw commands points to

rendererVars == <<queue, drawer, rendererShutdown, screen>>

DrawerStages == {"checking", "locked", "dozing", "asleep", "ended"}

RendererInit ==
  /\ queue = <<>>
  /\ drawer = "checking"
  /\ rendererShutdown = FALSE
  /\ screen = [tile |-> map, controls |-> "none"]

RedrawCommand(status) == [type |-> "redraw", status |-> status]
UpdateCommand(tile) == [type |-> "update", tile |-> tile]

QueueIsFree == drawer \notin {"locked", "dozing"}

\* pthread_cond_signal wakes the thread only if it sleeps already.  Woken, it
\* takes the mutex and looks at the flag, as it does at the top of its loop.
Signal == drawer' = IF drawer = "asleep" THEN "checking" ELSE drawer

-----------------------------------------------------------------------------
(* What the other threads call.                                            *)

\* Mutant of the next: the commands before it stay in the queue.
RedrawBehind(command) ==
  /\ QueueIsFree
  /\ queue' = Append(queue, command)
  /\ Signal
  /\ UNCHANGED <<rendererShutdown, screen>>

\* renderer_redraw: what was to be drawn before is drawn with the rest.
Redraw(command) ==
  /\ QueueIsFree
  /\ queue' = <<command>>
  /\ Signal
  /\ UNCHANGED <<rendererShutdown, screen>>

\* Mutant of the next: the thread is not woken.
UpdateQuietly(command) ==
  /\ QueueIsFree
  /\ Len(queue) < MaxQueue
  /\ queue' = Append(queue, command)
  /\ UNCHANGED <<drawer, rendererShutdown, screen>>

\* renderer_update
Update(command) ==
  /\ QueueIsFree
  /\ Len(queue) < MaxQueue
  /\ queue' = Append(queue, command)
  /\ Signal
  /\ UNCHANGED <<rendererShutdown, screen>>

\* renderer_destroy up to its join: it does not take the mutex.
StopDrawer ==
  /\ rendererShutdown' = TRUE
  /\ Signal
  /\ UNCHANGED <<queue, screen>>

-----------------------------------------------------------------------------
(* The drawing thread.                                                     *)

\* The outer loop.
CheckShutdown ==
  /\ drawer = "checking"
  /\ drawer' = IF rendererShutdown THEN "ended" ELSE "locked"
  /\ UNCHANGED <<queue, rendererShutdown, screen>>

CheckQueue ==
  /\ drawer = "locked"
  /\ rendererShutdown \/ queue = <<>>
  /\ drawer' = IF rendererShutdown THEN "ended" ELSE "dozing"
  /\ UNCHANGED <<queue, rendererShutdown, screen>>

\* Mutant of the next: it waits with the mutex in its hand.
DozeOn ==
  /\ drawer = "dozing"
  /\ UNCHANGED <<queue, drawer, rendererShutdown, screen>>

\* pthread_cond_wait releases the mutex.  That it may return without a signal is
\* left out: the thread would look at the queue and sleep again.
FallAsleep ==
  /\ drawer = "dozing"
  /\ drawer' = "asleep"
  /\ UNCHANGED <<queue, rendererShutdown, screen>>

\* The map is the one of the time of drawing, the status that of the command.
DrawRedraw ==
  /\ drawer = "locked" /\ ~rendererShutdown
  /\ queue # <<>> /\ Head(queue).type = "redraw"
  /\ screen' = [tile |-> map, controls |-> Head(queue).status]
  /\ queue' = Tail(queue)
  /\ drawer' = "checking"
  /\ UNCHANGED rendererShutdown

\* Mutant of the next: the first update alone is drawn.
DrawFirstUpdate ==
  /\ drawer = "locked" /\ ~rendererShutdown
  /\ queue # <<>> /\ Head(queue).type = "update"
  /\ screen' = [screen EXCEPT !.tile = Head(queue).tile]
  /\ queue' = <<>>
  /\ drawer' = "checking"
  /\ UNCHANGED rendererShutdown

\* Everything behind an update is drawn as an update; the tile is left as the
\* last of them says.
DrawUpdates ==
  /\ drawer = "locked" /\ ~rendererShutdown
  /\ queue # <<>> /\ Head(queue).type = "update"
  /\ screen' = [screen EXCEPT !.tile = queue[Len(queue)].tile]
  /\ queue' = <<>>
  /\ drawer' = "checking"
  /\ UNCHANGED rendererShutdown

DrawerRuns == CheckShutdown \/ CheckQueue \/ FallAsleep \/ DrawRedraw \/ DrawUpdates
=============================================================================
