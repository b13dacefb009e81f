----------------------------- MODULE SnakeGame -----------------------------
(***************************************************************************)
(* The game as its players see it, without tile orders, caches and logs:   *)
(* every snake is the sequence of its tiles from head to tail, and a step  *)
(* moves one snake.  It is what ServerTick has to implement (see           *)
(* ServerTickRefinement).                                                  *)
(***************************************************************************)
EXTENDS SnakeMap, Sequences

CONSTANT Walls  \* tiles of the field

VARIABLES
  body,    \* of each player: the tiles of the snake, <<>> when there is none
  owed,    \* the snakes that lost their last tile to another: it grows back
  fruits,  \* tiles
  eaten,   \* how many fruits have been eaten and not yet replaced
  remains  \* tiles of snakes that have died in this tick

gameVars == <<body, owed, fruits, eaten, remains>>

TilesIn(s) == {s[i] : i \in 1 .. Len(s)}
Front(s)   == SubSeq(s, 1, Len(s) - 1)
Last(s)    == s[Len(s)]

Bodies == UNION {TilesIn(body[p]) : p \in PlayerIds}
Free   == Coordinates \ (Walls \cup Bodies \cup fruits \cup remains)

Init ==
  /\ body = [p \in PlayerIds |-> <<>>]
  /\ owed = {}
  /\ fruits = {}
  /\ eaten = 0
  /\ remains = {}

\* A snake enters with two tiles, a joining player's with a fruit if there is
\* room for one.
Enter(p) ==
  /\ body[p] = <<>>
  /\ \E h \in Free : \E t \in (Neighbors(h) \cap Free) \ {h} :
       /\ body' = [body EXCEPT ![p] = <<h, t>>]
       /\ \/ UNCHANGED fruits
          \/ \E c \in Free \ {h, t} : fruits' = fruits \cup {c}
  /\ UNCHANGED <<owed, eaten, remains>>

\* The snake after its head has moved to next without a fruit there.
Moved(p, next) == <<next>> \o (IF p \in owed THEN body[p] ELSE Front(body[p]))

\* Onto a free tile, or onto the tile its own tail leaves.
Crawl(p) ==
  /\ body[p] # <<>>
  /\ \E next \in Neighbors(body[p][1]) :
       /\ next \in Free \/ (p \notin owed /\ next = Last(body[p]))
       /\ body' = [body EXCEPT ![p] = Moved(p, next)]
  /\ owed' = owed \ {p}
  /\ UNCHANGED <<fruits, eaten, remains>>

\* Onto the tail of another snake, which will have moved on.
TakeTail(p, q) ==
  /\ p # q
  /\ body[p] # <<>> /\ body[q] # <<>>
  /\ q \notin owed
  /\ Last(body[q]) \in Neighbors(body[p][1])
  /\ body' = [body EXCEPT ![p] = Moved(p, Last(body[q])), ![q] = Front(@)]
  /\ owed' = (owed \ {p}) \cup {q}
  /\ UNCHANGED <<fruits, eaten, remains>>

\* The fruits come back before a snake can eat twice.
Eat(p) ==
  /\ body[p] # <<>>
  /\ eaten < MaxPlayers
  /\ \E next \in Neighbors(body[p][1]) \cap fruits :
       /\ body' = [body EXCEPT ![p] = <<next>> \o @]
       /\ fruits' = fruits \ {next}
  /\ eaten' = eaten + 1
  /\ UNCHANGED <<owed, remains>>

Die(p) ==
  /\ body[p] # <<>>
  /\ body' = [body EXCEPT ![p] = <<>>]
  /\ remains' = remains \cup TilesIn(body[p])
  /\ owed' = owed \ {p}
  /\ UNCHANGED <<fruits, eaten>>

Decay ==
  /\ \E c \in remains : remains' = remains \ {c}
  /\ UNCHANGED <<body, owed, fruits, eaten>>

\* A fruit for one that was eaten, lost only if there is no room for it.
Ripen ==
  /\ eaten > 0
  /\ eaten' = eaten - 1
  /\ IF Free = {} THEN UNCHANGED fruits
                  ELSE \E c \in Free : fruits' = fruits \cup {c}
  /\ UNCHANGED <<body, owed, remains>>

Next ==
  \/ Decay
  \/ Ripen
  \/ \E p \in PlayerIds : Enter(p) \/ Crawl(p) \/ Eat(p) \/ Die(p)
  \/ \E p, q \in PlayerIds : TakeTail(p, q)

Spec == Init /\ [][Next]_gameVars

=============================================================================
