--------------------------- MODULE HostingProofs ---------------------------
(***************************************************************************)
(* Hosting for any number of clients and servers, any names, ports and map *)
(* files, and any hash function.  The first half is about the parser: its  *)
(* table of keys, which grows, its options, its turns, and that the        *)
(* arguments of a server come out of it as they went in.  The second is    *)
(* about the processes, their rooms and the signals they wait for.         *)
(***************************************************************************)
EXTENDS Hosting, FiniteSetTheorems, SequenceTheorems, WellFoundedInduction, NaturalsInduction, TLAPS

(* Types.                                                                  *)

ServerStages ==
  {"unborn", "forked", "parsed", "created", "sized", "initialised", "listening", "running",
   "ending", "refused", "failed", "ended"} \cup Abandoned

Asked ==
  {[menu EXCEPT !.parent = c] : menu \in PublicSettings \cup PrivateSettings, c \in Clients}
Words == CommandLines \cup {ArgumentsOf(settings) : settings \in Asked} \cup {<<>>}
Parsed == {ParseArguments(words) : words \in Words} \cup {NoSettings}
Templates == {TemplateOf(settings) : settings \in Parsed} \cup {NULL}

ServerRecord ==
  [stage : ServerStages, asked : Asked \cup {NoSettings}, words : Words, settings : Parsed,
   template : Templates, players : SUBSET Clients, played : BOOLEAN]

ClientStages == {"menu", "waiting", "giving up", "launched", "playing", "exited", "killed"}

ClientRecord ==
  [stage : ClientStages, settings : Asked \cup {NoSettings}, child : Servers \cup {NoChild},
   game : Servers \cup {NoGame}, shared : BOOLEAN]

Types ==
  /\ server \in [Servers -> ServerRecord]
  /\ client \in [Clients -> ClientRecord]
  /\ shm \in [RoomNames -> Servers \cup {NoServer}]
  /\ flag \in [Clients -> BOOLEAN]

LaunchStages == {"waiting", "giving up", "launched"}
Launching == \A c \in Clients : client[c].stage \in LaunchStages => client[c].settings \in Asked

-----------------------------------------------------------------------------
(* What comes out of the menu, and out of the parser.                      *)

LEMMA NumbersAre == NoServer \notin Servers /\ NoChild \notin Servers
BY ServerLifeAssumption DEF Servers, NoServer, NoChild

MenuDomain == {"room", "port", "parent", "map", "width", "height"}

\* Settings have all their fields, and a room that is one of the names or none.
LEMMA MenuSettings ==
  ASSUME NEW settings \in PublicSettings \cup PrivateSettings
  PROVE  /\ DOMAIN settings = MenuDomain
         /\ settings.room \in RoomNames \cup {NULL}
<1>1. PICK public \in BOOLEAN, in \in HostInputs :
        settings = HostMenu(public, in) /\ settings # NoSettings
  BY DEF PublicSettings, PrivateSettings
<1>2. in.name \in TypedNames \cup {Cancelled} /\ in.random \in PrivateNames
  BY DEF HostInputs, Typed
<1>3. DOMAIN settings = MenuDomain
  BY <1>1 DEF HostMenu, MenuDomain
<1>4. settings.room \in RoomNames \cup {NULL}
  BY <1>1, <1>2, HostingAssumption DEF HostMenu
<1> QED BY <1>3, <1>4

LEMMA AskedSettings ==
  ASSUME NEW menu \in PublicSettings \cup PrivateSettings, NEW c \in Clients
  PROVE  LET settings == [menu EXCEPT !.parent = c]
         IN  /\ settings \in Asked /\ settings # NoSettings
             /\ settings.parent = c /\ settings.room \in RoomNames \cup {NULL}
<1> DEFINE settings == [menu EXCEPT !.parent = c]
<1>1. DOMAIN menu = MenuDomain /\ menu.room \in RoomNames \cup {NULL}
  BY MenuSettings
<1>2. settings \in Asked
  BY DEF Asked
<1>3. settings.parent = c /\ settings.room = menu.room
  BY <1>1 DEF MenuDomain
<1>4. settings # NoSettings
  <2>1. DOMAIN settings = MenuDomain
    BY <1>1
  <2>2. DOMAIN NoSettings = {"none"}
    BY DEF NoSettings
  <2> QED BY <2>1, <2>2 DEF MenuDomain
<1> QED BY <1>1, <1>2, <1>3, <1>4

-----------------------------------------------------------------------------
(* Numbers, and places in a table.                                         *)
\* Numbers: what has no counterexample that is the least.
LEMMA LeastNumber ==
  ASSUME NEW S \in SUBSET Nat, S # {}
  PROVE  \E m \in S : \A k \in S : m <= k
<1>1. PICK m \in S : \A k \in S : ~(<<k, m>> \in OpToRel(<, Nat))
  <2>1. S \subseteq Nat /\ S # {}
    OBVIOUS
  <2> QED BY <2>1, NatLessThanWellFounded, WFMin
<1>2. \A k \in S : ~(k < m)
  BY <1>1 DEF OpToRel
<1> QED BY <1>2

LEMMA Induction ==
  ASSUME NEW S \in SUBSET Nat, 0 \in S, \A m \in S : m + 1 \in S
  PROVE  S = Nat
<1> SUFFICES ASSUME Nat \ S # {} PROVE FALSE
  OBVIOUS
<1>1. PICK m \in Nat \ S : \A k \in Nat \ S : m <= k
  BY LeastNumber
<1>2. m - 1 \in S
  BY <1>1
<1> QED BY <1>1, <1>2

\* The folds of the community modules take the last place first.
LEMMA MaxIsLast ==
  ASSUME NEW m \in Nat, NEW S \in SUBSET (1 .. m), m \in S
  PROVE  Max(S) = m
<1>1. \A y \in S : m >= y
  OBVIOUS
<1>2. ASSUME NEW x \in S, \A y \in S : x >= y PROVE x = m
  BY <1>2
<1> QED BY <1>1, <1>2 DEF Max

\* Whole rounds, and what is left of them.
Rounds(c, q) == c * q

LEMMA RoundsAre ==
  ASSUME NEW c \in Nat \ {0}, NEW q \in Nat
  PROVE  /\ Rounds(c, 0) = 0 /\ Rounds(c, q) \in Nat
         /\ Rounds(c, q + 1) = Rounds(c, q) + c
         /\ \A i \in 0 .. c - 1 : (Rounds(c, q) + i) % c = i
<1>1. c * 0 = 0 /\ c * q \in Nat
  OBVIOUS
<1>2. c * (q + 1) = c * q + c
  OBVIOUS
<1>3. ASSUME NEW i \in 0 .. c - 1 PROVE (c * q + i) % c = i
  OBVIOUS
<1> QED BY <1>1, <1>2, <1>3 DEF Rounds

LEMMA Division ==
  ASSUME NEW c \in Nat \ {0}, NEW n \in Nat
  PROVE  \E q \in Nat, i \in 0 .. c - 1 : n = Rounds(c, q) + i
<1> DEFINE S == {m \in Nat : \E q \in Nat, i \in 0 .. c - 1 : m = Rounds(c, q) + i}
<1>1. 0 \in S
  <2>1. 0 = Rounds(c, 0) + 0 /\ 0 \in Nat /\ 0 \in 0 .. c - 1
    BY RoundsAre
  <2> QED BY <2>1
<1>2. ASSUME NEW m \in S PROVE m + 1 \in S
  <2>1. PICK q \in Nat, i \in 0 .. c - 1 : m = Rounds(c, q) + i
    OBVIOUS
  <2>2. Rounds(c, q) \in Nat /\ Rounds(c, q + 1) = Rounds(c, q) + c
    BY RoundsAre
  <2>3. CASE i < c - 1
    <3>1. m + 1 = Rounds(c, q) + (i + 1) /\ i + 1 \in 0 .. c - 1
      BY <2>1, <2>2, <2>3
    <3> QED BY <3>1
  <2>4. CASE i = c - 1
    <3>1. m + 1 = Rounds(c, q + 1) + 0 /\ q + 1 \in Nat /\ 0 \in 0 .. c - 1
      BY <2>1, <2>2, <2>4
    <3> QED BY <3>1
  <2> QED BY <2>3, <2>4
<1> HIDE DEF S
<1>3. S \subseteq Nat
  BY DEF S
<1>4. S = Nat
  BY <1>1, <1>2, <1>3, Induction
<1>5. n \in S
  BY <1>4
<1> QED BY <1>5 DEF S

\* From a hash on, every place comes up within one round.
LEMMA EveryPlaceComesUp ==
  ASSUME NEW c \in Nat \ {0}, NEW h \in Nat, NEW i \in 0 .. c - 1
  PROVE  \E k \in 0 .. c - 1 : (h + k) % c = i
<1>1. PICK q \in Nat, r \in 0 .. c - 1 : h = Rounds(c, q) + r
  BY Division
<1>2. /\ Rounds(c, q) \in Nat /\ Rounds(c, q + 1) = Rounds(c, q) + c
      /\ (Rounds(c, q) + i) % c = i /\ (Rounds(c, q + 1) + i) % c = i
  <2>1. q + 1 \in Nat
    OBVIOUS
  <2> QED BY <2>1, RoundsAre
<1>3. CASE r <= i
  <2>1. i - r \in 0 .. c - 1 /\ h + (i - r) = Rounds(c, q) + i
    BY <1>1, <1>2, <1>3
  <2>2. (h + (i - r)) % c = i
    BY <1>2, <2>1
  <2> QED BY <2>1, <2>2
<1>4. CASE r > i
  <2>1. i + c - r \in 0 .. c - 1 /\ h + (i + c - r) = Rounds(c, q + 1) + i
    BY <1>1, <1>2, <1>4
  <2>2. (h + (i + c - r)) % c = i
    BY <1>2, <2>1
  <2> QED BY <2>1, <2>2
<1> QED BY <1>3, <1>4

-----------------------------------------------------------------------------
(* The table of keys.                                                      *)

\* Keys are texts; the empty one is that of a free place (struct map of args.c).
Keys == DOMAIN Hash \ {""}
Entry == [key : Keys, value : Nat] \cup {Free}

Places(map) == 0 .. map.capacity - 1
Held(map) == {i \in Places(map) : map.entries[i] # Free}
Contents(map) == {map.entries[i] : i \in Held(map)}

\* The place that is looked at after k others, and whether the search ends there.
Place(map, key, k) == (Hash[key] + k) % map.capacity
EndsAt(map, key, k) == map.entries[Place(map, key, k)].key \in {"", key}
StopsAt(map, key, k) ==
  k \in Places(map) /\ EndsAt(map, key, k) /\ \A j \in 0 .. k - 1 : ~EndsAt(map, key, j)

\* Every entry is where the search for its key stops.
Reachable(map) ==
  \A i \in Held(map) :
    \E k \in Places(map) :
      StopsAt(map, map.entries[i].key, k) /\ Place(map, map.entries[i].key, k) = i

\* An array of the capacity, which is none at first, filled to a half at most.
TableFields(map) ==
  /\ map = [count |-> map.count, capacity |-> map.capacity, threshold |-> map.threshold,
            entries |-> map.entries]
  /\ map.count \in Nat /\ map.capacity \in Nat
  /\ map.capacity = 0 \/ map.capacity >= 8
  /\ map.threshold = map.capacity \div 2
  /\ map.entries \in [Places(map) -> Entry]

Counted(map) ==
  /\ map.count = Cardinality(Held(map)) /\ map.count = Cardinality(Contents(map))
  /\ IsFiniteSet(Held(map)) /\ IsFiniteSet(Contents(map))
  /\ map.count <= map.threshold

IsTable(map) == TableFields(map) /\ Reachable(map) /\ Counted(map)

LEMMA PlacesAre ==
  ASSUME NEW map, map.capacity \in Nat \ {0}, NEW key \in Keys, NEW k \in Nat
  PROVE  Place(map, key, k) \in Places(map)
<1>1. Hash[key] \in Nat
  BY HashAssumption DEF Keys
<1> QED BY <1>1 DEF Place, Places

LEMMA FindStops ==
  ASSUME NEW map, map.capacity \in Nat, NEW key, NEW k, StopsAt(map, key, k)
  PROVE  MapFind(map, key) = Place(map, key, k)
<1> DEFINE Stops(j) == /\ j \in 0 .. map.capacity - 1 /\ EndsAt(map, key, j)
                       /\ \A i \in 0 .. j - 1 : ~EndsAt(map, key, i)
<1>1. MapFind(map, key) = Place(map, key, CHOOSE j \in 0 .. map.capacity - 1 :
                            EndsAt(map, key, j) /\ \A i \in 0 .. j - 1 : ~EndsAt(map, key, i))
  BY DEF MapFind, EndsAt, Place
<1>2. ASSUME NEW j \in 0 .. map.capacity - 1, EndsAt(map, key, j),
             \A i \in 0 .. j - 1 : ~EndsAt(map, key, i)
      PROVE  j = k
  <2>1. k \in 0 .. map.capacity - 1 /\ EndsAt(map, key, k) /\ \A i \in 0 .. k - 1 : ~EndsAt(map, key, i)
    BY DEF StopsAt, Places
  <2>2. ~(j < k) /\ ~(k < j)
    BY <1>2, <2>1
  <2> QED BY <2>1, <2>2
<1>3. (CHOOSE j \in 0 .. map.capacity - 1 :
         EndsAt(map, key, j) /\ \A i \in 0 .. j - 1 : ~EndsAt(map, key, i)) = k
  BY <1>2 DEF StopsAt, Places
<1> QED BY <1>1, <1>3

\* A table that has room has a free place, so that every search stops.
LEMMA SearchStops ==
  ASSUME NEW map, TableFields(map), Counted(map), map.capacity > 0, NEW key \in Keys
  PROVE  \E k \in Places(map) : StopsAt(map, key, k)
<1>c. map.capacity \in Nat \ {0} /\ map.capacity - 1 \in Int
  BY DEF TableFields
<1>1. PICK i \in Places(map) : map.entries[i] = Free
  <2>1. Cardinality(0 .. map.capacity - 1) = map.capacity
    <3> DEFINE last == map.capacity - 1
    <3>1. last \in Int /\ 0 <= last /\ last - 0 + 1 = map.capacity
      BY <1>c
    <3> HIDE DEF last
    <3>2. Cardinality(0 .. last) = IF 0 > last THEN 0 ELSE last - 0 + 1
      BY <3>1, FS_Interval
    <3> QED BY <3>1, <3>2 DEF last
  <2>2. map.capacity \div 2 < map.capacity
    BY <1>c
  <2>3. Cardinality(Held(map)) <= map.capacity \div 2
    BY DEF TableFields, Counted
  <2>4. Held(map) # Places(map)
    BY <1>c, <2>1, <2>2, <2>3 DEF Places
  <2> QED BY <2>4 DEF Held
<1>2. PICK k \in Places(map) : Place(map, key, k) = i
  <2>1. Hash[key] \in Nat /\ i \in 0 .. map.capacity - 1
    BY HashAssumption DEF Keys, Places
  <2>2. \E k \in 0 .. map.capacity - 1 : (Hash[key] + k) % map.capacity = i
    BY <1>c, <2>1, EveryPlaceComesUp
  <2> QED BY <2>2 DEF Place, Places
<1> DEFINE S == {j \in Places(map) : EndsAt(map, key, j)}
<1>3. S \subseteq Nat /\ k \in S
  <2>1. map.entries[i].key = ""
    <3>1. Free.key = ""
      BY DEF Free
    <3> QED BY <1>1, <3>1
  <2>2. EndsAt(map, key, k)
    BY <1>2, <2>1 DEF EndsAt
  <2>3. Places(map) \subseteq Nat
    BY <1>c DEF Places
  <2> QED BY <2>2, <2>3
<1>4. PICK j \in S : \A l \in S : j <= l
  <2> HIDE DEF S
  <2> QED BY <1>3, LeastNumber
<1>5. StopsAt(map, key, j)
  <2>1. ASSUME NEW l \in 0 .. j - 1, EndsAt(map, key, l) PROVE FALSE
    <3>1. l \in S /\ l < j
      BY <1>4, <2>1 DEF Places, TableFields
    <3> QED BY <1>3, <1>4, <3>1
  <2> QED BY <1>4, <2>1 DEF StopsAt
<1> QED BY <1>4, <1>5

\* An entry that is there is found, and no other has its key.
LEMMA HeldIsFound ==
  ASSUME NEW map, IsTable(map), NEW i \in Held(map)
  PROVE  /\ MapFind(map, map.entries[i].key) = i
         /\ map.entries[i] \in [key : Keys, value : Nat] /\ map.entries[i].key # ""
         /\ \A j \in Held(map) : map.entries[j].key = map.entries[i].key => j = i
<1>1. ASSUME NEW j \in Held(map) PROVE MapFind(map, map.entries[j].key) = j
  <2>1. PICK k \in Places(map) :
          StopsAt(map, map.entries[j].key, k) /\ Place(map, map.entries[j].key, k) = j
    BY DEF IsTable, Reachable
  <2>2. map.capacity \in Nat
    BY DEF IsTable, TableFields
  <2> QED BY <2>1, <2>2, FindStops
<1>2. map.entries[i] \in Entry /\ map.entries[i] # Free
  BY DEF Held, IsTable, TableFields
<1>3. map.entries[i] \in [key : Keys, value : Nat]
  BY <1>2 DEF Entry
<1>4. map.entries[i].key \in Keys
  BY <1>3
<1>5. \A j \in Held(map) : map.entries[j].key = map.entries[i].key => j = i
  BY <1>1
<1> QED BY <1>1, <1>3, <1>4, <1>5 DEF Keys

\* The search for a key that is not there ends at a free place.
LEMMA NewKeyIsFree ==
  ASSUME NEW map, IsTable(map), map.capacity > 0, NEW key \in Keys,
         \A x \in Contents(map) : x.key # key
  PROVE  \E k \in Places(map) :
           /\ StopsAt(map, key, k) /\ MapFind(map, key) = Place(map, key, k)
           /\ Place(map, key, k) \in Places(map) /\ map.entries[Place(map, key, k)] = Free
<1>1. PICK k \in Places(map) : StopsAt(map, key, k)
  BY SearchStops DEF IsTable
<1>2. map.capacity \in Nat \ {0} /\ k \in Nat
  BY DEF IsTable, TableFields, Places
<1>3. MapFind(map, key) = Place(map, key, k)
  BY <1>1, <1>2, FindStops
<1>4. Place(map, key, k) \in Places(map)
  BY <1>2, PlacesAre
<1>5. map.entries[Place(map, key, k)].key \in {"", key}
  BY <1>1 DEF StopsAt, EndsAt
<1>6. ASSUME map.entries[Place(map, key, k)] # Free PROVE FALSE
  <2>1. Place(map, key, k) \in Held(map)
    BY <1>4, <1>6 DEF Held
  <2>2. map.entries[Place(map, key, k)] \in Contents(map)
    BY <2>1 DEF Contents
  <2>3. map.entries[Place(map, key, k)].key # ""
    BY <2>1, HeldIsFound
  <2> QED BY <1>5, <2>2, <2>3
<1> QED BY <1>1, <1>3, <1>4, <1>6

LEMMA InsertFields ==
  ASSUME NEW map, TableFields(map), NEW e \in [key : Keys, value : Nat],
         NEW p \in Places(map), MapFind(map, e.key) = p
  PROVE  LET new == Insert(map, e)
         IN  /\ TableFields(new)
             /\ new.count = map.count + 1 /\ new.capacity = map.capacity
             /\ new.threshold = map.threshold
             /\ new.entries = [map.entries EXCEPT ![p] = e]
<1> DEFINE new == Insert(map, e)
<1>1. map = [count |-> map.count, capacity |-> map.capacity, threshold |-> map.threshold,
             entries |-> map.entries]
  BY DEF TableFields
<1>2. new = [map EXCEPT !.count = map.count + 1,
                        !.entries = [map.entries EXCEPT ![p] = e]]
  BY DEF Insert
<1>3. new = [count |-> map.count + 1, capacity |-> map.capacity, threshold |-> map.threshold,
             entries |-> [map.entries EXCEPT ![p] = e]]
  BY <1>1, <1>2
<1> HIDE DEF new
<1>4. /\ new.count = map.count + 1 /\ new.capacity = map.capacity
      /\ new.threshold = map.threshold /\ new.entries = [map.entries EXCEPT ![p] = e]
      /\ new = [count |-> new.count, capacity |-> new.capacity, threshold |-> new.threshold,
                entries |-> new.entries]
  BY <1>3
<1>5. Places(new) = Places(map)
  BY <1>4 DEF Places
<1>6. new.entries \in [Places(new) -> Entry]
  BY <1>4, <1>5 DEF TableFields, Entry
<1>7. new.count \in Nat
  BY <1>4 DEF TableFields
<1>8. TableFields(new)
  BY <1>4, <1>6, <1>7 DEF TableFields
<1> QED BY <1>4, <1>8 DEF new

LEMMA InsertKeeps ==
  ASSUME NEW map, IsTable(map), map.capacity > 0, map.count < map.threshold,
         NEW e \in [key : Keys, value : Nat], \A x \in Contents(map) : x.key # e.key
  PROVE  LET new == Insert(map, e)
         IN  /\ IsTable(new) /\ Contents(new) = Contents(map) \cup {e}
             /\ new.count = map.count + 1 /\ new.capacity = map.capacity
             /\ new.threshold = map.threshold
<1> DEFINE new == Insert(map, e)
<1>k. e.key \in Keys /\ e.key # "" /\ e # Free
  <2>1. e.key \in Keys
    OBVIOUS
  <2>2. Free.key = ""
    BY DEF Free
  <2> QED BY <2>1, <2>2 DEF Keys
<1>1. PICK k \in Places(map) :
        /\ StopsAt(map, e.key, k) /\ MapFind(map, e.key) = Place(map, e.key, k)
        /\ Place(map, e.key, k) \in Places(map) /\ map.entries[Place(map, e.key, k)] = Free
  BY <1>k, NewKeyIsFree
<1> DEFINE p == Place(map, e.key, k)
<1>2. /\ TableFields(new)
      /\ new.count = map.count + 1 /\ new.capacity = map.capacity
      /\ new.threshold = map.threshold
      /\ new.entries = [map.entries EXCEPT ![p] = e]
  BY <1>1, InsertFields DEF IsTable
<1> HIDE DEF new
<1>3. Places(new) = Places(map)
  BY <1>2 DEF Places
<1>4. /\ map.entries \in [Places(map) -> Entry] /\ p \in Places(map)
      /\ new.entries[p] = e /\ \A i \in Places(map) : i # p => new.entries[i] = map.entries[i]
      /\ map.entries[p] = Free /\ map.entries[p].key = ""
  <2>1. map.entries \in [Places(map) -> Entry] /\ p \in Places(map) /\ map.entries[p] = Free
    BY <1>1 DEF IsTable, TableFields
  <2>2. Free.key = ""
    BY DEF Free
  <2> HIDE DEF p
  <2> QED BY <1>2, <2>1, <2>2
<1>5. \A key, j : Place(new, key, j) = Place(map, key, j)
  BY <1>2 DEF Place
<1>6. Held(new) = Held(map) \cup {p} /\ p \notin Held(map)
  <2> HIDE DEF p
  <2> QED BY <1>3, <1>4, <1>k DEF Held
<1>7. Contents(new) = Contents(map) \cup {e} /\ e \notin Contents(map)
  <2> HIDE DEF p
  <2>1. Held(map) \subseteq Places(map)
    BY DEF Held
  <2>2. \A i \in Held(map) : new.entries[i] = map.entries[i]
    BY <1>4, <1>6, <2>1
  <2>3. Contents(new) = {new.entries[i] : i \in Held(map)} \cup {e}
    BY <1>4, <1>6 DEF Contents
  <2>4. {new.entries[i] : i \in Held(map)} = Contents(map)
    BY <2>2 DEF Contents
  <2> QED BY <2>3, <2>4
<1>c. map.capacity \in Nat \ {0}
  BY DEF IsTable, TableFields
\* A search that has passed only entries passes them still.
<1>8. ASSUME NEW key \in Keys, NEW j \in Places(map), StopsAt(map, key, j),
             Place(map, key, j) # p \/ key = e.key
      PROVE  StopsAt(new, key, j)
  <2>1. j \in Nat /\ \A l \in 0 .. j - 1 : l \in Nat
    BY <1>c DEF Places
  <2>2. ASSUME NEW l \in 0 .. j - 1 PROVE ~EndsAt(new, key, l)
    <3>1. map.entries[Place(map, key, l)].key \notin {"", key}
      BY <1>8 DEF StopsAt, EndsAt
    <3>2. Place(map, key, l) # p /\ Place(map, key, l) \in Places(map)
      BY <1>4, <1>c, <2>1, <3>1, PlacesAre
    <3>3. new.entries[Place(map, key, l)] = map.entries[Place(map, key, l)]
      BY <1>4, <3>2
    <3> QED BY <1>5, <3>1, <3>3 DEF EndsAt
  <2>3. EndsAt(new, key, j)
    <3>1. Place(map, key, j) \in Places(map) /\ EndsAt(map, key, j)
      BY <1>8, <1>c, <2>1, PlacesAre DEF StopsAt
    <3>2. CASE Place(map, key, j) # p
      <4>1. new.entries[Place(map, key, j)] = map.entries[Place(map, key, j)]
        BY <1>4, <3>1, <3>2
      <4> QED BY <1>5, <3>1, <4>1 DEF EndsAt
    <3>3. CASE Place(map, key, j) = p
      <4>1. key = e.key /\ new.entries[Place(map, key, j)].key = e.key
        BY <1>8, <1>4, <3>3
      <4> QED BY <1>5, <4>1 DEF EndsAt
    <3> QED BY <3>2, <3>3
  <2> QED BY <1>3, <1>8, <2>2, <2>3 DEF StopsAt
<1>9. Reachable(new)
  <2>1. ASSUME NEW i \in Held(new)
        PROVE  \E j \in Places(new) :
                 StopsAt(new, new.entries[i].key, j) /\ Place(new, new.entries[i].key, j) = i
    <3>1. CASE i = p
      <4>1. StopsAt(new, e.key, k)
        BY <1>1, <1>8, <1>k
      <4>2. new.entries[i].key = e.key
        BY <1>4, <3>1
      <4> QED BY <1>3, <1>5, <3>1, <4>1, <4>2
    <3>2. CASE i # p
      <4>1. i \in Held(map) /\ i \in Places(map)
        BY <1>6, <3>2 DEF Held
      <4>2. new.entries[i] = map.entries[i]
        BY <1>4, <3>2, <4>1
      <4>3. PICK j \in Places(map) :
              StopsAt(map, map.entries[i].key, j) /\ Place(map, map.entries[i].key, j) = i
        BY <4>1 DEF IsTable, Reachable
      <4>4. map.entries[i].key \in Keys
        BY <4>1, HeldIsFound
      <4>5. StopsAt(new, map.entries[i].key, j)
        BY <1>8, <3>2, <4>3, <4>4
      <4> QED BY <1>3, <1>5, <4>2, <4>3, <4>5
    <3> QED BY <3>1, <3>2
  <2> QED BY <2>1 DEF Reachable
<1>10. Counted(new)
  <2>1. Counted(map) /\ map.count \in Nat /\ map.threshold \in Int
    BY DEF IsTable, TableFields
  <2>2. /\ IsFiniteSet(Held(map) \cup {p}) /\ Cardinality(Held(map) \cup {p}) = Cardinality(Held(map)) + 1
        /\ IsFiniteSet(Contents(map) \cup {e})
        /\ Cardinality(Contents(map) \cup {e}) = Cardinality(Contents(map)) + 1
    <3> HIDE DEF p
    <3> QED BY <1>6, <1>7, <2>1, FS_AddElement DEF Counted
  <2> HIDE DEF p
  <2> QED BY <1>2, <1>6, <1>7, <2>1, <2>2 DEF Counted
<1> QED BY <1>2, <1>7, <1>9, <1>10 DEF IsTable, new

-----------------------------------------------------------------------------
(* Growing and setting.                                                    *)
\* map_grow enters what has been in the old array, one place after the other.
Reinserted(base, seq) == FoldLeft(Reinsert, base, seq)

ReinsertsFrom(g, base, seq, n) ==
  /\ g[0] = base
  /\ \A i \in 1 .. n : g[i] = Reinsert(g[i - 1], seq[i])
  /\ Reinserted(base, seq) = g[n]

LEMMA ReinsertFold ==
  ASSUME NEW base, NEW seq, NEW n \in Nat, DOMAIN seq = 1 .. n
  PROVE  \E g : ReinsertsFrom(g, base, seq, n)
<1> DEFINE Iter(h, m) ==
      h = [s \in SUBSET (1 .. m) |-> IF s = {} THEN base
                                     ELSE Reinsert(h[s \ {Max(s)}], seq[Max(s)])]
           Iterated == {m \in Nat : \E h : Iter(h, m)}
<1>m. \A m \in Nat : \A s \in SUBSET (1 .. m) : m \in s => Max(s) = m
  BY MaxIsLast
<1>1. 0 \in Iterated
  <2>1. SUBSET (1 .. 0) = {{}}
    OBVIOUS
  <2>2. Iter([s \in SUBSET (1 .. 0) |-> base], 0)
    BY <2>1
  <2> HIDE DEF Iter
  <2> QED BY <2>2
<1>2. ASSUME NEW m \in Iterated PROVE m + 1 \in Iterated
  <2>1. PICK h : Iter(h, m)
    OBVIOUS
  <2> DEFINE k == m + 1
             h2 == [s \in SUBSET (1 .. k) |->
                      IF k \in s THEN Reinsert(h[s \ {k}], seq[k]) ELSE h[s]]
  <2>2. \A s \in SUBSET (1 .. k) : k \notin s => s \in SUBSET (1 .. m)
    OBVIOUS
  <2>3. ASSUME NEW s \in SUBSET (1 .. k)
        PROVE  h2[s] = IF s = {} THEN base ELSE Reinsert(h2[s \ {Max(s)}], seq[Max(s)])
    <3>1. CASE k \in s
      <4>1. Max(s) = k
        BY <1>m, <3>1
      <4>2. s \ {k} \in SUBSET (1 .. k) /\ k \notin s \ {k}
        OBVIOUS
      <4> QED BY <3>1, <4>1, <4>2
    <3>2. CASE k \notin s
      <4>1. s \in SUBSET (1 .. m) /\ s \ {Max(s)} \in SUBSET (1 .. k) /\ k \notin s \ {Max(s)}
        BY <2>2, <3>2
      <4>2. h2[s] = h[s] /\ h2[s \ {Max(s)}] = h[s \ {Max(s)}]
        BY <3>2, <4>1
      <4>3. h[s] = IF s = {} THEN base ELSE Reinsert(h[s \ {Max(s)}], seq[Max(s)])
        BY <2>1, <4>1
      <4> HIDE DEF h2
      <4> QED BY <4>2, <4>3
    <3> QED BY <3>1, <3>2
  <2>4. Iter(h2, k)
    BY <2>3
  <2> HIDE DEF Iter, h2
  <2> QED BY <2>4
<1>3. PICK h : Iter(h, n)
  <2> HIDE DEF Iter
  <2> QED BY <1>1, <1>2, Induction
<1> DEFINE f == CHOOSE h_ : Iter(h_, n)
<1>4. Iter(f, n)
  <2> HIDE DEF Iter
  <2> QED BY <1>3
<1>5. Reinserted(base, seq) = f[1 .. n]
  BY DEF Reinserted, FoldLeft, MapThenFoldSet
<1> HIDE DEF f
<1> DEFINE g == [i \in 0 .. n |-> f[1 .. i]]
<1>6. g[0] = base /\ g[n] = f[1 .. n]
  <2>1. 1 .. 0 = {} /\ f[{}] = base
    BY <1>4
  <2> QED BY <2>1
<1>7. ASSUME NEW i \in 1 .. n PROVE g[i] = Reinsert(g[i - 1], seq[i])
  <2>1. 1 .. i \in SUBSET (1 .. n) /\ i \in 1 .. i
    OBVIOUS
  <2>2. Max(1 .. i) = i
    BY <2>1, <1>m
  <2>3. (1 .. i) \ {i} = 1 .. (i - 1)
    OBVIOUS
  <2>4. f[1 .. i] = Reinsert(f[(1 .. i) \ {Max(1 .. i)}], seq[Max(1 .. i)])
    BY <1>4, <2>1
  <2>5. f[1 .. i] = Reinsert(f[1 .. (i - 1)], seq[i])
    BY <2>2, <2>3, <2>4
  <2> QED BY <2>5
<1> HIDE DEF g, Iter
<1> QED BY <1>5, <1>6, <1>7 DEF ReinsertsFrom

\* A table that takes one more entry.
Room(map) == map.capacity > 0 /\ map.count < map.threshold

LEMMA NewTable ==
  ASSUME NEW c \in Nat, c >= 8
  PROVE  LET new == [count |-> 0, capacity |-> c, threshold |-> c \div 2,
                     entries |-> [i \in 0 .. c - 1 |-> Free]]
         IN  IsTable(new) /\ Contents(new) = {}
<1> DEFINE new == [count |-> 0, capacity |-> c, threshold |-> c \div 2,
                   entries |-> [i \in 0 .. c - 1 |-> Free]]
<1>1. /\ new = [count |-> new.count, capacity |-> new.capacity, threshold |-> new.threshold,
                entries |-> new.entries]
      /\ new.count = 0 /\ new.capacity = c /\ new.threshold = c \div 2
      /\ new.entries = [i \in 0 .. c - 1 |-> Free]
  OBVIOUS
<1> HIDE DEF new
<1>2. TableFields(new)
  BY <1>1 DEF TableFields, Places, Entry
<1>3. Held(new) = {} /\ Contents(new) = {}
  BY <1>1 DEF Held, Places, Contents
<1>4. Reachable(new)
  BY <1>3 DEF Reachable
<1>5. 0 <= c \div 2
  OBVIOUS
<1>6. Counted(new)
  BY <1>1, <1>3, <1>5, FS_EmptySet DEF Counted
<1> QED BY <1>2, <1>3, <1>4, <1>6 DEF IsTable, new

\* map_grow loses nothing, changes no value, and makes room.
LEMMA GrowKeeps ==
  ASSUME NEW map, IsTable(map)
  PROVE  LET new == MapGrow(map)
         IN  /\ IsTable(new) /\ Contents(new) = Contents(map) /\ Room(new)
<1> DEFINE c == NewCapacity(map)
           old == [i \in 1 .. map.capacity |-> map.entries[i - 1]]
           new == [count |-> 0, capacity |-> c, threshold |-> c \div 2,
                   entries |-> [i \in 0 .. c - 1 |-> Free]]
<1>1. /\ c \in Nat /\ c >= 8 /\ map.capacity \div 2 < c \div 2
      /\ map.capacity \in Nat /\ map.count <= map.capacity \div 2
  BY DEF NewCapacity, IsTable, TableFields, Counted
<1>2. MapGrow(map) = Reinserted(new, old)
  BY DEF MapGrow, Reinserted
<1>3. IsTable(new) /\ Contents(new) = {} /\ new.capacity = c /\ new.threshold = c \div 2
  <2> HIDE DEF c
  <2> QED BY <1>1, NewTable
<1>4. DOMAIN old = 1 .. map.capacity /\ \A i \in 1 .. map.capacity : old[i] = map.entries[i - 1]
  OBVIOUS
<1> HIDE DEF c, old, new
<1>f. PICK g : ReinsertsFrom(g, new, old, map.capacity)
  BY <1>1, <1>4, ReinsertFold
<1>5. /\ g[0] = new
      /\ \A i \in 1 .. map.capacity : g[i] = Reinsert(g[i - 1], old[i])
      /\ Reinserted(new, old) = g[map.capacity]
  BY <1>f DEF ReinsertsFrom
<1> DEFINE Before(i) == {j \in Held(map) : j < i}
           Moved(i) == /\ IsTable(g[i]) /\ g[i].capacity = c /\ g[i].threshold = c \div 2
                       /\ Contents(g[i]) = {map.entries[j] : j \in Before(i)}
           S == {i \in Nat : i <= map.capacity => Moved(i)}
<1>h. Held(map) \subseteq Nat /\ \A j \in Held(map) : j < map.capacity
  BY <1>1 DEF Held, Places
<1>6. 0 \in S
  <2>1. Before(0) = {}
    BY <1>h
  <2> QED BY <1>3, <1>5, <2>1
<1>7. ASSUME NEW i \in S PROVE i + 1 \in S
  <2> SUFFICES ASSUME i + 1 <= map.capacity PROVE Moved(i + 1)
    OBVIOUS
  <2>1. Moved(i) /\ i \in Places(map)
    BY <1>1 DEF Places
  <2>2. g[i + 1] = Reinsert(g[i], map.entries[i])
    <3>1. i + 1 \in 1 .. map.capacity /\ (i + 1) - 1 = i
      BY <1>1
    <3> QED BY <1>4, <1>5, <3>1
  <2>3. CASE map.entries[i] = Free
    <3>1. g[i + 1] = g[i]
      BY <2>2, <2>3 DEF Reinsert
    <3>2. Before(i + 1) = Before(i)
      BY <1>h, <2>3 DEF Held
    <3> HIDE DEF Before
    <3> QED BY <2>1, <3>1, <3>2
  <2>4. CASE map.entries[i] # Free
    <3>1. g[i + 1] = Insert(g[i], map.entries[i])
      BY <2>2, <2>4 DEF Reinsert
    <3>2. i \in Held(map) /\ map.entries[i] \in [key : Keys, value : Nat]
      BY <2>1, <2>4, HeldIsFound DEF Held
    <3>3. Before(i + 1) = Before(i) \cup {i} /\ Before(i) \subseteq Held(map) /\ i \notin Before(i)
      BY <1>h, <3>2
    <3> HIDE DEF Before
    <3>4. ASSUME NEW x \in Contents(g[i]) PROVE x.key # map.entries[i].key
      <4>1. PICK j \in Before(i) : x = map.entries[j]
        BY <2>1
      <4>2. j \in Held(map) /\ j # i
        BY <3>3
      <4> QED BY <3>2, <4>1, <4>2, HeldIsFound
    <3>5. g[i].count <= map.count
      <4>1. Contents(g[i]) \subseteq Contents(map)
        BY <2>1, <3>3 DEF Contents
      <4>2. /\ IsFiniteSet(Contents(map)) /\ map.count = Cardinality(Contents(map))
            /\ g[i].count = Cardinality(Contents(g[i]))
        BY <2>1 DEF IsTable, Counted
      <4> QED BY <4>1, <4>2, FS_Subset
    <3>6. g[i].count < g[i].threshold /\ g[i].capacity > 0
      <4>1. g[i].count \in Nat /\ map.count \in Nat
        BY <2>1 DEF IsTable, TableFields
      <4> QED BY <1>1, <2>1, <3>5, <4>1
    <3>7. /\ IsTable(g[i + 1]) /\ Contents(g[i + 1]) = Contents(g[i]) \cup {map.entries[i]}
          /\ g[i + 1].capacity = g[i].capacity /\ g[i + 1].threshold = g[i].threshold
      BY <2>1, <3>1, <3>2, <3>4, <3>6, InsertKeeps
    <3>8. {map.entries[j] : j \in Before(i + 1)} = {map.entries[j] : j \in Before(i)} \cup {map.entries[i]}
      BY <3>3
    <3> QED BY <2>1, <3>7, <3>8
  <2> QED BY <2>3, <2>4
<1>8. Moved(map.capacity)
  <2> HIDE DEF Moved
  <2>1. S \subseteq Nat
    OBVIOUS
  <2>2. S = Nat
    <3> HIDE DEF S
    <3> QED BY <1>6, <1>7, <2>1, Induction
  <2> QED BY <1>1, <2>2
<1>9. Before(map.capacity) = Held(map)
  BY <1>h
<1>10. Contents(MapGrow(map)) = Contents(map) /\ IsTable(MapGrow(map))
  <2>1. IsTable(g[map.capacity]) /\ Contents(g[map.capacity]) = {map.entries[j] : j \in Held(map)}
    BY <1>8, <1>9
  <2>2. MapGrow(map) = g[map.capacity]
    BY <1>2, <1>5
  <2> QED BY <2>1, <2>2 DEF Contents
<1>11. Room(MapGrow(map))
  <2> DEFINE m == MapGrow(map)
  <2>1. m.capacity = c /\ m.threshold = c \div 2
    BY <1>2, <1>5, <1>8
  <2>2. m.count = map.count /\ m.count \in Nat
    BY <1>10 DEF IsTable, Counted, TableFields
  <2> HIDE DEF m
  <2> QED BY <1>1, <2>1, <2>2 DEF Room, m
<1> QED BY <1>10, <1>11

\* A key that is not there yet is set.
LEMMA SetKeeps ==
  ASSUME NEW map, IsTable(map), NEW key \in Keys, NEW value \in Nat,
         \A x \in Contents(map) : x.key # key
  PROVE  LET new == MapSet(map, key, value)
         IN  IsTable(new) /\ Contents(new) = Contents(map) \cup {[key |-> key, value |-> value]}
<1> DEFINE roomy == IF map.count = map.threshold THEN MapGrow(map) ELSE map
           e == [key |-> key, value |-> value]
           i == MapFind(roomy, key)
<1>1. IsTable(roomy) /\ Contents(roomy) = Contents(map) /\ Room(roomy)
  <2>1. CASE map.count = map.threshold
    BY <2>1, GrowKeeps
  <2>2. CASE map.count # map.threshold
    <3>1. map.count < map.threshold /\ map.capacity > 0
      BY <2>2 DEF IsTable, TableFields, Counted
    <3> QED BY <2>2, <3>1 DEF Room
  <2> QED BY <2>1, <2>2
<1>2. MapSet(map, key, value) =
        IF roomy.entries[i] = Free THEN Insert(roomy, e)
        ELSE [roomy EXCEPT !.entries[i].value = value]
  BY DEF MapSet
<1>3. e \in [key : Keys, value : Nat] /\ e.key = key
  OBVIOUS
<1> HIDE DEF roomy, e
<1>4. roomy.entries[i] = Free
  BY <1>1, NewKeyIsFree DEF Room
<1>5. IsTable(Insert(roomy, e)) /\ Contents(Insert(roomy, e)) = Contents(roomy) \cup {e}
  BY <1>1, <1>3, InsertKeeps DEF Room
<1>6. MapSet(map, key, value) = Insert(roomy, e)
  BY <1>2, <1>4
<1> QED BY <1>1, <1>5, <1>6 DEF e

\* What is in a table is found.
LEMMA ContentsAreFound ==
  ASSUME NEW map, IsTable(map), NEW x \in Contents(map)
  PROVE  IsIn(map, x.key) /\ MapGet(map, x.key) = x.value
<1>1. PICK i \in Held(map) : x = map.entries[i]
  BY DEF Contents
<1>2. MapFind(map, x.key) = i /\ map.entries[i] # Free
  BY <1>1, HeldIsFound DEF Held
<1>3. map.count > 0
  <2>1. IsFiniteSet(Contents(map)) /\ map.count = Cardinality(Contents(map)) /\ map.count \in Nat
    BY DEF IsTable, Counted, TableFields
  <2> QED BY <2>1, FS_EmptySet
<1> QED BY <1>1, <1>2, <1>3 DEF IsIn, MapGet

\* map_create
LEMMA EmptyTable == IsTable(MapNew) /\ Contents(MapNew) = {}
<1>1. /\ MapNew = [count |-> MapNew.count, capacity |-> MapNew.capacity,
                   threshold |-> MapNew.threshold, entries |-> MapNew.entries]
      /\ MapNew.count = 0 /\ MapNew.capacity = 0 /\ MapNew.threshold = 0 /\ MapNew.entries = <<>>
  BY DEF MapNew
<1>2. Places(MapNew) = {}
  BY <1>1 DEF Places
<1>3. TableFields(MapNew)
  BY <1>1, <1>2 DEF TableFields
<1>4. Held(MapNew) = {} /\ Contents(MapNew) = {}
  BY <1>2 DEF Held, Contents
<1> QED BY <1>1, <1>3, <1>4, FS_EmptySet DEF IsTable, Reachable, Counted

\* What map_set of args.c has entered is found by map_get, and what had been
\* there before is found with the value it had, in tables of every size, for every
\* hash function, whether or not the table has had to grow for it.
THEOREM WhatIsSetIsFound ==
  ASSUME NEW map, IsTable(map), NEW key \in Keys, NEW value \in Nat,
         \A x \in Contents(map) : x.key # key
  PROVE  LET new == MapSet(map, key, value)
         IN  /\ IsTable(new) /\ IsIn(new, key) /\ MapGet(new, key) = value
             /\ \A x \in Contents(map) : IsIn(new, x.key) /\ MapGet(new, x.key) = x.value
<1> DEFINE new == MapSet(map, key, value)
           e == [key |-> key, value |-> value]
<1>1. IsTable(new) /\ Contents(new) = Contents(map) \cup {e}
  BY SetKeeps
<1>2. e.key = key /\ e.value = value
  OBVIOUS
<1> HIDE DEF new, e
<1>3. \A x \in Contents(new) : IsIn(new, x.key) /\ MapGet(new, x.key) = x.value
  BY <1>1, ContentsAreFound
<1>4. IsIn(new, key) /\ MapGet(new, key) = value
  BY <1>1, <1>2, <1>3
<1> QED BY <1>1, <1>3, <1>4 DEF new

-----------------------------------------------------------------------------
(* The options of the server.                                              *)

\* The two keys of an option, one after the other.
LEMMA SplitTwoKeys ==
  ASSUME NEW map, NEW first, NEW second, NEW value
  PROVE  MapSetSplitkey(map, <<first, second>>, value)
           = MapSet(MapSet(map, first, value), second, value)
<1> DEFINE keys == <<first, second>>
           D == 1 .. 2
           Iter(h) == h = [s \in SUBSET D |-> IF s = {} THEN map
                                              ELSE MapSet(h[s \ {Max(s)}], keys[Max(s)], value)]
           one == MapSet(map, first, value)
           w == [s \in SUBSET D |->
                   IF 2 \in s THEN MapSet(IF 1 \in s THEN one ELSE map, second, value)
                   ELSE IF 1 \in s THEN one ELSE map]
           f == CHOOSE h : Iter(h)
<1>k. keys[1] = first /\ keys[2] = second /\ DOMAIN keys = D
  OBVIOUS
<1>m. \A s \in SUBSET D : /\ 2 \in s => Max(s) = 2
                          /\ 2 \notin s /\ s # {} => s = {1} /\ Max(s) = 1
  <2>1. ASSUME NEW s \in SUBSET D, 2 \in s PROVE Max(s) = 2
    BY <2>1, MaxIsLast
  <2>2. ASSUME NEW s \in SUBSET D, 2 \notin s, s # {} PROVE s = {1} /\ Max(s) = 1
    <3>1. D = {1, 2} /\ 1 \in 1 .. 1
      OBVIOUS
    <3>2. s = {1}
      BY <2>2, <3>1
    <3>3. s \in SUBSET (1 .. 1)
      BY <3>1, <3>2
    <3> QED BY <3>2, <3>3, MaxIsLast
  <2> QED BY <2>1, <2>2
<1>1. ASSUME NEW s \in SUBSET D
      PROVE  w[s] = IF s = {} THEN map ELSE MapSet(w[s \ {Max(s)}], keys[Max(s)], value)
  <2>1. CASE 2 \in s
    <3>1. Max(s) = 2 /\ keys[2] = second
      BY <1>k, <1>m, <2>1
    <3>2. w[s \ {2}] = IF 1 \in s THEN one ELSE map
      OBVIOUS
    <3>3. w[s] = MapSet(IF 1 \in s THEN one ELSE map, second, value)
      BY <2>1
    <3> HIDE DEF w, keys
    <3> QED BY <2>1, <3>1, <3>2, <3>3
  <2>2. CASE 2 \notin s /\ s # {}
    <3>1. s = {1} /\ Max(s) = 1 /\ keys[1] = first /\ s \ {1} = {}
      BY <1>k, <1>m, <2>2
    <3>2. w[{}] = map /\ w[{1}] = one
      OBVIOUS
    <3> HIDE DEF w, keys
    <3> QED BY <2>2, <3>1, <3>2
  <2>3. CASE s = {}
    BY <2>3
  <2> QED BY <2>1, <2>2, <2>3
<1>2. Iter(w)
  BY <1>1
<1>3. Iter(f)
  <2> HIDE DEF Iter, w
  <2> QED BY <1>2
<1>4. MapSetSplitkey(map, keys, value) = f[1 .. 2]
  BY <1>k DEF MapSetSplitkey, FoldLeft, MapThenFoldSet
<1> HIDE DEF f, w, keys
<1>5. f[{}] = map
  BY <1>3
<1>6. f[{1}] = MapSet(f[{}], keys[1], value)
  <2>1. {1} \in SUBSET D /\ {1} # {} /\ Max({1}) = 1 /\ {1} \ {1} = {}
    BY <1>m
  <2>2. f[{1}] = MapSet(f[{1} \ {Max({1})}], keys[Max({1})], value)
    BY <1>3, <2>1
  <2> QED BY <2>1, <2>2
<1>7. f[1 .. 2] = MapSet(f[{1}], keys[2], value)
  <2>1. D \in SUBSET D /\ D # {} /\ Max(D) = 2 /\ D \ {2} = {1}
    BY <1>m
  <2>2. f[D] = MapSet(f[D \ {Max(D)}], keys[Max(D)], value)
    BY <1>3, <2>1
  <2> QED BY <2>1, <2>2
<1> QED BY <1>4, <1>5, <1>6, <1>7, <1>k DEF keys

\* Entries of an option's two keys.
EntriesOf(first, second, i) == {[key |-> first, value |-> i], [key |-> second, value |-> i]}

LEMMA SplitkeyKeeps ==
  ASSUME NEW map, IsTable(map), NEW first \in Keys, NEW second \in Keys, first # second,
         NEW value \in Nat, \A x \in Contents(map) : x.key \notin {first, second}
  PROVE  LET new == MapSetSplitkey(map, <<first, second>>, value)
         IN  IsTable(new) /\ Contents(new) = Contents(map) \cup EntriesOf(first, second, value)
<1> DEFINE one == MapSet(map, first, value)
           two == MapSet(one, second, value)
           e == [key |-> first, value |-> value]
           d == [key |-> second, value |-> value]
<1>1. IsTable(one) /\ Contents(one) = Contents(map) \cup {e}
  BY SetKeeps
<1>2. e.key = first
  OBVIOUS
<1> HIDE DEF one, e
<1>3. \A x \in Contents(one) : x.key # second
  BY <1>1, <1>2
<1>4. IsTable(two) /\ Contents(two) = Contents(one) \cup {d}
  BY <1>1, <1>3, SetKeeps
<1>5. two = MapSetSplitkey(map, <<first, second>>, value)
  BY SplitTwoKeys DEF one
<1> HIDE DEF two
<1> QED BY <1>1, <1>4, <1>5 DEF EntriesOf, e

-----------------------------------------------------------------------------
(* The parser of the server.                                               *)

ParserFields == {"options", "map", "positional", "stream", "exited"}

LEMMA RegisterFields ==
  ASSUME NEW p, NEW option, DOMAIN p = ParserFields
  PROVE  LET new == RegisterOption(p, option)
         IN  /\ DOMAIN new = ParserFields
             /\ new.options = Append(p.options, option)
             /\ new.map = MapSetSplitkey(p.map, option.keys, Len(p.options) + 1)
             /\ new.stream = p.stream
             /\ new.exited = p.exited
BY DEF RegisterOption, ParserFields

LEMMA OneMore ==
  ASSUME NEW S, NEW seq \in Seq(S), NEW x \in S, NEW n \in Nat, Len(seq) = n
  PROVE  /\ Append(seq, x) \in Seq(S) /\ Len(Append(seq, x)) = n + 1
         /\ DOMAIN Append(seq, x) = 1 .. n + 1
         /\ Append(seq, x)[n + 1] = x
         /\ \A i \in 1 .. n : Append(seq, x)[i] = seq[i]
BY AppendProperties, LenProperties

\* What parse_arguments of the server registers, and with which types and fallbacks.
ServerEntries ==
  EntriesOf("parent", "a", 1) \cup EntriesOf("name", "n", 2) \cup EntriesOf("map", "m", 3)
    \cup EntriesOf("width", "w", 4) \cup EntriesOf("height", "h", 5) \cup EntriesOf("port", "p", 6)

ServerTable(table) == IsTable(table) /\ Contents(table) = ServerEntries

TypeOf(i) == IF i \in {2, 3} THEN "text" ELSE "int"
FallbackOf(i) == IF i \in {2, 3} THEN Empty ELSE 0

\* The parser of the server when its options have the values, before it reads the rest.
Parsing(p, values, rest) ==
  /\ DOMAIN p = ParserFields
  /\ ServerTable(p.map)
  /\ p.stream = rest
  /\ p.exited = FALSE
  /\ DOMAIN p.options = 1 .. 6
  /\ DOMAIN values = 1 .. 6
  /\ \A i \in 1 .. 6 :
       /\ "values" \in DOMAIN p.options[i]
       /\ p.options[i].type = TypeOf(i)
       /\ p.options[i].fallback = FallbackOf(i)
       /\ p.options[i].values = values[i]

NoValues == [i \in 1 .. 6 |-> <<>>]

LEMMA EntriesKeys ==
  ASSUME NEW first, NEW second, NEW i
  PROVE  \A x \in EntriesOf(first, second, i) : x.key \in {first, second}
BY DEF EntriesOf

LEMMA OptionFields ==
  ASSUME NEW type, NEW keys, NEW fallback
  PROVE  LET o == Option(type, keys, fallback)
         IN  /\ o.type = type /\ o.keys = keys /\ o.fallback = fallback /\ o.values = <<>>
             /\ "values" \in DOMAIN o
BY DEF Option

\* n options have been registered.
Registered(p, S, n, entries) ==
  /\ DOMAIN p = ParserFields /\ p.stream = <<>> /\ p.exited = FALSE
  /\ p.options \in Seq(S) /\ Len(p.options) = n /\ DOMAIN p.options = 1 .. n
  /\ IsTable(p.map) /\ Contents(p.map) = entries

RegistersOne(p, new, S, k, entries, option) ==
  /\ Registered(new, S, k, entries)
  /\ new.options[k] = option
  /\ \A i \in 1 .. k - 1 : new.options[i] = p.options[i]

LEMMA RegisterOne ==
  ASSUME NEW S, NEW n \in Nat, NEW k, k = n + 1, NEW entries, NEW p, Registered(p, S, n, entries),
         NEW first \in Keys, NEW second \in Keys, first # second,
         \A x \in entries : x.key \notin {first, second},
         NEW option \in S, option.keys = <<first, second>>,
         NEW new, new = RegisterOption(p, option)
  PROVE  RegistersOne(p, new, S, k, entries \cup EntriesOf(first, second, k), option)
<1>1. /\ DOMAIN new = ParserFields /\ new.stream = <<>> /\ new.exited = FALSE
      /\ new.options = Append(p.options, option)
      /\ new.map = MapSetSplitkey(p.map, <<first, second>>, k)
  BY RegisterFields DEF Registered
<1>2. /\ new.options \in Seq(S) /\ Len(new.options) = k /\ DOMAIN new.options = 1 .. k
      /\ new.options[k] = option
      /\ \A i \in 1 .. n : new.options[i] = p.options[i]
  BY <1>1, OneMore DEF Registered
<1>3. k \in Nat /\ k - 1 = n /\ IsTable(p.map) /\ Contents(p.map) = entries
  BY DEF Registered
<1>4. /\ IsTable(new.map)
      /\ Contents(new.map) = entries \cup EntriesOf(first, second, k)
  BY <1>1, <1>3, SplitkeyKeeps
<1> QED BY <1>1, <1>2, <1>3, <1>4 DEF Registered, RegistersOne

LEMMA ServerParserStarts == Parsing(ServerParser, NoValues, <<>>)
<1> DEFINE
      o1 == Option("int", <<"parent", "a">>, NoParent)
      o2 == Option("text", <<"name", "n">>, Empty)
      o3 == Option("text", <<"map", "m">>, Empty)
      o4 == Option("int", <<"width", "w">>, 0)
      o5 == Option("int", <<"height", "h">>, 0)
      o6 == Option("int", <<"port", "p">>, 0)
      S == {o1, o2, o3, o4, o5, o6}
      p0 == NewParser
      p1 == RegisterOption(p0, o1)
      p2 == RegisterOption(p1, o2)
      p3 == RegisterOption(p2, o3)
      p4 == RegisterOption(p3, o4)
      p5 == RegisterOption(p4, o5)
      p6 == RegisterOption(p5, o6)
      F0 == {}
      F1 == F0 \cup EntriesOf("parent", "a", 1)
      F2 == F1 \cup EntriesOf("name", "n", 2)
      F3 == F2 \cup EntriesOf("map", "m", 3)
      F4 == F3 \cup EntriesOf("width", "w", 4)
      F5 == F4 \cup EntriesOf("height", "h", 5)
      F6 == F5 \cup EntriesOf("port", "p", 6)
<1>k. {"parent", "a", "name", "n", "map", "m", "width", "w", "height", "h", "port", "p"} \subseteq Keys
  BY HashAssumption DEF Keys
<1>o. /\ o1.type = "int" /\ o1.keys = <<"parent", "a">> /\ o1.fallback = NoParent /\ o1.values = <<>>
      /\ "values" \in DOMAIN o1
      /\ o2.type = "text" /\ o2.keys = <<"name", "n">> /\ o2.fallback = Empty /\ o2.values = <<>>
      /\ "values" \in DOMAIN o2
      /\ o3.type = "text" /\ o3.keys = <<"map", "m">> /\ o3.fallback = Empty /\ o3.values = <<>>
      /\ "values" \in DOMAIN o3
      /\ o4.type = "int" /\ o4.keys = <<"width", "w">> /\ o4.fallback = 0 /\ o4.values = <<>>
      /\ "values" \in DOMAIN o4
      /\ o5.type = "int" /\ o5.keys = <<"height", "h">> /\ o5.fallback = 0 /\ o5.values = <<>>
      /\ "values" \in DOMAIN o5
      /\ o6.type = "int" /\ o6.keys = <<"port", "p">> /\ o6.fallback = 0 /\ o6.values = <<>>
      /\ "values" \in DOMAIN o6
  BY OptionFields
<1>e. /\ \A x \in F1 : x.key \in {"parent", "a"}
      /\ \A x \in F2 : x.key \in {"parent", "a", "name", "n"}
      /\ \A x \in F3 : x.key \in {"parent", "a", "name", "n", "map", "m"}
      /\ \A x \in F4 : x.key \in {"parent", "a", "name", "n", "map", "m", "width", "w"}
      /\ \A x \in F5 : x.key \in {"parent", "a", "name", "n", "map", "m", "width", "w", "height", "h"}
  BY EntriesKeys
<1>s. ServerParser = p6
  BY DEF ServerParser
<1> HIDE DEF o1, o2, o3, o4, o5, o6, F0, F1, F2, F3, F4, F5, F6
<1>S. o1 \in S /\ o2 \in S /\ o3 \in S /\ o4 \in S /\ o5 \in S /\ o6 \in S
  OBVIOUS
<1> HIDE DEF S
<1>0. Registered(p0, S, 0, F0)
  <2>1. /\ DOMAIN p0 = ParserFields /\ p0.stream = <<>> /\ p0.exited = FALSE
        /\ p0.options = <<>> /\ p0.map = MapNew
    BY DEF NewParser, ParserFields
  <2>2. <<>> \in Seq(S) /\ Len(<<>>) = 0 /\ DOMAIN <<>> = 1 .. 0
    OBVIOUS
  <2> HIDE DEF p0
  <2> QED BY <2>1, <2>2, EmptyTable DEF Registered, F0
<1> HIDE DEF p0
<1>1. /\ Registered(p1, S, 1, F1)
      /\ p1.options[1] = o1
  <2>1. /\ \A x \in F0 : x.key \notin {"parent", "a"}
        /\ "parent" \in Keys /\ "a" \in Keys /\ "parent" # "a" /\ 0 \in Nat /\ 1 = 0 + 1
        /\ o1 \in S /\ o1.keys = <<"parent", "a">>
    BY <1>k, <1>S, <1>o, <1>e DEF F0
  <2>2. p1 = RegisterOption(p0, o1)
    OBVIOUS
  <2> HIDE DEF p1
  <2>3. RegistersOne(p0, p1, S, 1, F1, o1)
    BY <1>0, <2>1, <2>2, RegisterOne DEF F1
  <2> QED BY <1>0, <2>3 DEF RegistersOne
<1> HIDE DEF p1
<1>2. /\ Registered(p2, S, 2, F2)
      /\ p2.options[1] = o1 /\ p2.options[2] = o2
  <2>1. /\ \A x \in F1 : x.key \notin {"name", "n"}
        /\ "name" \in Keys /\ "n" \in Keys /\ "name" # "n" /\ 1 \in Nat /\ 2 = 1 + 1
        /\ o2 \in S /\ o2.keys = <<"name", "n">>
    BY <1>k, <1>S, <1>o, <1>e
  <2>2. p2 = RegisterOption(p1, o2)
    OBVIOUS
  <2> HIDE DEF p2
  <2>3. RegistersOne(p1, p2, S, 2, F2, o2)
    BY <1>1, <2>1, <2>2, RegisterOne DEF F2
  <2> QED BY <1>1, <2>3 DEF RegistersOne
<1> HIDE DEF p2
<1>3. /\ Registered(p3, S, 3, F3)
      /\ p3.options[1] = o1 /\ p3.options[2] = o2 /\ p3.options[3] = o3
  <2>1. /\ \A x \in F2 : x.key \notin {"map", "m"}
        /\ "map" \in Keys /\ "m" \in Keys /\ "map" # "m" /\ 2 \in Nat /\ 3 = 2 + 1
        /\ o3 \in S /\ o3.keys = <<"map", "m">>
    BY <1>k, <1>S, <1>o, <1>e
  <2>2. p3 = RegisterOption(p2, o3)
    OBVIOUS
  <2> HIDE DEF p3
  <2>3. RegistersOne(p2, p3, S, 3, F3, o3)
    BY <1>2, <2>1, <2>2, RegisterOne DEF F3
  <2> QED BY <1>2, <2>3 DEF RegistersOne
<1> HIDE DEF p3
<1>4. /\ Registered(p4, S, 4, F4)
      /\ p4.options[1] = o1 /\ p4.options[2] = o2 /\ p4.options[3] = o3 /\ p4.options[4] = o4
  <2>1. /\ \A x \in F3 : x.key \notin {"width", "w"}
        /\ "width" \in Keys /\ "w" \in Keys /\ "width" # "w" /\ 3 \in Nat /\ 4 = 3 + 1
        /\ o4 \in S /\ o4.keys = <<"width", "w">>
    BY <1>k, <1>S, <1>o, <1>e
  <2>2. p4 = RegisterOption(p3, o4)
    OBVIOUS
  <2> HIDE DEF p4
  <2>3. RegistersOne(p3, p4, S, 4, F4, o4)
    BY <1>3, <2>1, <2>2, RegisterOne DEF F4
  <2> QED BY <1>3, <2>3 DEF RegistersOne
<1> HIDE DEF p4
<1>5. /\ Registered(p5, S, 5, F5)
      /\ p5.options[1] = o1 /\ p5.options[2] = o2 /\ p5.options[3] = o3 /\ p5.options[4] = o4 /\ p5.options[5] = o5
  <2>1. /\ \A x \in F4 : x.key \notin {"height", "h"}
        /\ "height" \in Keys /\ "h" \in Keys /\ "height" # "h" /\ 4 \in Nat /\ 5 = 4 + 1
        /\ o5 \in S /\ o5.keys = <<"height", "h">>
    BY <1>k, <1>S, <1>o, <1>e
  <2>2. p5 = RegisterOption(p4, o5)
    OBVIOUS
  <2> HIDE DEF p5
  <2>3. RegistersOne(p4, p5, S, 5, F5, o5)
    BY <1>4, <2>1, <2>2, RegisterOne DEF F5
  <2> QED BY <1>4, <2>3 DEF RegistersOne
<1> HIDE DEF p5
<1>6. /\ Registered(p6, S, 6, F6)
      /\ p6.options[1] = o1 /\ p6.options[2] = o2 /\ p6.options[3] = o3 /\ p6.options[4] = o4 /\ p6.options[5] = o5 /\ p6.options[6] = o6
  <2>1. /\ \A x \in F5 : x.key \notin {"port", "p"}
        /\ "port" \in Keys /\ "p" \in Keys /\ "port" # "p" /\ 5 \in Nat /\ 6 = 5 + 1
        /\ o6 \in S /\ o6.keys = <<"port", "p">>
    BY <1>k, <1>S, <1>o, <1>e
  <2>2. p6 = RegisterOption(p5, o6)
    OBVIOUS
  <2> HIDE DEF p6
  <2>3. RegistersOne(p5, p6, S, 6, F6, o6)
    BY <1>5, <2>1, <2>2, RegisterOne DEF F6
  <2> QED BY <1>5, <2>3 DEF RegistersOne
<1> HIDE DEF p6
<1>6a. /\ DOMAIN p6 = ParserFields /\ p6.stream = <<>> /\ p6.exited = FALSE
       /\ DOMAIN p6.options = 1 .. 6
       /\ IsTable(p6.map) /\ Contents(p6.map) = F6
  BY <1>6 DEF Registered
<1>7. ServerTable(p6.map)
  BY <1>6a DEF ServerTable, ServerEntries, F0, F1, F2, F3, F4, F5, F6
<1>8. ASSUME NEW i \in 1 .. 6
      PROVE  /\ "values" \in DOMAIN p6.options[i]
             /\ p6.options[i].type = TypeOf(i)
             /\ p6.options[i].fallback = FallbackOf(i)
             /\ p6.options[i].values = <<>>
  BY <1>6, <1>o DEF TypeOf, FallbackOf, NoParent
<1>9. DOMAIN NoValues = 1 .. 6 /\ \A i \in 1 .. 6 : NoValues[i] = <<>>
  BY DEF NoValues
<1> QED BY <1>s, <1>6a, <1>7, <1>8, <1>9 DEF Parsing

-----------------------------------------------------------------------------
(* One turn of the parser.                                                 *)
ParseNext(p) == IF p.exited \/ p.stream = <<>> THEN p ELSE ParseWord(p)

ParsesFrom(g, parser, n) ==
  /\ g[0] = parser
  /\ \A i \in 1 .. n : g[i] = ParseNext(g[i - 1])
  /\ ParseStream(parser) = g[n]

LEMMA ParseFold ==
  ASSUME NEW parser, NEW n \in Nat, DOMAIN parser.stream = 1 .. n
  PROVE  \E g : ParsesFrom(g, parser, n)
<1> DEFINE Iter(h, m) ==
      h = [s \in SUBSET (1 .. m) |-> IF s = {} THEN parser
                                     ELSE ParseNext(h[s \ {Max(s)}])]
           Iterated == {m \in Nat : \E h : Iter(h, m)}
<1>m. \A m \in Nat : \A s \in SUBSET (1 .. m) : m \in s => Max(s) = m
  BY MaxIsLast
<1>1. 0 \in Iterated
  <2>1. SUBSET (1 .. 0) = {{}}
    OBVIOUS
  <2>2. Iter([s \in SUBSET (1 .. 0) |-> parser], 0)
    BY <2>1
  <2> HIDE DEF Iter
  <2> QED BY <2>2
<1>2. ASSUME NEW m \in Iterated PROVE m + 1 \in Iterated
  <2>1. PICK h : Iter(h, m)
    OBVIOUS
  <2> DEFINE k == m + 1
             h2 == [s \in SUBSET (1 .. k) |->
                      IF k \in s THEN ParseNext(h[s \ {k}]) ELSE h[s]]
  <2>2. \A s \in SUBSET (1 .. k) : k \notin s => s \in SUBSET (1 .. m)
    OBVIOUS
  <2>3. ASSUME NEW s \in SUBSET (1 .. k)
        PROVE  h2[s] = IF s = {} THEN parser ELSE ParseNext(h2[s \ {Max(s)}])
    <3>1. CASE k \in s
      <4>1. Max(s) = k
        BY <1>m, <3>1
      <4>2. s \ {k} \in SUBSET (1 .. k) /\ k \notin s \ {k}
        OBVIOUS
      <4> QED BY <3>1, <4>1, <4>2
    <3>2. CASE k \notin s
      <4>1. s \in SUBSET (1 .. m) /\ s \ {Max(s)} \in SUBSET (1 .. k) /\ k \notin s \ {Max(s)}
        BY <2>2, <3>2
      <4>2. h2[s] = h[s] /\ h2[s \ {Max(s)}] = h[s \ {Max(s)}]
        BY <3>2, <4>1
      <4>3. h[s] = IF s = {} THEN parser ELSE ParseNext(h[s \ {Max(s)}])
        BY <2>1, <4>1
      <4> HIDE DEF h2
      <4> QED BY <4>2, <4>3
    <3> QED BY <3>1, <3>2
  <2>4. Iter(h2, k)
    BY <2>3
  <2> HIDE DEF Iter, h2
  <2> QED BY <2>4
<1>3. PICK h : Iter(h, n)
  <2> HIDE DEF Iter
  <2> QED BY <1>1, <1>2, Induction
<1> DEFINE f == CHOOSE h_ : Iter(h_, n)
<1>4. Iter(f, n)
  <2> HIDE DEF Iter
  <2> QED BY <1>3
<1>5. ParseStream(parser) = f[1 .. n]
  BY DEF ParseStream, ParseNext, FoldLeft, MapThenFoldSet
<1> HIDE DEF f
<1> DEFINE g == [i \in 0 .. n |-> f[1 .. i]]
<1>6. g[0] = parser /\ g[n] = f[1 .. n]
  <2>1. 1 .. 0 = {} /\ f[{}] = parser
    BY <1>4
  <2> QED BY <2>1
<1>7. ASSUME NEW i \in 1 .. n PROVE g[i] = ParseNext(g[i - 1])
  <2>1. 1 .. i \in SUBSET (1 .. n) /\ i \in 1 .. i
    OBVIOUS
  <2>2. Max(1 .. i) = i
    BY <2>1, <1>m
  <2>3. (1 .. i) \ {i} = 1 .. (i - 1)
    OBVIOUS
  <2>4. f[1 .. i] = ParseNext(f[(1 .. i) \ {Max(1 .. i)}])
    BY <1>4, <2>1
  <2>5. f[1 .. i] = ParseNext(f[1 .. (i - 1)])
    BY <2>2, <2>3, <2>4
  <2> QED BY <2>5
<1> HIDE DEF g, Iter
<1> QED BY <1>5, <1>6, <1>7 DEF ParsesFrom

LEMMA OneLetter ==
  ASSUME NEW p, NEW key
  PROVE  HandleShortOption(p, <<key>>) = HandleOption(p, key)
<1> DEFINE keys == <<key>>
           D == 1 .. 1
           Iter(h) == h = [s \in SUBSET D |-> IF s = {} THEN p
                                              ELSE HandleOption(h[s \ {Max(s)}], keys[Max(s)])]
           one == HandleOption(p, key)
           w == [s \in SUBSET D |-> IF 1 \in s THEN one ELSE p]
           f == CHOOSE h : Iter(h)
<1>k. keys[1] = key /\ DOMAIN keys = D /\ D = {1} /\ SUBSET D = {{}, {1}}
  OBVIOUS
<1>m. Max({1}) = 1
  <2>1. {1} \in SUBSET (1 .. 1) /\ 1 \in {1} /\ 1 \in Nat
    OBVIOUS
  <2> QED BY <2>1, MaxIsLast
<1>1. ASSUME NEW s \in SUBSET D
      PROVE  w[s] = IF s = {} THEN p ELSE HandleOption(w[s \ {Max(s)}], keys[Max(s)])
  <2>1. CASE s = {1}
    <3>1. Max(s) = 1 /\ keys[1] = key /\ s \ {1} = {}
      BY <1>k, <1>m, <2>1
    <3>2. w[{}] = p /\ w[{1}] = one
      OBVIOUS
    <3> HIDE DEF w, keys
    <3> QED BY <2>1, <3>1, <3>2
  <2>2. CASE s = {}
    BY <2>2
  <2> QED BY <1>k, <2>1, <2>2
<1>2. Iter(w)
  BY <1>1
<1>3. Iter(f)
  <2> HIDE DEF Iter, w
  <2> QED BY <1>2
<1>4. HandleShortOption(p, keys) = f[1 .. 1]
  BY <1>k DEF HandleShortOption, FoldLeft, MapThenFoldSet
<1> HIDE DEF f, w, keys
<1>5. f[{}] = p
  BY <1>3
<1>6. f[{1}] = HandleOption(f[{1} \ {Max({1})}], keys[Max({1})])
  <2>1. {1} \in SUBSET D /\ {1} # {}
    OBVIOUS
  <2> QED BY <1>3, <2>1
<1>7. {1} \ {1} = {} /\ 1 .. 1 = {1}
  OBVIOUS
<1> QED BY <1>4, <1>5, <1>6, <1>7, <1>k, <1>m DEF keys

\* The option whose key it is.
IsKeyOf(key, i) == [key |-> key, value |-> i] \in ServerEntries

\* What the option i makes of a word.
Reads(i, word, value) ==
  \/ TypeOf(i) = "text" /\ value = word
  \/ TypeOf(i) = "int" /\ IsInt(word) /\ value = IntOf(word)

StartsWith(s, a, b, rest) ==
  /\ s # <<>> /\ Head(s) = a
  /\ Tail(s) # <<>> /\ Head(Tail(s)) = b /\ Tail(Tail(s)) = rest

LEMMA TwoWords ==
  ASSUME NEW S, NEW a \in S, NEW b \in S, NEW rest \in Seq(S)
  PROVE  StartsWith(<<a, b>> \o rest, a, b, rest)
<1> DEFINE s == <<a, b>> \o rest
           t == Tail(s)
           u == Tail(t)
<1>0. /\ <<a, b>> \in Seq(S) /\ Len(<<a, b>>) = 2 /\ <<a, b>>[1] = a /\ <<a, b>>[2] = b
      /\ Len(rest) \in Nat
  OBVIOUS
<1>1. /\ s \in Seq(S) /\ Len(s) = Len(rest) + 2 /\ s[1] = a /\ s[2] = b
      /\ \A i \in 1 .. Len(rest) : s[i + 2] = rest[i]
  <2> DEFINE two == <<a, b>>
  <2> HIDE DEF two
  <2>0. two \in Seq(S) /\ Len(two) = 2 /\ two[1] = a /\ two[2] = b
    BY <1>0 DEF two
  <2>1. /\ two \o rest \in Seq(S) /\ Len(two \o rest) = Len(two) + Len(rest)
        /\ \A i \in 1 .. Len(two) + Len(rest) :
             (two \o rest)[i] = IF i <= Len(two) THEN two[i] ELSE rest[i - Len(two)]
    BY <2>0, ConcatProperties
  <2>2. (two \o rest)[1] = a /\ (two \o rest)[2] = b
    BY <1>0, <2>0, <2>1
  <2>3. ASSUME NEW i \in 1 .. Len(rest) PROVE (two \o rest)[i + 2] = rest[i]
    <3>1. i + 2 \in 1 .. Len(two) + Len(rest) /\ ~(i + 2 <= Len(two)) /\ i + 2 - Len(two) = i
      BY <1>0, <2>0
    <3> QED BY <2>1, <3>1
  <2>4. Len(two \o rest) = Len(rest) + 2
    BY <1>0, <2>0, <2>1
  <2> QED BY <2>1, <2>2, <2>3, <2>4 DEF two
<1> HIDE DEF s
<1>2. /\ s # <<>> /\ Head(s) = a /\ t \in Seq(S) /\ Len(t) = Len(rest) + 1
      /\ t[1] = b /\ \A i \in 1 .. Len(rest) : t[i + 1] = rest[i]
  <2>1. s # <<>>
    BY <1>0, <1>1
  <2>2. /\ Head(s) = s[1] /\ t \in Seq(S) /\ Len(t) = Len(s) - 1
        /\ \A i \in 1 .. Len(t) : t[i] = s[i + 1]
    BY <1>1, <2>1, HeadTailProperties
  <2> HIDE DEF t
  <2>3. Len(t) = Len(rest) + 1 /\ t[1] = s[1 + 1]
    BY <1>0, <1>1, <2>2
  <2>4. ASSUME NEW i \in 1 .. Len(rest) PROVE t[i + 1] = rest[i]
    <3>1. i + 1 \in 1 .. Len(t) /\ i + 1 + 1 = i + 2
      BY <1>0, <2>3
    <3>2. t[i + 1] = s[i + 1 + 1]
      BY <2>2, <3>1
    <3> QED BY <1>1, <3>1, <3>2
  <2> QED BY <1>1, <2>1, <2>2, <2>3, <2>4
<1> HIDE DEF t
<1>3. /\ t # <<>> /\ Head(t) = b /\ u \in Seq(S) /\ Len(u) = Len(rest)
      /\ \A i \in 1 .. Len(rest) : u[i] = rest[i]
  <2>1. t # <<>>
    BY <1>0, <1>2
  <2>2. /\ Head(t) = t[1] /\ u \in Seq(S) /\ Len(u) = Len(t) - 1
        /\ \A i \in 1 .. Len(u) : u[i] = t[i + 1]
    BY <1>2, <2>1, HeadTailProperties
  <2> HIDE DEF u
  <2>3. Len(u) = Len(rest)
    BY <1>0, <1>2, <2>2
  <2> QED BY <1>2, <2>1, <2>2, <2>3
<1> HIDE DEF u
<1>4. u = rest
  BY <1>3, SeqEqual
<1> QED BY <1>2, <1>3, <1>4 DEF s, t, u, StartsWith

LEMMA TakesOption ==
  ASSUME NEW S, NEW rest \in Seq(S), NEW key, NEW word \in S, Short(<<key>>) \in S, NEW value, NEW i \in 1 .. 6,
         IsKeyOf(key, i), Reads(i, word, value),
         NEW values, values[i] = <<>>,
         NEW p, Parsing(p, values, <<Short(<<key>>), word>> \o rest)
  PROVE  Parsing(ParseNext(p), [values EXCEPT ![i] = <<value>>], rest)
<1> DEFINE short == Short(<<key>>)
           q == [p EXCEPT !.stream = Tail(@)]
           r == [q EXCEPT !.stream = Tail(@)]
<1>1. short.form = "short" /\ short.keys = <<key>>
  BY DEF Short
<1> HIDE DEF short
<1>2. /\ p.stream # <<>> /\ Head(p.stream) = short
      /\ Tail(p.stream) # <<>> /\ Head(Tail(p.stream)) = word /\ Tail(Tail(p.stream)) = rest
  <2> DEFINE s == <<short, word>> \o rest
  <2>1. p.stream = s
    BY DEF Parsing, short
  <2>2. short \in S
    BY DEF short
  <2>3. StartsWith(s, short, word, rest)
    BY <2>2, TwoWords
  <2> HIDE DEF s
  <2> QED BY <2>1, <2>3 DEF StartsWith
<1>3. /\ DOMAIN p = ParserFields /\ p.exited = FALSE /\ ServerTable(p.map)
      /\ DOMAIN p.options = 1 .. 6 /\ DOMAIN values = 1 .. 6
  BY DEF Parsing
<1>4. ParseNext(p) = HandleShortOption(q, <<key>>)
  BY <1>1, <1>2, <1>3 DEF ParseNext, ParseWord
<1>5. /\ DOMAIN q = ParserFields /\ q.exited = FALSE /\ q.map = p.map /\ q.options = p.options
      /\ q.stream # <<>> /\ Head(q.stream) = word /\ Tail(q.stream) = rest
  BY <1>2, <1>3 DEF ParserFields
<1> HIDE DEF q
<1>6. /\ DOMAIN r = ParserFields /\ r.exited = FALSE /\ r.map = p.map /\ r.options = p.options
      /\ r.stream = rest
  BY <1>5 DEF ParserFields
<1>7. IsIn(q.map, key) /\ MapGet(q.map, key) = i
  <2> DEFINE e == [key |-> key, value |-> i]
  <2>1. e.key = key /\ e.value = i
    OBVIOUS
  <2>2. IsTable(p.map) /\ e \in Contents(p.map)
    BY <1>3 DEF ServerTable, IsKeyOf
  <2> HIDE DEF e
  <2> QED BY <1>5, <2>1, <2>2, ContentsAreFound
<1>8. HandleOption(q, key) = OptionTrySet(r, i, word)
  BY <1>5, <1>7 DEF HandleOption
<1> HIDE DEF r
<1> DEFINE new == [r EXCEPT !.options[i].values = Append(@, value)]
<1>9. OptionTrySet(r, i, word) = new
  <2>1. r.options[i].type = TypeOf(i)
    BY <1>6 DEF Parsing
  <2>2. TypeOf(i) \in {"text", "int"} /\ "text" # "int"
    BY DEF TypeOf
  <2>3. CASE TypeOf(i) = "text"
    <3>1. value = word
      BY <2>2, <2>3 DEF Reads
    <3>2. r.options[i].type = "text"
      BY <2>1, <2>3
    <3> DEFINE read == [r EXCEPT !.options[i].values = Append(@, word)]
               number == [r EXCEPT !.options[i].values = Append(@, IntOf(word))]
    <3>3. OptionTrySet(r, i, word)
            = CASE r.options[i].type = "text" -> read
                [] r.options[i].type = "int" /\ IsInt(word) -> number [] OTHER -> Exit(r)
      BY DEF OptionTrySet
    <3> HIDE DEF read, number
    <3>4. OptionTrySet(r, i, word) = read
      BY <3>2, <3>3
    <3> QED BY <3>1, <3>4 DEF read
  <2>4. CASE TypeOf(i) = "int"
    <3>1. IsInt(word) /\ value = IntOf(word) /\ r.options[i].type = "int"
      BY <2>1, <2>2, <2>4 DEF Reads
    <3> QED BY <3>1 DEF OptionTrySet
  <2> QED BY <2>2, <2>3, <2>4
<1>10. /\ DOMAIN new = ParserFields /\ new.exited = FALSE /\ new.map = p.map /\ new.stream = rest
       /\ new.options = [p.options EXCEPT ![i].values = Append(@, value)]
  BY <1>6 DEF ParserFields
<1> HIDE DEF new
<1>11. /\ DOMAIN new.options = 1 .. 6
       /\ \A j \in 1 .. 6 :
            /\ "values" \in DOMAIN new.options[j]
            /\ new.options[j].type = TypeOf(j)
            /\ new.options[j].fallback = FallbackOf(j)
            /\ j # i => new.options[j].values = values[j]
  BY <1>3, <1>10 DEF Parsing
<1>12. new.options[i].values = <<value>>
  <2>1. new.options[i].values = Append(p.options[i].values, value)
    BY <1>3, <1>10 DEF Parsing
  <2>2. p.options[i].values = <<>>
    BY DEF Parsing
  <2>3. Append(<<>>, value) = <<value>>
    OBVIOUS
  <2> QED BY <2>1, <2>2, <2>3
<1> DEFINE given == [values EXCEPT ![i] = <<value>>]
<1>13. DOMAIN given = 1 .. 6 /\ given[i] = <<value>> /\ \A j \in 1 .. 6 : j # i => given[j] = values[j]
  BY <1>3
<1> HIDE DEF given
<1>14. Parsing(new, given, rest)
  BY <1>3, <1>10, <1>11, <1>12, <1>13 DEF Parsing
<1> QED BY <1>4, <1>8, <1>9, <1>14, OneLetter DEF given

\* Of n words the parser has read some, two in each turn, and not the rest.
Reading(g, n, values, rest) ==
  \E j \in Nat : /\ 2 * j + Len(rest) = n
                 /\ Parsing(g[j], values, rest)

Turns(g, n) == \A i \in 1 .. n : g[i] = ParseNext(g[i - 1])

LEMMA ReadsOne ==
  ASSUME NEW S, NEW rest \in Seq(S), NEW key, NEW word \in S, Short(<<key>>) \in S,
         NEW value, NEW i \in 1 .. 6,
         IsKeyOf(key, i), Reads(i, word, value),
         NEW values, values[i] = <<>>,
         NEW g, NEW n \in Nat, Turns(g, n),
         Reading(g, n, values, <<Short(<<key>>), word>> \o rest)
  PROVE  Reading(g, n, [values EXCEPT ![i] = <<value>>], rest)
<1> DEFINE two == <<Short(<<key>>), word>>
           new == [values EXCEPT ![i] = <<value>>]
<1>1. PICK j \in Nat : 2 * j + Len(two \o rest) = n /\ Parsing(g[j], values, two \o rest)
  BY DEF Reading
<1>2. Len(two \o rest) = 2 + Len(rest) /\ Len(rest) \in Nat
  <2>1. two \in Seq(S) /\ Len(two) = 2
    OBVIOUS
  <2> HIDE DEF two
  <2>2. Len(two \o rest) = Len(two) + Len(rest)
    BY <2>1, ConcatProperties
  <2>3. Len(rest) \in Nat
    BY LenProperties
  <2> QED BY <2>1, <2>2, <2>3
<1>3. j + 1 \in 1 .. n /\ (j + 1) - 1 = j /\ 2 * (j + 1) + Len(rest) = n /\ j + 1 \in Nat
  <2> HIDE DEF two
  <2> QED BY <1>1, <1>2
<1>4. g[j + 1] = ParseNext(g[j])
  BY <1>3 DEF Turns
<1>5. Parsing(ParseNext(g[j]), new, rest)
  BY <1>1, TakesOption
<1> HIDE DEF new
<1> QED BY <1>3, <1>4, <1>5 DEF Reading, new

\* The same for an option that is given only in the case c.
LEMMA ReadsIf ==
  ASSUME NEW S, NEW rest \in Seq(S), NEW key, NEW word, Short(<<key>>) \in S,
         NEW value, NEW i \in 1 .. 6, NEW c \in BOOLEAN, c => word \in S,
         IsKeyOf(key, i), c => Reads(i, word, value),
         NEW values, values[i] = <<>>,
         NEW g, NEW n \in Nat, Turns(g, n),
         Reading(g, n, values, (IF c THEN <<Short(<<key>>), word>> ELSE <<>>) \o rest)
  PROVE  Reading(g, n, IF c THEN [values EXCEPT ![i] = <<value>>] ELSE values, rest)
<1>1. CASE c
  <2>1. Reading(g, n, values, <<Short(<<key>>), word>> \o rest)
    BY <1>1
  <2>2. Reading(g, n, [values EXCEPT ![i] = <<value>>], rest)
    BY <1>1, <2>1, ReadsOne
  <2> QED BY <1>1, <2>2
<1>2. CASE ~c
  <2>1. Reading(g, n, values, <<>> \o rest)
    BY <1>2
  <2>2. <<>> \o rest = rest
    BY ConcatEmptySeq
  <2> QED BY <1>2, <2>1, <2>2
<1> QED BY <1>1, <1>2

LEMMA ReadingEnds ==
  ASSUME NEW g, NEW n \in Nat, Turns(g, n), NEW values, Reading(g, n, values, <<>>)
  PROVE  Parsing(g[n], values, <<>>)
<1>1. PICK j \in Nat : 2 * j = n /\ Parsing(g[j], values, <<>>)
  BY DEF Reading
<1> DEFINE Same == {k \in Nat : j + k <= n => g[j + k] = g[j]}
<1>2. 0 \in Same
  OBVIOUS
<1>3. ASSUME NEW k \in Same PROVE k + 1 \in Same
  <2> SUFFICES ASSUME j + (k + 1) <= n PROVE g[j + (k + 1)] = g[j]
    OBVIOUS
  <2>1. j + (k + 1) \in 1 .. n /\ (j + (k + 1)) - 1 = j + k /\ j + k <= n
    OBVIOUS
  <2>2. g[j + (k + 1)] = ParseNext(g[j + k]) /\ g[j + k] = g[j]
    BY <2>1 DEF Turns
  <2>3. ParseNext(g[j]) = g[j]
    BY <1>1 DEF ParseNext, Parsing
  <2> QED BY <2>2, <2>3
<1>4. Same = Nat
  <2>1. Same \subseteq Nat
    OBVIOUS
  <2> HIDE DEF Same
  <2> QED BY <1>2, <1>3, <2>1, Induction
<1>5. j + j <= n => g[j + j] = g[j]
  BY <1>4
<1>6. g[n] = g[j]
  BY <1>1, <1>5
<1> QED BY <1>1, <1>6

-----------------------------------------------------------------------------
(* The arguments of a server.                                              *)

LEMMA NumberWord ==
  ASSUME NEW n
  PROVE  IsInt(Number(n)) /\ IntOf(Number(n)) = n
<1>1. Number(n).form = "number" /\ Number(n).number = n /\ Empty.form = "text"
  BY DEF Number, Empty, Text
<1>2. Number(n) # Empty
  BY <1>1
<1> QED BY <1>1, <1>2 DEF IsInt, IntOf

Associates(s, t, u) == (s \o t) \o u = s \o (t \o u)

LEMMA ThreeParts ==
  ASSUME NEW S, NEW s \in Seq(S), NEW t \in Seq(S), NEW u \in Seq(S)
  PROVE  Associates(s, t, u) /\ s \o t \in Seq(S)
<1>1. (s \o t) \o u = s \o (t \o u)
  BY ConcatAssociative
<1>2. s \o t \in Seq(S)
  BY ConcatProperties
<1> QED BY <1>1, <1>2 DEF Associates

FourAssociate(a, b, c, d) == ((a \o b) \o c) \o d = a \o (b \o (c \o d))

LEMMA FourParts ==
  ASSUME NEW S, NEW a \in Seq(S), NEW b \in Seq(S), NEW c \in Seq(S), NEW d \in Seq(S)
  PROVE  FourAssociate(a, b, c, d)
<1>1. Associates(a, b, c) /\ Associates(b, c, d) /\ b \o c \in Seq(S)
  BY ThreeParts
<1>2. Associates(a, b \o c, d)
  BY <1>1, ThreeParts
<1> QED BY <1>1, <1>2 DEF Associates, FourAssociate

TwoPairs(a, b, c, d, rest) == <<a, b, c, d>> \o rest = <<a, b>> \o (<<c, d>> \o rest)

LEMMA FourWords ==
  ASSUME NEW S, NEW a \in S, NEW b \in S, NEW c \in S, NEW d \in S, NEW rest \in Seq(S)
  PROVE  TwoPairs(a, b, c, d, rest)
<1>1. <<a, b, c, d>> = <<a, b>> \o <<c, d>>
  <2> DEFINE s == <<a, b>>
             t == <<c, d>>
             u == <<a, b, c, d>>
  <2>1. /\ s \in Seq(S) /\ t \in Seq(S) /\ u \in Seq(S)
        /\ Len(s) = 2 /\ Len(t) = 2 /\ Len(u) = 4
        /\ s[1] = a /\ s[2] = b /\ t[1] = c /\ t[2] = d
        /\ u[1] = a /\ u[2] = b /\ u[3] = c /\ u[4] = d
    OBVIOUS
  <2> HIDE DEF s, t, u
  <2>0. /\ s \o t \in Seq(S) /\ Len(s \o t) = Len(s) + Len(t)
        /\ \A i \in 1 .. Len(s) + Len(t) :
             (s \o t)[i] = IF i <= Len(s) THEN s[i] ELSE t[i - Len(s)]
    BY <2>1, ConcatProperties
  <2>2. /\ s \o t \in Seq(S) /\ Len(s \o t) = 4
        /\ \A i \in 1 .. 4 : (s \o t)[i] = IF i <= 2 THEN s[i] ELSE t[i - 2]
    BY <2>0, <2>1
  <2>3. ASSUME NEW i \in 1 .. 4 PROVE (s \o t)[i] = u[i]
    <3>1. i = 1 \/ i = 2 \/ i = 3 \/ i = 4
      OBVIOUS
    <3>2. (s \o t)[1] = s[1] /\ (s \o t)[2] = s[2] /\ (s \o t)[3] = t[1] /\ (s \o t)[4] = t[2]
      BY <2>2
    <3> QED BY <2>1, <3>1, <3>2
  <2>4. s \o t = u
    BY <2>1, <2>2, <2>3, SeqEqual
  <2> QED BY <2>4 DEF s, t, u
<1> DEFINE s == <<a, b>>
           t == <<c, d>>
<1>2. s \in Seq(S) /\ t \in Seq(S)
  OBVIOUS
<1>3. (s \o t) \o rest = s \o (t \o rest)
  <2> HIDE DEF s, t
  <2> QED BY <1>2, ConcatAssociative
<1> QED BY <1>1, <1>3 DEF TwoPairs

-----------------------------------------------------------------------------
(* What is asked for, and what comes out of the parser.                    *)
LEMMA SettingsEqual ==
  ASSUME NEW a, NEW b, DOMAIN a = MenuDomain, DOMAIN b = MenuDomain,
         a = [x \in MenuDomain |-> a[x]], b = [x \in MenuDomain |-> b[x]],
         a.room = b.room, a.port = b.port, a.parent = b.parent, a.map = b.map,
         a.width = b.width, a.height = b.height
  PROVE  a = b
BY DEF MenuDomain

\* host_menu_clamp_coordinate
LEMMA Clamped ==
  ASSUME NEW value \in Nat, NEW least \in Nat, NEW most \in Nat, least <= most
  PROVE  Clamp(least, value, most) \in least .. most
<1>1. CASE value < least
  <2>1. ~(value > most)
    BY <1>1
  <2> QED BY <1>1, <2>1 DEF Clamp
<1>2. CASE value > most
  <2>1. ~(value < least)
    BY <1>2
  <2> QED BY <1>2, <2>1 DEF Clamp
<1>3. CASE ~(value < least) /\ ~(value > most)
  BY <1>3 DEF Clamp
<1> QED BY <1>1, <1>2, <1>3

LEMMA TypedNumbers ==
  ASSUME NEW line \in TypedPorts \cup TypedSizes
  PROVE  Atoi(line) \in Nat
<1>1. CASE line = Empty
  BY <1>1 DEF Atoi
<1>2. CASE line # Empty
  BY <1>2, HostingAssumption DEF Atoi
<1> QED BY <1>1, <1>2

\* What comes out of the menu, with its parent.
Filled(settings) ==
  /\ DOMAIN settings = MenuDomain
  /\ settings = [x \in MenuDomain |-> settings[x]]
  /\ settings.parent \in Clients
  /\ settings.room # NULL \/ settings.port # NoPort
  /\ settings.port \in Nat /\ settings.port <= 65535
  /\ settings.map # NULL => settings.width = 0 /\ settings.height = 0
  /\ settings.map = NULL => /\ settings.width \in MinWidth .. MaxWidth
                            /\ settings.height \in MinHeight .. MaxHeight

LEMMA AskedAreFilled ==
  ASSUME NEW settings \in Asked
  PROVE  Filled(settings)
<1>1. PICK menu \in PublicSettings \cup PrivateSettings, c \in Clients :
        settings = [menu EXCEPT !.parent = c]
  BY DEF Asked
<1>2. PICK public \in BOOLEAN, in \in HostInputs : menu = HostMenu(public, in) /\ menu # NoSettings
  BY DEF PublicSettings, PrivateSettings
<1> DEFINE
      room == CASE ~public                   -> in.random
                [] public /\ in.name = Empty -> NULL
                [] OTHER                     -> in.name
      port == IF public /\ in.port \notin {Empty, Cancelled} THEN Atoi(in.port) ELSE NoPort
      blank == in.map = Empty
      leaves == \/ public /\ Cancelled \in {in.name, in.port}
                \/ room = NULL /\ port = NoPort
                \/ in.map = Cancelled
                \/ blank /\ Cancelled \in {in.width, in.height}
      map == IF blank THEN NULL ELSE in.map
      width == IF blank THEN Clamp(MinWidth, Atoi(in.width), MaxWidth) ELSE 0
      height == IF blank THEN Clamp(MinHeight, Atoi(in.height), MaxHeight) ELSE 0
<1>3. /\ ~leaves
      /\ menu = [room |-> room, port |-> port, parent |-> NoParent, map |-> map,
                 width |-> width, height |-> height]
  BY <1>2 DEF HostMenu
<1>4. /\ in.map \in TypedPaths \cup {Cancelled}
      /\ in.port \in TypedPorts \cup {Cancelled} /\ ValidPort(in.port)
      /\ in.width \in TypedSizes \cup {Cancelled} /\ in.height \in TypedSizes \cup {Cancelled}
  BY DEF HostInputs, Typed
<1>5. room # NULL \/ port # NoPort
  <2> HIDE DEF room, port
  <2> QED BY <1>3
<1>6. port \in Nat /\ port <= 65535
  <2>1. CASE public /\ in.port \notin {Empty, Cancelled}
    <3>1. in.port \in TypedPorts /\ Atoi(in.port) <= 65535
      BY <1>4, <2>1 DEF ValidPort
    <3>2. Atoi(in.port) \in Nat
      BY <3>1, TypedNumbers
    <3> QED BY <2>1, <3>1, <3>2
  <2>2. CASE ~(public /\ in.port \notin {Empty, Cancelled})
    BY <2>2 DEF NoPort
  <2> QED BY <2>1, <2>2
<1>7. map # NULL => width = 0 /\ height = 0
  OBVIOUS
<1>8. map = NULL => width \in MinWidth .. MaxWidth /\ height \in MinHeight .. MaxHeight
  <2> SUFFICES ASSUME map = NULL
               PROVE  width \in MinWidth .. MaxWidth /\ height \in MinHeight .. MaxHeight
    OBVIOUS
  <2>1. blank
    <3>1. in.map # Cancelled
      BY <1>3
    <3>2. in.map # NULL
      BY <1>4, <3>1, HostingAssumption
    <3> QED BY <3>2
  <2>2. in.width # Cancelled /\ in.height # Cancelled
    BY <1>3, <2>1
  <2>3. Atoi(in.width) \in Nat /\ Atoi(in.height) \in Nat
    BY <1>4, <2>2, TypedNumbers
  <2>4. /\ Clamp(MinWidth, Atoi(in.width), MaxWidth) \in MinWidth .. MaxWidth
        /\ Clamp(MinHeight, Atoi(in.height), MaxHeight) \in MinHeight .. MaxHeight
    BY <2>3, ServerLifeAssumption, Clamped
  <2> QED BY <2>1, <2>4
<1> HIDE DEF room, port, map, width, height, leaves, blank
<1>9. /\ DOMAIN menu = MenuDomain
      /\ menu.room = room /\ menu.port = port /\ menu.map = map /\ menu.width = width
      /\ menu.height = height
  BY <1>3 DEF MenuDomain
<1>10. /\ DOMAIN settings = MenuDomain
       /\ settings = [x \in MenuDomain |-> settings[x]]
       /\ settings.parent = c
       /\ settings.room = room /\ settings.port = port /\ settings.map = map
       /\ settings.width = width /\ settings.height = height
  BY <1>1, <1>9 DEF MenuDomain
<1> QED BY <1>5, <1>6, <1>7, <1>8, <1>10 DEF Filled

LEMMA ServerKeysAre ==
  /\ IsKeyOf("a", 1)
  /\ IsKeyOf("n", 2)
  /\ IsKeyOf("m", 3)
  /\ IsKeyOf("w", 4)
  /\ IsKeyOf("h", 5)
  /\ IsKeyOf("p", 6)
  /\ IsKeyOf("parent", 1)
  /\ IsKeyOf("name", 2)
  /\ IsKeyOf("map", 3)
  /\ IsKeyOf("width", 4)
  /\ IsKeyOf("height", 5)
  /\ IsKeyOf("port", 6)
BY DEF IsKeyOf, ServerEntries, EntriesOf

LEMMA TypesOfOptions ==
  /\ TypeOf(1) = "int" /\ TypeOf(2) = "text" /\ TypeOf(3) = "text"
  /\ TypeOf(4) = "int" /\ TypeOf(5) = "int" /\ TypeOf(6) = "int"
  /\ FallbackOf(1) = 0 /\ FallbackOf(2) = Empty /\ FallbackOf(3) = Empty
  /\ FallbackOf(4) = 0 /\ FallbackOf(5) = 0 /\ FallbackOf(6) = 0
BY DEF TypeOf, FallbackOf

\* The option of the key has the values.
Holds(p, key, values, fallback) ==
  /\ (ApFound(p, key) <=> values # <<>>)
  /\ values = <<>> => ValueOf(p, key) = fallback
  /\ \A x : values = <<x>> => ValueOf(p, key) = x

LEMMA ValuesFound ==
  ASSUME NEW p, NEW values, NEW rest, Parsing(p, values, rest),
         NEW key, NEW i \in 1 .. 6, IsKeyOf(key, i)
  PROVE  Holds(p, key, values[i], FallbackOf(i))
<1>1. MapGet(p.map, key) = i
  <2> DEFINE e == [key |-> key, value |-> i]
  <2>1. e.key = key /\ e.value = i
    OBVIOUS
  <2>2. IsTable(p.map) /\ e \in Contents(p.map)
    BY DEF Parsing, ServerTable, IsKeyOf
  <2> HIDE DEF e
  <2> QED BY <2>1, <2>2, ContentsAreFound
<1>2. p.options[i].values = values[i] /\ p.options[i].fallback = FallbackOf(i)
  BY DEF Parsing
<1>3. Values(p, key) = values[i]
  BY <1>1, <1>2 DEF Values
<1>4. ApFound(p, key) <=> values[i] # <<>>
  BY <1>3 DEF ApFound
<1>5. ValueOf(p, key) = IF values[i] = <<>> THEN FallbackOf(i) ELSE Last(values[i])
  BY <1>1, <1>2 DEF ValueOf
<1>6. ASSUME NEW x, values[i] = <<x>> PROVE ValueOf(p, key) = x
  <2>1. <<x>> # <<>> /\ Last(<<x>>) = x
    BY DEF Last
  <2> QED BY <1>5, <1>6, <2>1
<1> QED BY <1>3, <1>4, <1>5, <1>6 DEF Holds

\* The values of the options when the parser has read the arguments.
ValuesGiven(values, settings) ==
  /\ DOMAIN values = 1 .. 6
  /\ values[1] = <<settings.parent>>
  /\ values[2] = IF settings.room # NULL THEN <<settings.room>> ELSE <<>>
  /\ values[3] = IF settings.map # NULL THEN <<settings.map>> ELSE <<>>
  /\ values[4] = IF settings.map # NULL THEN <<>> ELSE <<settings.width>>
  /\ values[5] = IF settings.map # NULL THEN <<>> ELSE <<settings.height>>
  /\ values[6] = IF settings.port # NoPort THEN <<settings.port>> ELSE <<>>

WordsIn(settings, S) ==
  {Short(<<"n">>), Short(<<"p">>), Short(<<"m">>), Short(<<"w">>), Short(<<"h">>), Short(<<"a">>),
   settings.room, settings.map, Number(settings.port), Number(settings.width),
   Number(settings.height), Number(settings.parent)} \subseteq S

\* The arguments, from the front.
LEMMA ArgumentsFromTheFront ==
  ASSUME NEW settings, NEW S,
         WordsIn(settings, S)
  PROVE  LET parent == <<Short(<<"a">>), Number(settings.parent)>>
             room == IF settings.room # NULL THEN <<Short(<<"n">>), settings.room>> ELSE <<>>
             port == IF settings.port # NoPort THEN <<Short(<<"p">>), Number(settings.port)>> ELSE <<>>
             map == IF settings.map # NULL THEN <<Short(<<"m">>), settings.map>> ELSE <<>>
             width == IF settings.map = NULL THEN <<Short(<<"w">>), Number(settings.width)>> ELSE <<>>
             height == IF settings.map = NULL THEN <<Short(<<"h">>), Number(settings.height)>> ELSE <<>>
         IN  /\ ArgumentsOf(settings) = room \o (port \o (map \o (width \o (height \o parent))))
             /\ parent \in Seq(S) /\ room \in Seq(S) /\ port \in Seq(S) /\ map \in Seq(S)
             /\ width \in Seq(S) /\ height \in Seq(S)
<1> DEFINE parent == <<Short(<<"a">>), Number(settings.parent)>>
           room == IF settings.room # NULL THEN <<Short(<<"n">>), settings.room>> ELSE <<>>
           port == IF settings.port # NoPort THEN <<Short(<<"p">>), Number(settings.port)>> ELSE <<>>
           map == IF settings.map # NULL THEN <<Short(<<"m">>), settings.map>> ELSE <<>>
           width == IF settings.map = NULL THEN <<Short(<<"w">>), Number(settings.width)>> ELSE <<>>
           height == IF settings.map = NULL THEN <<Short(<<"h">>), Number(settings.height)>> ELSE <<>>
           size == <<Short(<<"w">>), Number(settings.width), Short(<<"h">>), Number(settings.height)>>
           shape == IF settings.map # NULL THEN <<Short(<<"m">>), settings.map>> ELSE size
<1>1. parent \in Seq(S) /\ room \in Seq(S) /\ port \in Seq(S)
  BY DEF WordsIn
<1>2. map \in Seq(S) /\ width \in Seq(S) /\ height \in Seq(S) /\ shape \in Seq(S)
  BY DEF WordsIn
<1>3. ArgumentsOf(settings) = ((room \o port) \o shape) \o parent
  BY DEF ArgumentsOf
<1>4. shape \o parent = map \o (width \o (height \o parent))
  <2>1. CASE settings.map # NULL
    <3>1. shape = map /\ width = <<>> /\ height = <<>>
      BY <2>1
    <3> HIDE DEF shape, map, width, height, parent
    <3>2. <<>> \o parent = parent
      BY <1>1, ConcatEmptySeq
    <3> QED BY <3>1, <3>2
  <2>2. CASE settings.map = NULL
    <3>1. size \o parent = <<Short(<<"w">>), Number(settings.width)>>
                             \o (<<Short(<<"h">>), Number(settings.height)>> \o parent)
      <4> DEFINE a == Short(<<"w">>)
                 b == Number(settings.width)
                 c == Short(<<"h">>)
                 d == Number(settings.height)
      <4>1. a \in S /\ b \in S /\ c \in S /\ d \in S /\ parent \in Seq(S)
        BY <1>1 DEF WordsIn
      <4> HIDE DEF a, b, c, d, parent
      <4>2. TwoPairs(a, b, c, d, parent)
        BY <4>1, FourWords
      <4> QED BY <4>2 DEF a, b, c, d, TwoPairs
    <3>2. /\ width = <<Short(<<"w">>), Number(settings.width)>>
          /\ height = <<Short(<<"h">>), Number(settings.height)>>
          /\ shape = size /\ map = <<>>
      BY <2>2
    <3> HIDE DEF shape, map, width, height, parent, size
    <3>3. shape \o parent = width \o (height \o parent)
      BY <3>1, <3>2
    <3>4. width \o (height \o parent) \in Seq(S)
      BY <1>1, <1>2, ConcatProperties
    <3>5. <<>> \o (width \o (height \o parent)) = width \o (height \o parent)
      BY <3>4, ConcatEmptySeq
    <3> QED BY <3>2, <3>3, <3>5
  <2> QED BY <2>1, <2>2
<1>5. ((room \o port) \o shape) \o parent = room \o (port \o (shape \o parent))
  <2>1. room \in Seq(S) /\ port \in Seq(S) /\ shape \in Seq(S) /\ parent \in Seq(S)
    BY <1>1, <1>2
  <2> HIDE DEF room, port, shape, parent
  <2>2. FourAssociate(room, port, shape, parent)
    BY <2>1, FourParts
  <2> QED BY <2>2 DEF FourAssociate
<1> HIDE DEF shape, room, port, map, width, height, parent
<1>6. ArgumentsOf(settings) = room \o (port \o (map \o (width \o (height \o parent))))
  BY <1>3, <1>4, <1>5
<1> QED BY <1>1, <1>2, <1>6 DEF room, port, map, width, height, parent

LEMMA ArgumentsRead ==
  ASSUME NEW settings, settings.room # NULL \/ settings.port # NoPort
  PROVE  \E p, values :
           /\ ParseStream([ServerParser EXCEPT !.stream = ArgumentsOf(settings)]) = p
           /\ Parsing(p, values, <<>>) /\ ValuesGiven(values, settings)
<1> DEFINE
      a == Number(settings.parent)
      n == settings.room
      p == Number(settings.port)
      m == settings.map
      w == Number(settings.width)
      h == Number(settings.height)
      S == {Short(<<"n">>), Short(<<"p">>), Short(<<"m">>), Short(<<"w">>), Short(<<"h">>),
            Short(<<"a">>), n, m, p, w, h, a}
      inRoom == settings.room # NULL
      onPort == settings.port # NoPort
      named == settings.map # NULL
      sized == settings.map = NULL
      parent == <<Short(<<"a">>), a>>
      height == IF sized THEN <<Short(<<"h">>), h>> ELSE <<>>
      width == IF sized THEN <<Short(<<"w">>), w>> ELSE <<>>
      map == IF named THEN <<Short(<<"m">>), m>> ELSE <<>>
      port == IF onPort THEN <<Short(<<"p">>), p>> ELSE <<>>
      room == IF inRoom THEN <<Short(<<"n">>), n>> ELSE <<>>
      words == ArgumentsOf(settings)
      start == [ServerParser EXCEPT !.stream = words]
      r5 == height \o parent
      r4 == width \o r5
      r3 == map \o r4
      r2 == port \o r3
      r1 == room \o r2
<1>1. /\ words = r1
      /\ parent \in Seq(S) /\ room \in Seq(S) /\ port \in Seq(S) /\ map \in Seq(S)
      /\ width \in Seq(S) /\ height \in Seq(S)
  <2>1. WordsIn(settings, S)
    BY DEF WordsIn
  <2> HIDE DEF S
  <2> QED BY <2>1, ArgumentsFromTheFront
<1>2. /\ Short(<<"n">>) \in S /\ Short(<<"p">>) \in S /\ Short(<<"m">>) \in S /\ Short(<<"w">>) \in S
      /\ Short(<<"h">>) \in S /\ Short(<<"a">>) \in S
      /\ n \in S /\ m \in S /\ p \in S /\ w \in S /\ h \in S /\ a \in S
  OBVIOUS
<1> HIDE DEF S
<1>3. /\ Reads(1, a, settings.parent) /\ Reads(2, n, settings.room) /\ Reads(3, m, settings.map)
      /\ Reads(4, w, settings.width) /\ Reads(5, h, settings.height) /\ Reads(6, p, settings.port)
  BY TypesOfOptions, NumberWord DEF Reads
<1> HIDE DEF a, n, p, m, w, h
<1>4. /\ r5 \in Seq(S) /\ r4 \in Seq(S) /\ r3 \in Seq(S) /\ r2 \in Seq(S) /\ r1 \in Seq(S)
  <2> HIDE DEF parent, height, width, map, port, room, words
  <2>5. r5 \in Seq(S)
    BY <1>1, ConcatProperties
  <2> HIDE DEF r5
  <2>4. r4 \in Seq(S)
    BY <1>1, <2>5, ConcatProperties
  <2> HIDE DEF r4
  <2>3. r3 \in Seq(S)
    BY <1>1, <2>4, ConcatProperties
  <2> HIDE DEF r3
  <2>2. r2 \in Seq(S)
    BY <1>1, <2>3, ConcatProperties
  <2> HIDE DEF r2
  <2>1. r1 \in Seq(S)
    BY <1>1, <2>2, ConcatProperties
  <2> QED BY <2>1, <2>2, <2>3, <2>4, <2>5
<1> HIDE DEF words, r1
<1>5. Parsing(start, NoValues, words)
  BY ServerParserStarts DEF Parsing, ParserFields
<1>6. start.stream = words
  BY <1>5 DEF Parsing
<1> HIDE DEF start
<1> DEFINE last == Len(words)
<1>7. last \in Nat /\ DOMAIN words = 1 .. last
  BY <1>1, <1>4, LenProperties
<1>8. PICK g : ParsesFrom(g, start, last)
  BY <1>6, <1>7, ParseFold
<1>9. Turns(g, last) /\ g[0] = start /\ ParseStream(start) = g[last]
  BY <1>8 DEF ParsesFrom, Turns
<1>10. Reading(g, last, NoValues, r1)
  <2>1. 0 \in Nat /\ 2 * 0 + Len(words) = last
    BY <1>7
  <2> QED BY <1>1, <1>5, <1>9, <2>1 DEF Reading
<1> HIDE DEF last
<1> DEFINE
      v0 == NoValues
      v1 == IF inRoom THEN [v0 EXCEPT ![2] = <<settings.room>>] ELSE v0
      v2 == IF onPort THEN [v1 EXCEPT ![6] = <<settings.port>>] ELSE v1
      v3 == IF named THEN [v2 EXCEPT ![3] = <<settings.map>>] ELSE v2
      v4 == IF sized THEN [v3 EXCEPT ![4] = <<settings.width>>] ELSE v3
      v5 == IF sized THEN [v4 EXCEPT ![5] = <<settings.height>>] ELSE v4
      v6 == [v5 EXCEPT ![1] = <<settings.parent>>]
<1>v0. DOMAIN v0 = 1 .. 6 /\ \A i \in 1 .. 6 : v0[i] = <<>>
  BY DEF NoValues
<1>r0. Reading(g, last, v0, r1)
  BY <1>10
<1> HIDE DEF v0
<1>v1. /\ DOMAIN v1 = 1 .. 6
       /\ v1[1] = <<>> /\ v1[2] = (IF inRoom THEN <<settings.room>> ELSE <<>>) /\ v1[3] = <<>>
       /\ v1[4] = <<>> /\ v1[5] = <<>> /\ v1[6] = <<>>
  BY <1>v0
<1>r1. Reading(g, last, v1, r2)
  <2>1. Reading(g, last, v0, (IF inRoom THEN <<Short(<<"n">>), n>> ELSE <<>>) \o r2)
    BY <1>r0 DEF r1
  <2>2. inRoom \in BOOLEAN /\ v0[2] = <<>> /\ 2 \in 1 .. 6
    BY <1>v0
  <2> HIDE DEF v0, inRoom, r2
  <2>3. Reading(g, last, IF inRoom THEN [v0 EXCEPT ![2] = <<settings.room>>] ELSE v0, r2)
    <3>1. /\ r2 \in Seq(S) /\ n \in S /\ Short(<<"n">>) \in S
          /\ Reads(2, n, settings.room) /\ last \in Nat /\ Turns(g, last) /\ IsKeyOf("n", 2)
      BY <1>1, <1>2, <1>3, <1>4, <1>7, <1>9, ServerKeysAre
    <3> QED BY <2>1, <2>2, <3>1, ReadsIf, ZenonT(60)
  <2> QED BY <2>3
<1> HIDE DEF v1, r2
<1>v2. /\ DOMAIN v2 = 1 .. 6
       /\ v2[1] = <<>> /\ v2[2] = (IF inRoom THEN <<settings.room>> ELSE <<>>) /\ v2[3] = <<>>
       /\ v2[4] = <<>> /\ v2[5] = <<>> /\ v2[6] = (IF onPort THEN <<settings.port>> ELSE <<>>)
  BY <1>v1
<1>r2. Reading(g, last, v2, r3)
  <2>1. Reading(g, last, v1, (IF onPort THEN <<Short(<<"p">>), p>> ELSE <<>>) \o r3)
    BY <1>r1 DEF r2
  <2>2. onPort \in BOOLEAN /\ v1[6] = <<>> /\ 6 \in 1 .. 6
    BY <1>v1
  <2> HIDE DEF v1, onPort, r3
  <2>3. Reading(g, last, IF onPort THEN [v1 EXCEPT ![6] = <<settings.port>>] ELSE v1, r3)
    <3>1. /\ r3 \in Seq(S) /\ p \in S /\ Short(<<"p">>) \in S
          /\ Reads(6, p, settings.port) /\ last \in Nat /\ Turns(g, last) /\ IsKeyOf("p", 6)
      BY <1>1, <1>2, <1>3, <1>4, <1>7, <1>9, ServerKeysAre
    <3> QED BY <2>1, <2>2, <3>1, ReadsIf, ZenonT(60)
  <2> QED BY <2>3
<1> HIDE DEF v2, r3
<1>v3. /\ DOMAIN v3 = 1 .. 6
       /\ v3[1] = <<>> /\ v3[2] = (IF inRoom THEN <<settings.room>> ELSE <<>>) /\ v3[3] = (IF named THEN <<settings.map>> ELSE <<>>)
       /\ v3[4] = <<>> /\ v3[5] = <<>> /\ v3[6] = (IF onPort THEN <<settings.port>> ELSE <<>>)
  BY <1>v2
<1>r3. Reading(g, last, v3, r4)
  <2>1. Reading(g, last, v2, (IF named THEN <<Short(<<"m">>), m>> ELSE <<>>) \o r4)
    BY <1>r2 DEF r3
  <2>2. named \in BOOLEAN /\ v2[3] = <<>> /\ 3 \in 1 .. 6
    BY <1>v2
  <2> HIDE DEF v2, named, r4
  <2>3. Reading(g, last, IF named THEN [v2 EXCEPT ![3] = <<settings.map>>] ELSE v2, r4)
    <3>1. /\ r4 \in Seq(S) /\ m \in S /\ Short(<<"m">>) \in S
          /\ Reads(3, m, settings.map) /\ last \in Nat /\ Turns(g, last) /\ IsKeyOf("m", 3)
      BY <1>1, <1>2, <1>3, <1>4, <1>7, <1>9, ServerKeysAre
    <3> QED BY <2>1, <2>2, <3>1, ReadsIf, ZenonT(60)
  <2> QED BY <2>3
<1> HIDE DEF v3, r4
<1>v4. /\ DOMAIN v4 = 1 .. 6
       /\ v4[1] = <<>> /\ v4[2] = (IF inRoom THEN <<settings.room>> ELSE <<>>) /\ v4[3] = (IF named THEN <<settings.map>> ELSE <<>>)
       /\ v4[4] = (IF sized THEN <<settings.width>> ELSE <<>>) /\ v4[5] = <<>> /\ v4[6] = (IF onPort THEN <<settings.port>> ELSE <<>>)
  BY <1>v3
<1>r4. Reading(g, last, v4, r5)
  <2>1. Reading(g, last, v3, (IF sized THEN <<Short(<<"w">>), w>> ELSE <<>>) \o r5)
    BY <1>r3 DEF r4
  <2>2. sized \in BOOLEAN /\ v3[4] = <<>> /\ 4 \in 1 .. 6
    BY <1>v3
  <2> HIDE DEF v3, sized, r5
  <2>3. Reading(g, last, IF sized THEN [v3 EXCEPT ![4] = <<settings.width>>] ELSE v3, r5)
    <3>1. /\ r5 \in Seq(S) /\ w \in S /\ Short(<<"w">>) \in S
          /\ Reads(4, w, settings.width) /\ last \in Nat /\ Turns(g, last) /\ IsKeyOf("w", 4)
      BY <1>1, <1>2, <1>3, <1>4, <1>7, <1>9, ServerKeysAre
    <3> QED BY <2>1, <2>2, <3>1, ReadsIf, ZenonT(60)
  <2> QED BY <2>3
<1> HIDE DEF v4, r5
<1>v5. /\ DOMAIN v5 = 1 .. 6
       /\ v5[1] = <<>> /\ v5[2] = (IF inRoom THEN <<settings.room>> ELSE <<>>) /\ v5[3] = (IF named THEN <<settings.map>> ELSE <<>>)
       /\ v5[4] = (IF sized THEN <<settings.width>> ELSE <<>>) /\ v5[5] = (IF sized THEN <<settings.height>> ELSE <<>>) /\ v5[6] = (IF onPort THEN <<settings.port>> ELSE <<>>)
  BY <1>v4
<1>r5. Reading(g, last, v5, parent)
  <2>1. Reading(g, last, v4, (IF sized THEN <<Short(<<"h">>), h>> ELSE <<>>) \o parent)
    BY <1>r4 DEF r5
  <2>2. sized \in BOOLEAN /\ v4[5] = <<>> /\ 5 \in 1 .. 6
    BY <1>v4
  <2> HIDE DEF v4, sized, parent
  <2>3. Reading(g, last, IF sized THEN [v4 EXCEPT ![5] = <<settings.height>>] ELSE v4, parent)
    <3>1. /\ parent \in Seq(S) /\ h \in S /\ Short(<<"h">>) \in S
          /\ Reads(5, h, settings.height) /\ last \in Nat /\ Turns(g, last) /\ IsKeyOf("h", 5)
      BY <1>1, <1>2, <1>3, <1>4, <1>7, <1>9, ServerKeysAre
    <3> QED BY <2>1, <2>2, <3>1, ReadsIf, ZenonT(60)
  <2> QED BY <2>3
<1> HIDE DEF v5
<1>v6. ValuesGiven(v6, settings)
  BY <1>v5 DEF ValuesGiven
<1>r6. Reading(g, last, v6, <<>>)
  <2>1. <<>> \in Seq(S) /\ parent \o <<>> = parent
    BY <1>1, EmptySeq, ConcatEmptySeq
  <2>2. Reading(g, last, v5, <<Short(<<"a">>), a>> \o <<>>)
    BY <1>r5, <2>1
  <2>3. v5[1] = <<>> /\ 1 \in 1 .. 6
    BY <1>v5
  <2>4. Reading(g, last, [v5 EXCEPT ![1] = <<settings.parent>>], <<>>)
    BY <1>2, <1>3, <1>7, <1>9, <2>1, <2>2, <2>3, ServerKeysAre, ReadsOne
  <2> QED BY <2>4
<1> HIDE DEF v6
<1>11. Parsing(g[last], v6, <<>>)
  BY <1>7, <1>9, <1>r6, ReadingEnds
<1> QED BY <1>9, <1>11, <1>v6 DEF start, words

\* What the menu gives is what the server makes of its arguments: the words of
\* server_launcher.c, read by ap_parse_non_terminating of args.c for the options that
\* server/argument_parser.c has registered, make the same settings again, for every
\* hash function, name, path and port the menu lets through.
THEOREM ParserReturnsSettings ==
  ASSUME NEW settings \in Asked
  PROVE  ParseArguments(ArgumentsOf(settings)) = settings
<1>1. Filled(settings)
  BY AskedAreFilled
<1>f. settings.room # NULL \/ settings.port # NoPort
  BY <1>1 DEF Filled
<1>2. PICK p, values :
        /\ ParseStream([ServerParser EXCEPT !.stream = ArgumentsOf(settings)]) = p
        /\ Parsing(p, values, <<>>) /\ ValuesGiven(values, settings)
  BY <1>f, ArgumentsRead
<1>3. p.exited = FALSE
  BY <1>2 DEF Parsing
<1>x. <<settings.parent>> # <<>> /\ <<settings.room>> # <<>> /\ <<settings.map>> # <<>>
      /\ <<settings.width>> # <<>> /\ <<settings.height>> # <<>> /\ <<settings.port>> # <<>>
  OBVIOUS
<1>h. /\ Holds(p, "parent", values[1], 0) /\ Holds(p, "name", values[2], Empty)
      /\ Holds(p, "map", values[3], Empty) /\ Holds(p, "width", values[4], 0)
      /\ Holds(p, "height", values[5], 0) /\ Holds(p, "port", values[6], 0)
  BY <1>2, ServerKeysAre, ValuesFound, TypesOfOptions
<1>v. /\ values[1] = <<settings.parent>>
      /\ values[2] = IF settings.room # NULL THEN <<settings.room>> ELSE <<>>
      /\ values[3] = IF settings.map # NULL THEN <<settings.map>> ELSE <<>>
      /\ values[4] = IF settings.map # NULL THEN <<>> ELSE <<settings.width>>
      /\ values[5] = IF settings.map # NULL THEN <<>> ELSE <<settings.height>>
      /\ values[6] = IF settings.port # NoPort THEN <<settings.port>> ELSE <<>>
  BY <1>2 DEF ValuesGiven
<1>4. StringCopy(p, "name") = settings.room /\ (ApFound(p, "name") <=> settings.room # NULL)
  BY <1>h, <1>v, <1>x DEF StringCopy, Holds
<1>5. StringCopy(p, "map") = settings.map /\ (ApFound(p, "map") <=> settings.map # NULL)
  BY <1>h, <1>v, <1>x DEF StringCopy, Holds
<1>6. ValueOf(p, "width") = settings.width /\ (settings.map = NULL => ApFound(p, "width"))
  <2>1. settings.map # NULL => settings.width = 0
    BY <1>1 DEF Filled
  <2> QED BY <1>h, <1>v, <1>x, <2>1 DEF Holds
<1>7. ValueOf(p, "height") = settings.height /\ (settings.map = NULL => ApFound(p, "height"))
  <2>1. settings.map # NULL => settings.height = 0
    BY <1>1 DEF Filled
  <2> QED BY <1>h, <1>v, <1>x, <2>1 DEF Holds
<1>8. ValueOf(p, "parent") = settings.parent
  BY <1>h, <1>v, <1>x DEF Holds
<1>9. ValueOf(p, "port") % 65536 = settings.port /\ (ApFound(p, "port") <=> settings.port # NoPort)
  <2>1. ValueOf(p, "port") = settings.port /\ (ApFound(p, "port") <=> settings.port # NoPort)
    BY <1>h, <1>v, <1>x DEF Holds, NoPort
  <2>2. settings.port \in Nat /\ settings.port <= 65535
    BY <1>1 DEF Filled
  <2>3. settings.port % 65536 = settings.port
    BY <2>2
  <2> QED BY <2>1, <2>3
<1>10. SettingsOf(p) = settings
  <2>1. /\ DOMAIN SettingsOf(p) = MenuDomain
        /\ SettingsOf(p) = [x \in MenuDomain |-> SettingsOf(p)[x]]
    BY DEF SettingsOf, MenuDomain
  <2>2. /\ SettingsOf(p).room = settings.room /\ SettingsOf(p).map = settings.map
        /\ SettingsOf(p).width = settings.width /\ SettingsOf(p).height = settings.height
        /\ SettingsOf(p).parent = settings.parent /\ SettingsOf(p).port = settings.port
    BY <1>4, <1>5, <1>6, <1>7, <1>8, <1>9 DEF SettingsOf
  <2>3. DOMAIN settings = MenuDomain /\ settings = [x \in MenuDomain |-> settings[x]]
    BY <1>1 DEF Filled
  <2> DEFINE out == SettingsOf(p)
  <2> HIDE DEF out
  <2>4. /\ DOMAIN out = MenuDomain
        /\ out = [x \in MenuDomain |-> out[x]]
        /\ out.room = settings.room /\ out.map = settings.map
        /\ out.width = settings.width /\ out.height = settings.height
        /\ out.parent = settings.parent /\ out.port = settings.port
    BY <2>1, <2>2 DEF out
  <2>5. out = settings
    BY <2>3, <2>4, SettingsEqual
  <2> QED BY <2>5 DEF out
<1>11. ~(~ApFound(p, "name") /\ ~ApFound(p, "port"))
  BY <1>f, <1>4, <1>9
<1>12. ~(~ApFound(p, "map") /\ ~(ApFound(p, "width") /\ ApFound(p, "height")))
  BY <1>5, <1>6, <1>7
<1> QED BY <1>2, <1>3, <1>10, <1>11, <1>12 DEF ParseArguments

-----------------------------------------------------------------------------
(* Types, step by step.                                                    *)

\* What ends leaves nothing.
LEMMA UnbornRecord ==
  ASSUME NEW stage \in ServerStages
  PROVE  [Unborn EXCEPT !.stage = stage] \in ServerRecord
BY DEF Unborn, ServerRecord, Words, Parsed, Templates

LEMMA ServerRecords ==
  ASSUME NEW r \in ServerRecord
  PROVE  /\ \A stage \in ServerStages : [r EXCEPT !.stage = stage] \in ServerRecord
         /\ \A players \in SUBSET Clients : [r EXCEPT !.players = players] \in ServerRecord
BY DEF ServerRecord

\* A server that changes is one of the servers still.
LEMMA OneServer ==
  ASSUME Types, NEW s \in Servers, NEW r \in ServerRecord, server' = [server EXCEPT ![s] = r]
  PROVE  server' \in [Servers -> ServerRecord]
BY DEF Types

LEMMA GoesKeepsTypes ==
  ASSUME Types, NEW s \in Servers, NEW stage \in ServerStages, Goes(s, stage)
  PROVE  server' \in [Servers -> ServerRecord]
<1> DEFINE r == [server[s] EXCEPT !.stage = stage]
<1>1. r \in ServerRecord
  BY ServerRecords DEF Types
<1>2. server' = [server EXCEPT ![s] = r]
  BY DEF Goes
<1> HIDE DEF r
<1> QED BY <1>1, <1>2, OneServer

\* What is left of a process that is abandoned is the record of a process.
LEMMA RemainsRecord ==
  ASSUME Types, NEW s \in Servers, NEW stage \in ServerStages
  PROVE  /\ Remains(s, stage) \in ServerRecord
         /\ Remains(s, stage).stage = stage /\ Remains(s, stage).asked = NoSettings
<1>1. server[s].players \in SUBSET Clients
  BY DEF Types, ServerRecord
<1> DEFINE players == server[s].players
<1>2. [Unborn EXCEPT !.stage = stage] \in ServerRecord
  BY UnbornRecord
<1>3. Remains(s, stage) = [[Unborn EXCEPT !.stage = stage] EXCEPT !.players = players]
  BY DEF Remains, Unborn
<1> HIDE DEF players
<1>4. Remains(s, stage) \in ServerRecord
  BY <1>1, <1>2, <1>3 DEF ServerRecord, players
<1> QED BY <1>3, <1>4 DEF Unborn

LEMMA AbandoningKeepsTypes ==
  ASSUME Types, NEW s \in Servers, NEW stage \in ServerStages, Abandons(s, stage)
  PROVE  server' \in [Servers -> ServerRecord] /\ UNCHANGED <<shm, flag>>
BY RemainsRecord, OneServer DEF Abandons

LEMMA ServerKeepsTypes ==
  ASSUME Types, NEW s \in Servers, ServerRuns(s), UNCHANGED client
  PROVE  Types'
<1> USE DEF Types
<1>1. /\ server' \in [Servers -> ServerRecord]
      /\ shm' \in [RoomNames -> Servers \cup {NoServer}]
      /\ flag' \in [Clients -> BOOLEAN]
  <2>1. CASE ExecFails(s)
    BY <2>1, UnbornRecord DEF ExecFails, Ends, ServerStages
  <2>2. CASE Parse(s)
    <3>1. ParseArguments(server[s].words) \in Parsed
      BY DEF Parsed, ServerRecord
    <3>2. <<>> \in Words
      BY DEF Words
    <3> DEFINE settings == ParseArguments(server[s].words)
               stage == IF settings = NoSettings THEN "refused" ELSE "parsed"
               r == [server[s] EXCEPT !.settings = settings, !.words = <<>>, !.stage = stage]
    <3>3. r \in ServerRecord
      <4>1. server[s] \in ServerRecord /\ stage \in ServerStages /\ settings \in Parsed
        BY <3>1 DEF ServerStages
      <4> HIDE DEF settings, stage
      <4> QED BY <3>2, <4>1 DEF ServerRecord
    <3>4. server' = [server EXCEPT ![s] = r]
      BY <2>2 DEF Parse
    <3>5. UNCHANGED <<shm, flag>>
      BY <2>2 DEF Parse
    <3> HIDE DEF r
    <3> QED BY <3>3, <3>4, <3>5, OneServer
  <2>3. CASE CreateRoom(s)
    <3> DEFINE room == server[s].settings.room
    <3>1. CASE Goes(s, "sized") /\ UNCHANGED <<shm, flag>>
      BY <3>1, GoesKeepsTypes DEF ServerStages
    <3>2. CASE Ends(s, "failed") /\ UNCHANGED <<shm, flag>>
      BY <3>2, UnbornRecord DEF Ends, ServerStages
    <3>3. CASE Goes(s, "created") /\ shm' = [shm EXCEPT ![room] = s] /\ UNCHANGED flag
      <4>1. server' \in [Servers -> ServerRecord]
        BY <3>3, GoesKeepsTypes DEF ServerStages
      <4> HIDE DEF room
      <4> QED BY <3>3, <4>1
    <3> QED BY <2>3, <3>1, <3>2, <3>3 DEF CreateRoom
  <2>4. CASE SizeRoom(s) \/ Listen(s) \/ Interrupt(s)
    BY <2>4, GoesKeepsTypes DEF SizeRoom, Listen, Interrupt, ServerStages
  <2>5. CASE LoadMap(s)
    <3>1. TemplateOf(server[s].settings) \in Templates
      BY DEF Templates, ServerRecord
    <3> DEFINE template == TemplateOf(server[s].settings)
               r == [server[s] EXCEPT !.stage = "initialised", !.template = template,
                                      !.players = {}]
    <3>2. CASE Ends(s, "failed") /\ DestroyMemory(s) /\ UNCHANGED flag
      BY <3>2, UnbornRecord DEF Ends, DestroyMemory, DestroyShm, ServerStages
    <3>3. CASE InitGame(s, template) /\ UNCHANGED <<shm, flag>>
      <4>1. server' = [server EXCEPT ![s] = r]
        BY <3>3 DEF InitGame
      <4>2. r \in ServerRecord
        <5>1. server[s] \in ServerRecord /\ template \in Templates
          BY <3>1
        <5>2. "initialised" \in ServerStages /\ {} \in SUBSET Clients
          BY DEF ServerStages
        <5> HIDE DEF template, Types
        <5> QED BY <5>1, <5>2 DEF ServerRecord
      <4> HIDE DEF r
      <4> QED BY <3>3, <4>1, <4>2, OneServer
    <3> QED BY <2>5, <3>2, <3>3 DEF LoadMap
  <2>6. CASE ListenFails(s) \/ Destroy(s)
    BY <2>6, UnbornRecord
    DEF ListenFails, Destroy, Ends, DestroyMemory, DestroyShm, ServerStages
  <2>7. CASE SignalLaunched(s)
    BY <2>7 DEF SignalLaunched, TellParent, Goes, ServerRecord, ServerStages
  <2>8. CASE Tick(s)
    <3>1. PICK gameRunning \in BOOLEAN :
            server' = [server EXCEPT
              ![s].played = @ \/ gameRunning,
              ![s].stage = IF gameRunning \/ ~server[s].played THEN "running" ELSE "ending"]
      BY <2>8 DEF Tick
    <3> DEFINE played == server[s].played \/ gameRunning
               stage == IF gameRunning \/ ~server[s].played THEN "running" ELSE "ending"
               r == [server[s] EXCEPT !.played = played, !.stage = stage]
    <3>2. server' = [server EXCEPT ![s] = r]
      BY <3>1
    <3>3. r \in ServerRecord
      <4>1. played \in BOOLEAN /\ stage \in ServerStages
        BY DEF ServerRecord, ServerStages
      <4> HIDE DEF played, stage
      <4> QED BY <4>1 DEF ServerRecord
    <3>4. UNCHANGED <<shm, flag>>
      BY <2>8 DEF Tick
    <3> HIDE DEF r
    <3> QED BY <3>2, <3>3, <3>4, OneServer
  <2>9. CASE SizeRoomFails(s) \/ TickFails(s)
    BY <2>9, AbandoningKeepsTypes DEF SizeRoomFails, TickFails, ServerStages, Abandoned
  <2> QED BY <2>1, <2>2, <2>3, <2>4, <2>5, <2>6, <2>7, <2>8, <2>9 DEF ServerRuns
<1> QED BY <1>1

\* A process that is made from words.
LEMMA ForkKeepsTypes ==
  ASSUME Types, NEW s \in Servers, NEW asked \in Asked \cup {NoSettings}, NEW words \in Words,
         Fork(s, asked, words)
  PROVE  server' \in [Servers -> ServerRecord]
BY DEF Types, Fork, Unborn, ServerRecord, ServerStages, Parsed, Templates

\* The records of clients at the menu, and of others.
LEMMA ClientRecords ==
  /\ AtMenu \in ClientRecord
  /\ \A stage \in ClientStages : [AtMenu EXCEPT !.stage = stage] \in ClientRecord
  /\ \A r \in ClientRecord, stage \in ClientStages :
       [r EXCEPT !.stage = stage] \in ClientRecord /\ [r EXCEPT !.stage = stage].stage = stage
BY DEF AtMenu, ClientRecord, ClientStages

\* A client that changes is one of the clients still, and the others are as before.
LEMMA OneClient ==
  ASSUME Types, NEW c \in Clients, NEW r \in ClientRecord, client' = [client EXCEPT ![c] = r]
  PROVE  /\ client' \in [Clients -> ClientRecord] /\ client'[c] = r
         /\ \A d \in Clients : d # c => client'[d] = client[d]
BY DEF Types

\* Who plays, in the game and in the record of the server.
LEMMA EnterKeepsTypes ==
  ASSUME Types, NEW c \in Clients, NEW s \in Servers, NEW shared \in BOOLEAN,
         Enter(c, s, shared), UNCHANGED <<shm, flag>>
  PROVE  /\ Types' /\ client'[c].stage = "playing"
         /\ \A d \in Clients : d # c => client'[d] = client[d]
<1> DEFINE r == [AtMenu EXCEPT !.stage = "playing", !.game = s, !.shared = shared]
<1>1. r \in ClientRecord /\ r.stage = "playing"
  BY DEF AtMenu, ClientRecord, ClientStages
<1>2. client' = [client EXCEPT ![c] = r]
  BY DEF Enter, Plays
<1> HIDE DEF r
<1>3. server' \in [Servers -> ServerRecord]
  <2>1. server[s].players \cup {c} \in SUBSET Clients
    BY DEF Types, ServerRecord
  <2> QED BY <2>1, ServerRecords DEF Enter, Types
<1> QED BY <1>1, <1>2, <1>3, OneClient DEF Types

\* Who waits for a server.
LEMMA WaitKeepsTypes ==
  ASSUME Types, NEW c \in Clients, NEW settings \in Asked, NEW child \in Servers \cup {NoChild},
         Wait(c, settings, child)
  PROVE  /\ client' \in [Clients -> ClientRecord]
         /\ client'[c] = [client[c] EXCEPT !.stage = "waiting", !.settings = settings,
                                           !.child = child]
         /\ client'[c].settings = settings
         /\ \A d \in Clients : d # c => client'[d] = client[d]
<1> DEFINE r == [client[c] EXCEPT !.stage = "waiting", !.settings = settings, !.child = child]
<1>1. client' = [client EXCEPT ![c] = r]
  BY DEF Wait
<1>2. r \in ClientRecord /\ r.settings = settings
  BY DEF Types, ClientRecord, ClientStages
<1> HIDE DEF r
<1>3. /\ client' \in [Clients -> ClientRecord] /\ client'[c] = r
      /\ \A d \in Clients : d # c => client'[d] = client[d]
  BY <1>1, <1>2, OneClient
<1> QED BY <1>2, <1>3 DEF r

\* What becomes of a client that opens a room, or connects to a port.
Arrives(c) ==
  /\ client'[c].stage \in {"menu", "playing", "killed"}
  /\ \A d \in Clients : d # c => client'[d] = client[d]

LEMMA OpenKeepsTypes ==
  ASSUME Types, NEW c \in Clients, NEW name \in RoomNames, OpenRoom(c, name)
  PROVE  Types' /\ Arrives(c)
<1>1. shm[name] \in Servers \cup {NoServer} /\ UNCHANGED <<shm, flag>>
  BY DEF OpenRoom, Types
<1>2. CASE BackToMenu(c) /\ UNCHANGED server
  BY <1>1, <1>2, ClientRecords, OneClient DEF BackToMenu, Arrives, AtMenu, Types
<1>3. CASE ClientGoes(c, "killed") /\ UNCHANGED server
  <2> DEFINE r == [client[c] EXCEPT !.stage = "killed"]
  <2>1. r \in ClientRecord /\ r.stage = "killed"
    BY ClientRecords DEF Types, ClientStages
  <2>2. client' = [client EXCEPT ![c] = r]
    BY <1>3 DEF ClientGoes
  <2> HIDE DEF r
  <2> QED BY <1>1, <1>3, <2>1, <2>2, OneClient DEF Arrives, Types
<1>4. CASE shm[name] # NoServer /\ Enter(c, shm[name], TRUE)
  BY <1>1, <1>4, EnterKeepsTypes DEF Arrives
<1>5. CASE shm[name] # NoServer /\ Plays(c, shm[name], TRUE) /\ UNCHANGED server
  <2> DEFINE r == [AtMenu EXCEPT !.stage = "playing", !.game = shm[name], !.shared = TRUE]
  <2>1. r \in ClientRecord /\ r.stage = "playing"
    BY <1>1, <1>5 DEF AtMenu, ClientRecord, ClientStages
  <2>2. client' = [client EXCEPT ![c] = r]
    BY <1>5 DEF Plays
  <2> HIDE DEF r
  <2> QED BY <1>1, <1>5, <2>1, <2>2, OneClient DEF Arrives, Types
<1> QED BY <1>2, <1>3, <1>4, <1>5 DEF OpenRoom

LEMMA ConnectKeepsTypes ==
  ASSUME Types, NEW c \in Clients, NEW port, ConnectTo(c, port)
  PROVE  Types' /\ Arrives(c)
<1>1. CASE BackToMenu(c) /\ UNCHANGED <<server, shm, flag>>
  BY <1>1, ClientRecords, OneClient DEF BackToMenu, Arrives, AtMenu, Types
<1>2. ASSUME NEW s \in Servers, Enter(c, s, FALSE), UNCHANGED <<shm, flag>>
      PROVE  Types' /\ Arrives(c)
  BY <1>2, EnterKeepsTypes DEF Arrives
<1> QED BY <1>1, <1>2 DEF ConnectTo

\* The main thread of a client.
LEMMA ClientKeepsTypes ==
  ASSUME Types, Launching, NEW c \in Clients, ClientRuns(c)
  PROVE  Types' /\ Launching'
<1>l. ASSUME Types', \A d \in Clients : d # c => client'[d] = client[d]
                       \/ client'[d].stage \notin LaunchStages,
             client'[c].stage \in LaunchStages => client'[c].settings \in Asked
      PROVE  Types' /\ Launching'
  BY <1>l DEF Launching
<1>1. ASSUME NEW public \in BOOLEAN, Launch(c, public)
      PROVE  Types' /\ Launching'
  <2>1. PICK menu \in HostSettings(public), s \in Servers :
          LET settings == [menu EXCEPT !.parent = c]
          IN  Fork(s, settings, ArgumentsOf(settings)) /\ Wait(c, settings, s)
    BY <1>1 DEF Launch
  <2> DEFINE settings == [menu EXCEPT !.parent = c]
  <2>2. settings \in Asked /\ ArgumentsOf(settings) \in Words
    BY AskedSettings DEF HostSettings, Words
  <2>3. server' \in [Servers -> ServerRecord]
    BY <2>1, <2>2, ForkKeepsTypes
  <2>4. flag' \in [Clients -> BOOLEAN] /\ shm' = shm
    BY <1>1 DEF Launch, Types
  <2>5. Wait(c, settings, s)
    BY <2>1
  <2> HIDE DEF settings
  <2> QED BY <1>l, <2>2, <2>3, <2>4, <2>5, WaitKeepsTypes DEF Types
<1>2. CASE ForkFails(c)
  <2>1. PICK menu \in HostSettings(FALSE) : Wait(c, [menu EXCEPT !.parent = c], NoChild)
    BY <1>2 DEF ForkFails
  <2> DEFINE settings == [menu EXCEPT !.parent = c]
  <2>2. settings \in Asked
    BY AskedSettings DEF HostSettings
  <2>3. flag' \in [Clients -> BOOLEAN] /\ UNCHANGED <<server, shm>>
    BY <1>2 DEF ForkFails, Types
  <2>4. Wait(c, settings, NoChild)
    BY <2>1
  <2> HIDE DEF settings
  <2> QED BY <1>l, <2>2, <2>3, <2>4, WaitKeepsTypes DEF Types
<1>3. CASE SleepEnds(c)
  <2>1. Types'
    BY <1>3, ClientRecords DEF SleepEnds, ClientGoes, serverVars, Types, ClientStages
  <2> QED
    BY <1>3, <1>l, <2>1
    DEF SleepEnds, ClientAt, ClientGoes, Launching, LaunchStages, Types, ClientRecord
<1>4. CASE GiveUp(c)
  <2>1. server' \in [Servers -> ServerRecord]
    <3>1. \A s \in Servers :
            /\ server[s] \in ServerRecord
            /\ Remains(s, IF At(s, "created") THEN "unsized" ELSE "killed") \in ServerRecord
      BY RemainsRecord DEF Types, ServerStages, Abandoned
    <3> QED BY <1>4, <3>1 DEF GiveUp
  <2>2. client' \in [Clients -> ClientRecord]
    BY <1>4, ClientRecords DEF GiveUp, Types, ClientStages
  <2>3. \A d \in Clients : client'[d] = client[d] \/ client'[d].stage \notin LaunchStages
    BY <1>4 DEF GiveUp, AtMenu, LaunchStages
  <2> QED BY <1>4, <2>1, <2>2, <2>3 DEF GiveUp, Types, Launching
<1>o. ASSUME NEW name \in RoomNames, OpenRoom(c, name)
      PROVE  Types' /\ Launching'
  BY <1>o, <1>l, OpenKeepsTypes DEF Arrives, LaunchStages
<1>c. ASSUME NEW port, ConnectTo(c, port)
      PROVE  Types' /\ Launching'
  BY <1>c, <1>l, ConnectKeepsTypes DEF Arrives, LaunchStages
<1>5. CASE PlayLaunched(c)
  <2>1. client[c].settings \in Asked
    BY <1>5 DEF PlayLaunched, ClientAt, Launching, LaunchStages
  <2>2. client[c].settings.room \in RoomNames \cup {NULL}
    <3>1. PICK menu \in PublicSettings \cup PrivateSettings, d \in Clients :
            client[c].settings = [menu EXCEPT !.parent = d]
      BY <2>1 DEF Asked
    <3> QED BY <3>1, AskedSettings
  <2> QED BY <1>5, <2>2, <1>o, <1>c DEF PlayLaunched
<1>6. CASE JoinLocal(c) \/ JoinRemote(c)
  BY <1>6, <1>o, <1>c DEF JoinLocal, JoinRemote
<1>7. CASE Leave(c)
  <2> DEFINE s == client[c].game
             r == [server[s] EXCEPT !.players = IF server[s].stage \in Abandoned THEN @ ELSE @ \ {c}]
  <2>2. server \in [Servers -> ServerRecord] /\ server' = [server EXCEPT ![s] = r]
    BY <1>7 DEF Leave, Types
  <2>3. s \in Servers => r \in ServerRecord
    <3>1. s \in Servers => server[s] \in ServerRecord
      BY <2>2
    <3> QED BY <3>1 DEF ServerRecord
  <2>1. server' \in [Servers -> ServerRecord]
    <3> HIDE DEF s, r
    <3> QED BY <2>2, <2>3
  <2> HIDE DEF s, r
  <2> QED
    BY <1>7, <1>l, <2>1, ClientRecords DEF Leave, BackToMenu, AtMenu, LaunchStages, Types
<1>8. CASE ExitMenu(c)
  <2>1. Types'
    BY <1>8, ClientRecords DEF ExitMenu, ClientGoes, serverVars, Types, ClientStages
  <2> QED
    BY <1>8, <1>l, <2>1 DEF ExitMenu, ClientGoes, Types, ClientRecord, LaunchStages
<1> QED BY <1>1, <1>2, <1>3, <1>4, <1>5, <1>6, <1>7, <1>8 DEF ClientRuns, MainMenu

LEMMA HandKeepsTypes ==
  ASSUME Types, StartByHand
  PROVE  Types'
BY ForkKeepsTypes DEF StartByHand, Types, Words

LEMMA NextKeepsTypes == Types /\ Launching /\ [Next]_vars => Types' /\ Launching'
<1> SUFFICES ASSUME Types, Launching, [Next]_vars PROVE Types' /\ Launching'
  OBVIOUS
<1>1. ASSUME NEW s \in Servers, ServerRuns(s), UNCHANGED client PROVE Types' /\ Launching'
  BY <1>1, ServerKeepsTypes DEF Launching
<1>2. CASE StartByHand
  BY <1>2, HandKeepsTypes DEF StartByHand, Launching
<1>3. CASE UNCHANGED vars
  BY <1>3 DEF vars, serverVars, Types, Launching
<1> QED BY <1>1, <1>2, <1>3, ClientKeepsTypes DEF Next

-----------------------------------------------------------------------------
(* What a step does to the processes.                                      *)

EarlyStages == {"forked", "parsed", "created", "sized", "initialised", "listening"}
StartedStages == {"running", "ending", "ended", "aborted"}
LivingStages == (EarlyStages \ {"forked"}) \cup {"running", "ending"}

\* The rooms of those that have been made.
HasRoom(s) == server[s].stage \in LivingStages \ {"parsed"} /\ server[s].settings.room # NULL

\* Maps that fit the arrays they are for.
Fits(template) ==
  template.width \in MinWidth .. MaxWidth /\ template.height \in MinHeight .. MaxHeight

\* A process that somebody has asked for has got, or will get, what was asked.
Given(s) ==
  server[s].asked # NoSettings =>
    \/ /\ server[s].stage = "forked" /\ server[s].words = ArgumentsOf(server[s].asked)
       /\ server[s].settings = NoSettings /\ server[s].template = NULL
    \/ /\ server[s].stage \in LivingStages /\ server[s].settings = server[s].asked
       /\ server[s].template = NULL \/ Fits(server[s].template)

\* Where the settings of a process come from.
Origins ==
  \A s \in Servers :
    /\ Given(s)
    /\ server[s].asked \in Asked \cup {NoSettings}
    /\ server[s].stage = "forked" /\ server[s].asked = NoSettings => server[s].words \in CommandLines
    /\ server[s].stage \in LivingStages =>
         /\ server[s].settings.room \in RoomNames \cup {NULL}
         /\ server[s].settings.parent \in Clients =>
              server[s].asked # NoSettings /\ server[s].settings = server[s].asked

\* Names and servers.
Rooms ==
  /\ \A name \in RoomNames, s \in Servers :
       shm[name] = s => \/ HasRoom(s) /\ server[s].settings.room = name
                        \/ server[s].stage \in Abandoned
  /\ \A s \in Servers : HasRoom(s) => shm[server[s].settings.room] = s

\* Clients and the servers they have started.
ChildReady(c) ==
  /\ client[c].stage = "launched" \/ (client[c].stage = "waiting" /\ flag[c]) =>
       client[c].child \in Servers /\ server[client[c].child].stage \in StartedStages
  /\ client[c].stage \in LaunchStages /\ client[c].child # NoChild =>
       server[client[c].child].stage # "unborn"
ChildOfOne(c, d) ==
  client[c].stage \in LaunchStages /\ client[d].stage \in LaunchStages
    /\ client[c].child = client[d].child /\ client[c].child # NoChild => c = d
WaitedFor(s) ==
  server[s].stage \in EarlyStages /\ server[s].asked # NoSettings =>
    /\ server[s].asked.parent \in Clients
    /\ \/ client[server[s].asked.parent].stage = "killed"
       \/ /\ client[server[s].asked.parent].stage \in {"waiting", "giving up"}
          /\ client[server[s].asked.parent].child = s

Launches ==
  /\ \A c \in Clients : ChildReady(c)
  /\ \A c, d \in Clients : ChildOfOne(c, d)
  /\ \A s \in Servers : WaitedFor(s)

IInv == Types /\ Launching /\ Origins /\ Rooms /\ Launches

Others(s) == \A t \in Servers : t # s => server'[t] = server[t]

\* The memory of what ends goes with its name.
LEMMA Freeing ==
  ASSUME IInv, NEW s \in Servers, server[s].stage \in LivingStages \ {"parsed"}, DestroyMemory(s)
  PROVE  \A name \in RoomNames :
           shm'[name] = IF shm[name] = s THEN NoServer ELSE shm[name]
<1> DEFINE room == server[s].settings.room
<1>1. shm \in [RoomNames -> Servers \cup {NoServer}] /\ room \in RoomNames \cup {NULL}
  BY DEF IInv, Types, Origins
<1>2. \A name \in RoomNames : shm[name] = s => name = room /\ room # NULL
  BY NumbersAre DEF IInv, Rooms, LivingStages, EarlyStages, HasRoom, Abandoned
<1>3. room # NULL => shm[room] = s
  BY DEF IInv, Rooms, HasRoom
<1>4. shm' = IF room # NULL THEN [shm EXCEPT ![room] = NoServer] ELSE shm
  BY DEF DestroyMemory, DestroyShm
<1> HIDE DEF room
<1> QED BY <1>1, <1>2, <1>3, <1>4

\* One process changes, and how: kept with its settings, parsed, or ended.
Kept(s, stages) ==
  /\ Others(s)
  /\ server[s].stage \in stages /\ server'[s].stage \in stages
  /\ server'[s].settings = server[s].settings /\ server'[s].asked = server[s].asked
  /\ server'[s].template \in {server[s].template, TemplateOf(server[s].settings)}
Ended(s, stages, stage) ==
  /\ Others(s) /\ server[s].stage \in stages
  /\ server'[s].stage = stage /\ server'[s].asked = NoSettings

LEMMA KeptByGoes ==
  ASSUME Types, NEW s \in Servers, NEW stage \in ServerStages, Goes(s, stage)
  PROVE  /\ Others(s) /\ server'[s].stage = stage
         /\ server'[s].settings = server[s].settings /\ server'[s].asked = server[s].asked
         /\ server'[s].template = server[s].template
<1>1. server[s] \in ServerRecord /\ server' = [server EXCEPT ![s] = [server[s] EXCEPT !.stage = stage]]
  BY DEF Types, Goes
<1>2. server'[s] = [server[s] EXCEPT !.stage = stage] /\ Others(s)
  BY <1>1 DEF Types, Others
<1> QED BY <1>1, <1>2 DEF ServerRecord

LEMMA EndedByEnds ==
  ASSUME Types, NEW s \in Servers, NEW stage, Ends(s, stage)
  PROVE  Others(s) /\ server'[s].stage = stage /\ server'[s].asked = NoSettings
<1>1. Others(s) /\ server'[s] = [Unborn EXCEPT !.stage = stage]
  BY DEF Types, Ends, Others
<1> QED BY <1>1 DEF Unborn

LEMMA AbandonedByAbandons ==
  ASSUME Types, NEW s \in Servers, NEW stage \in ServerStages, Abandons(s, stage)
  PROVE  Others(s) /\ server'[s].stage = stage /\ server'[s].asked = NoSettings
<1> DEFINE r == Remains(s, stage)
<1>1. r.stage = stage /\ r.asked = NoSettings
  BY RemainsRecord
<1>2. server' = [server EXCEPT ![s] = r]
  BY DEF Abandons
<1> HIDE DEF r
<1> QED BY <1>1, <1>2 DEF Types, Others

\* A tick that comes to its end.
LEMMA TickStep ==
  ASSUME IInv, NEW s \in Servers, Tick(s)
  PROVE  Kept(s, {"running", "ending"})
<1>t. Types
  BY DEF IInv
<1> USE DEF At, Kept
<1>1. PICK gameRunning \in BOOLEAN :
        server' = [server EXCEPT
          ![s].played = @ \/ gameRunning,
          ![s].stage = IF gameRunning \/ ~server[s].played THEN "running" ELSE "ending"]
  BY DEF Tick
<1> DEFINE stage == IF gameRunning \/ ~server[s].played THEN "running" ELSE "ending"
<1>2. server[s] \in ServerRecord /\ stage \in {"running", "ending"}
  BY <1>t DEF Types
<1>3. server' = [server EXCEPT ![s].played = @ \/ gameRunning, ![s].stage = stage]
  BY <1>1
<1> HIDE DEF stage
<1>4. Others(s)
  BY <1>t, <1>3 DEF Types, Others
<1>5. /\ server'[s].stage = stage /\ server'[s].settings = server[s].settings
      /\ server'[s].asked = server[s].asked /\ server'[s].template = server[s].template
  BY <1>t, <1>2, <1>3 DEF Types, ServerRecord
<1> QED BY <1>2, <1>4, <1>5 DEF Tick

\* It has a name, and no memory.
AbandonedEarly(s) == Ended(s, {"created"}, "unsized") \/ Ended(s, {"created"}, "unmapped")

\* The steps of a process that are not the first look at the words.
LEMMA ServerSteps ==
  ASSUME IInv, NEW s \in Servers, ServerRuns(s), ~Parse(s)
  PROVE  \/ Kept(s, EarlyStages \ {"forked"}) \/ Kept(s, {"running", "ending"})
         \/ Kept(s, {"listening", "running"}) /\ SignalLaunched(s)
         \/ Ended(s, EarlyStages, "failed") \/ Ended(s, {"ending"}, "ended")
         \/ Ended(s, {"running"}, "aborted") \/ AbandonedEarly(s)
<1>t. Types
  BY DEF IInv
<1> USE DEF At, Kept, Ended, EarlyStages, ServerStages
<1>1. CASE ExecFails(s)
  BY <1>t, <1>1, EndedByEnds DEF ExecFails
<1>2. CASE CreateRoom(s)
  BY <1>t, <1>2, EndedByEnds, KeptByGoes DEF CreateRoom
<1>3. CASE SizeRoom(s) \/ Listen(s)
  BY <1>t, <1>3, KeptByGoes DEF SizeRoom, Listen
<1>4. CASE LoadMap(s)
  <2>1. CASE Ends(s, "failed")
    BY <1>t, <1>4, <2>1, EndedByEnds DEF LoadMap
  <2>2. CASE InitGame(s, TemplateOf(server[s].settings))
    <3>1. server[s] \in ServerRecord
      BY <1>t DEF Types
    <3>2. Others(s)
      BY <1>t, <2>2 DEF InitGame, Types, Others
    <3>3. /\ server'[s].stage = "initialised" /\ server'[s].settings = server[s].settings
          /\ server'[s].asked = server[s].asked
          /\ server'[s].template = TemplateOf(server[s].settings)
      BY <1>t, <2>2, <3>1 DEF InitGame, Types, ServerRecord
    <3> QED BY <1>4, <3>2, <3>3 DEF LoadMap
  <2> QED BY <1>4, <2>1, <2>2 DEF LoadMap
<1>5. CASE ListenFails(s) \/ Destroy(s)
  BY <1>t, <1>5, EndedByEnds DEF ListenFails, Destroy
<1>6. CASE SignalLaunched(s)
  BY <1>t, <1>6, KeptByGoes DEF SignalLaunched
<1>7. CASE Tick(s)
  BY <1>7, TickStep
<1>8. CASE Interrupt(s)
  BY <1>t, <1>8, KeptByGoes DEF Interrupt
<1>9. CASE TickFails(s)
  BY <1>t, <1>9, AbandonedByAbandons DEF TickFails, Abandoned
<1>10. CASE SizeRoomFails(s)
  BY <1>t, <1>10, AbandonedByAbandons DEF SizeRoomFails, AbandonedEarly, Abandoned
<1> QED BY <1>1, <1>2, <1>3, <1>4, <1>5, <1>6, <1>7, <1>8, <1>9, <1>10 DEF ServerRuns

\* Parsing.
LEMMA ParseStep ==
  ASSUME IInv, NEW s \in Servers, Parse(s)
  PROVE  /\ Others(s) /\ server[s].stage = "forked"
         /\ server'[s].stage \in {"parsed", "refused"}
         /\ server'[s].asked = server[s].asked
         /\ Given(s)'
         /\ server'[s].stage = "parsed" =>
              /\ server'[s].settings.room \in RoomNames \cup {NULL}
              /\ server'[s].settings.parent \in Clients =>
                   server'[s].asked # NoSettings /\ server'[s].settings = server'[s].asked
<1>t. Types /\ Origins
  BY DEF IInv
<1>1. /\ Others(s) /\ server[s].stage = "forked"
      /\ server'[s].stage = IF server'[s].settings = NoSettings THEN "refused" ELSE "parsed"
      /\ server'[s].settings = ParseArguments(server[s].words)
      /\ server'[s].asked = server[s].asked /\ server'[s].template = server[s].template
  BY <1>t DEF Parse, At, Types, ServerRecord, Others
<1>2. ASSUME server'[s].stage = "parsed", server[s].asked = NoSettings
      PROVE  /\ server'[s].settings.room \in RoomNames \cup {NULL}
             /\ server'[s].settings.parent \notin Clients
  <2>1. server[s].words \in CommandLines
    BY <1>1, <1>2, <1>t DEF Origins
  <2>2. server'[s].settings = ParseArguments(server[s].words) /\ server'[s].settings # NoSettings
    BY <1>1, <1>2
  <2> QED BY <2>1, <2>2, HostingAssumption
<1>3. ASSUME server[s].asked # NoSettings
      PROVE  /\ server'[s].stage = "parsed" /\ server'[s].settings = server'[s].asked
             /\ server'[s].settings.room \in RoomNames \cup {NULL}
             /\ server'[s].template = NULL
  <2>1. /\ server[s].asked \in Asked /\ server[s].words = ArgumentsOf(server[s].asked)
        /\ server[s].template = NULL
    BY <1>1, <1>3, <1>t DEF Origins, Given, LivingStages, EarlyStages
  <2>2. server'[s].settings = server[s].asked
    BY <1>1, <2>1, ParserReturnsSettings
  <2>3. PICK menu \in PublicSettings \cup PrivateSettings, c \in Clients :
          server[s].asked = [menu EXCEPT !.parent = c]
    BY <2>1 DEF Asked
  <2>4. server[s].asked.room \in RoomNames \cup {NULL}
    BY <2>3, AskedSettings
  <2> QED BY <1>1, <1>3, <2>1, <2>2, <2>4
<1>4. Given(s)'
  BY <1>1, <1>3 DEF Given, LivingStages, EarlyStages
<1> QED BY <1>1, <1>2, <1>3, <1>4

\* Maps that are loaded, or made, fit.
LEMMA TemplatesFit ==
  ASSUME NEW settings \in Asked, TemplateOf(settings) # NULL
  PROVE  Fits(TemplateOf(settings))
<1>1. CASE settings.map # NULL
  <2>1. LoadTemplate(settings.map) # NULL /\ TemplateOf(settings) = LoadTemplate(settings.map)
    BY <1>1 DEF TemplateOf
  <2> DEFINE file == MapFiles[settings.map]
             walls == {<<n \div file.width, n % file.width>> : n \in file.walls}
  <2>2. /\ file.width \in MinWidth .. MaxWidth /\ file.height \in MinHeight .. MaxHeight
        /\ LoadTemplate(settings.map) = [EmptyTemplate(file.width, file.height) EXCEPT !.walls = walls]
    BY <2>1 DEF LoadTemplate
  <2> HIDE DEF walls, file
  <2> QED BY <2>1, <2>2 DEF EmptyTemplate, Fits
<1>2. CASE settings.map = NULL
  <2>1. settings.width \in MinWidth .. MaxWidth /\ settings.height \in MinHeight .. MaxHeight
    BY <1>2, AskedAreFilled DEF Filled
  <2> QED BY <1>2, <2>1 DEF TemplateOf, EmptyTemplate, Fits
<1> QED BY <1>1, <1>2

-----------------------------------------------------------------------------
(* The invariant, step by step.                                            *)

LEMMA ServerKeepsOrigins ==
  ASSUME IInv, NEW s \in Servers, ServerRuns(s)
  PROVE  Origins'
<1> USE DEF Origins, Others, EarlyStages, LivingStages
<1>o. Origins
  BY DEF IInv
<1>g. ASSUME NEW t \in Servers, t # s, Others(s) PROVE Given(t)'
  BY <1>o, <1>g DEF Given
<1>1. CASE Parse(s)
  BY <1>o, <1>g, <1>1, ParseStep
<1>2. CASE Kept(s, EarlyStages \ {"forked"}) \/ Kept(s, {"running", "ending"})
             \/ Kept(s, {"listening", "running"})
  <2>1. /\ Others(s) /\ server[s].stage \in LivingStages /\ server'[s].stage \in LivingStages
        /\ server'[s].settings = server[s].settings /\ server'[s].asked = server[s].asked
        /\ server'[s].template \in {server[s].template, TemplateOf(server[s].settings)}
    BY <1>2 DEF Kept
  <2>2. ASSUME server[s].asked # NoSettings
        PROVE  /\ server[s].settings = server[s].asked
               /\ server'[s].template = NULL \/ Fits(server'[s].template)
    <3>1. /\ server[s].settings = server[s].asked /\ server[s].settings \in Asked
          /\ server[s].template = NULL \/ Fits(server[s].template)
      BY <1>o, <2>1, <2>2 DEF Given
    <3> QED BY <2>1, <3>1, TemplatesFit
  <2>3. Given(s)'
    BY <2>1, <2>2 DEF Given
  <2> QED BY <1>o, <1>g, <2>1, <2>3
<1>3. CASE \/ Ended(s, EarlyStages, "failed") \/ Ended(s, {"ending"}, "ended")
           \/ Ended(s, {"running"}, "aborted") \/ AbandonedEarly(s)
  <2>1. server'[s].asked = NoSettings /\ Others(s)
    BY <1>3 DEF Ended, AbandonedEarly
  <2>2. Given(s)'
    BY <2>1 DEF Given
  <2> QED BY <1>o, <1>g, <1>3, <2>1, <2>2 DEF Ended, AbandonedEarly
<1> QED BY <1>1, <1>2, <1>3, ServerSteps

LEMMA ServerKeepsRooms ==
  ASSUME IInv, NEW s \in Servers, ServerRuns(s)
  PROVE  Rooms'
<1> USE DEF EarlyStages, LivingStages, Abandoned
<1>t. /\ Types /\ Rooms /\ Origins
      /\ \A name \in RoomNames : shm[name] \in Servers \cup {NoServer}
  BY DEF IInv, Types
<1>k. ASSUME shm' = shm, Others(s), server[s].stage \notin Abandoned,
             server'[s].stage \in LivingStages \ {"parsed"} <=> server[s].stage \in LivingStages \ {"parsed"},
             server[s].stage \in LivingStages \ {"parsed"} => server'[s].settings = server[s].settings
      PROVE  Rooms'
  BY <1>t, <1>k, NumbersAre DEF Rooms, HasRoom, Others
<1>f. ASSUME DestroyMemory(s), Others(s), server[s].stage \in LivingStages \ {"parsed"},
             server'[s].stage \notin LivingStages
      PROVE  Rooms'
  <2>1. \A name \in RoomNames : shm'[name] = IF shm[name] = s THEN NoServer ELSE shm[name]
    BY <1>f, Freeing
  <2>2. \A t \in Servers : HasRoom(t)' => t # s /\ HasRoom(t) /\ server'[t] = server[t]
    BY <1>f DEF HasRoom, Others
  <2>3. ASSUME NEW t \in Servers, HasRoom(t)'
        PROVE  shm'[server'[t].settings.room] = t
    <3>1. server[t].settings.room \in RoomNames
      BY <1>t, <2>2, <2>3 DEF HasRoom, Origins
    <3> QED BY <1>t, <2>1, <2>2, <2>3, <3>1 DEF Rooms
  <2>4. ASSUME NEW name \in RoomNames, NEW t \in Servers, shm'[name] = t
        PROVE  \/ HasRoom(t)' /\ server'[t].settings.room = name
               \/ server'[t].stage \in Abandoned
    <3>1. shm[name] = t /\ t # s
      BY <1>t, <2>1, <2>4, NumbersAre
    <3>2. server'[t] = server[t]
      BY <1>f, <3>1 DEF Others
    <3> QED BY <1>t, <3>1, <3>2 DEF Rooms, HasRoom
  <2> QED BY <2>3, <2>4 DEF Rooms
<1>1. CASE Parse(s)
  BY <1>1, <1>k, ParseStep DEF Parse
<1>2. CASE CreateRoom(s)
  <2> DEFINE room == server[s].settings.room
  <2>0. server[s].stage = "parsed" /\ room \in RoomNames \cup {NULL}
    BY <1>2, <1>t DEF CreateRoom, At, Origins
  <2>1. CASE room = NULL /\ Goes(s, "sized") /\ UNCHANGED shm
    <3>1. Others(s) /\ server'[s].settings = server[s].settings
      BY <1>t, <2>1, KeptByGoes DEF ServerStages
    <3>2. ~HasRoom(s) /\ ~HasRoom(s)' /\ server[s].stage \notin Abandoned
      BY <2>0, <2>1, <3>1 DEF HasRoom
    <3> QED BY <1>t, <2>1, <3>1, <3>2, NumbersAre DEF Rooms, HasRoom, Others
  <2>2. CASE Ends(s, "failed") /\ UNCHANGED shm
    <3>1. Others(s) /\ server'[s].stage = "failed"
      BY <1>t, <2>2, EndedByEnds
    <3> QED BY <1>k, <2>0, <2>2, <3>1
  <2>3. CASE /\ room # NULL /\ shm[room] = NoServer
             /\ Goes(s, "created") /\ shm' = [shm EXCEPT ![room] = s]
    <3>1. Others(s) /\ server'[s].stage = "created" /\ server'[s].settings = server[s].settings
      BY <1>t, <2>3, KeptByGoes DEF ServerStages
    <3>2. ~HasRoom(s) /\ HasRoom(s)' /\ server[s].stage \notin Abandoned /\ server'[s].settings.room = room
      BY <2>0, <2>3, <3>1 DEF HasRoom
    <3>3. /\ room \in RoomNames /\ shm'[room] = s
          /\ \A name \in RoomNames : name # room => shm'[name] = shm[name]
      BY <1>t, <2>0, <2>3 DEF Types
    <3>4. \A t \in Servers : t # s => (HasRoom(t)' <=> HasRoom(t)) /\ server'[t] = server[t]
      BY <3>1 DEF HasRoom, Others
    <3>5. \A name \in RoomNames : shm[name] # s
      BY <1>t, <3>2 , NumbersAre DEF Rooms
    <3> HIDE DEF room
    <3>6. ASSUME NEW name \in RoomNames, NEW t \in Servers, shm'[name] = t
          PROVE  \/ HasRoom(t)' /\ server'[t].settings.room = name
                 \/ server'[t].stage \in Abandoned
      <4>1. CASE name = room
        BY <3>2, <3>3, <3>6, <4>1
      <4>2. CASE name # room
        BY <1>t, <3>3, <3>4, <3>5, <3>6, <4>2 DEF Rooms
      <4> QED BY <4>1, <4>2
    <3>7. ASSUME NEW t \in Servers, HasRoom(t)'
          PROVE  shm'[server'[t].settings.room] = t
      <4>1. CASE t = s
        BY <3>2, <3>3, <4>1
      <4>2. CASE t # s
        <5>1. server'[t] = server[t] /\ HasRoom(t) /\ shm[server[t].settings.room] = t
          BY <1>t, <3>4, <3>7, <4>2 DEF Rooms
        <5>2. server[t].settings.room \in RoomNames
          BY <1>t, <5>1 DEF Origins, HasRoom
        <5>3. server[t].settings.room # room
          BY <2>3, <5>1, NumbersAre DEF room
        <5> QED BY <3>3, <5>1, <5>2, <5>3
      <4> QED BY <4>1, <4>2
    <3> QED BY <3>6, <3>7 DEF Rooms
  <2> QED BY <1>2, <2>1, <2>2, <2>3 DEF CreateRoom
<1>3. CASE LoadMap(s)
  <2>0. server[s].stage = "sized"
    BY <1>3 DEF LoadMap, At
  <2>1. CASE Ends(s, "failed") /\ DestroyMemory(s)
    <3>1. Others(s) /\ server'[s].stage = "failed"
      BY <1>t, <2>1, EndedByEnds
    <3> QED BY <1>f, <2>0, <2>1, <3>1
  <2>2. CASE InitGame(s, TemplateOf(server[s].settings)) /\ UNCHANGED shm
    <3>1. server[s] \in ServerRecord
      BY <1>t DEF Types
    <3>2. Others(s)
      BY <1>t, <2>2 DEF InitGame, Types, Others
    <3>3. server'[s].stage = "initialised" /\ server'[s].settings = server[s].settings
      BY <1>t, <2>2, <3>1 DEF InitGame, Types, ServerRecord
    <3> QED BY <1>k, <2>0, <2>2, <3>2, <3>3
  <2> QED BY <1>3, <2>1, <2>2 DEF LoadMap
<1>4. CASE ListenFails(s) \/ Destroy(s)
  <2>1. /\ server[s].stage \in {"initialised", "ending"} /\ DestroyMemory(s)
        /\ Ends(s, "failed") \/ Ends(s, "ended")
    BY <1>4 DEF ListenFails, Destroy, At
  <2>2. Others(s) /\ server'[s].stage \in {"failed", "ended"}
    BY <1>t, <2>1, EndedByEnds
  <2> QED BY <1>f, <2>1, <2>2
<1>5. CASE ExecFails(s)
  <2>1. Others(s) /\ server[s].stage = "forked" /\ server'[s].stage = "failed"
    BY <1>t, <1>5, EndedByEnds DEF ExecFails, At
  <2> QED BY <1>5, <1>k, <2>1 DEF ExecFails
<1>6. CASE SizeRoom(s) \/ Listen(s) \/ SignalLaunched(s) \/ Interrupt(s)
  BY <1>t, <1>k, <1>6, KeptByGoes
  DEF SizeRoom, Listen, SignalLaunched, Interrupt, At, ServerStages
<1>7. CASE Tick(s)
  <2>1. Kept(s, {"running", "ending"})
    BY <1>7, TickStep
  <2>2. server[s].stage = "running" /\ shm' = shm
    BY <1>7 DEF Tick, At
  <2> QED BY <1>k, <2>1, <2>2 DEF Kept
\* The name stays with what is left.
<1>8. CASE SizeRoomFails(s) \/ TickFails(s)
  <2>1. PICK stage \in {"unsized", "unmapped", "aborted"} : Abandons(s, stage)
    BY <1>8 DEF SizeRoomFails, TickFails
  <2>2. Others(s) /\ server'[s].stage \in Abandoned /\ shm' = shm
    BY <1>t, <2>1, AbandonedByAbandons DEF Abandons, ServerStages
  <2>3. \A t \in Servers : HasRoom(t)' => HasRoom(t) /\ server'[t] = server[t]
    BY <2>2 DEF HasRoom, Others
  <2> QED BY <1>t, <2>2, <2>3, NumbersAre DEF Rooms, HasRoom, Others
<1> QED BY <1>1, <1>2, <1>3, <1>4, <1>5, <1>6, <1>7, <1>8 DEF ServerRuns

LEMMA ServerKeepsLaunches ==
  ASSUME IInv, NEW s \in Servers, ServerRuns(s), UNCHANGED client
  PROVE  Launches'
<1> USE DEF EarlyStages, StartedStages
<1>t. Types /\ Launches /\ Origins
  BY DEF IInv
\* A server that is alive when it has changed had been asked for by the same one.
<1>1. /\ Others(s) /\ server'[s].stage # "unborn"
      /\ server'[s].stage \in EarlyStages =>
           server[s].stage \in EarlyStages /\ server'[s].asked = server[s].asked
      /\ server[s].stage \in StartedStages => server'[s].stage \in StartedStages
  <2>1. CASE Parse(s)
    BY <2>1, ParseStep
  <2>2. CASE Kept(s, EarlyStages \ {"forked"}) \/ Kept(s, {"running", "ending"})
               \/ (Kept(s, {"listening", "running"}) /\ SignalLaunched(s))
    <3>1. SignalLaunched(s) => server'[s].stage = "running"
      BY <1>t, KeptByGoes DEF SignalLaunched, ServerStages
    <3> QED BY <2>2, <3>1 DEF Kept
  <2>3. CASE \/ Ended(s, EarlyStages, "failed") \/ Ended(s, {"ending"}, "ended")
             \/ Ended(s, {"running"}, "aborted") \/ AbandonedEarly(s)
    BY <2>3 DEF Ended, AbandonedEarly
  <2> QED BY <2>1, <2>2, <2>3, ServerSteps
<1>2. ASSUME NEW c \in Clients, flag'[c], client[c].stage = "waiting", ~flag[c]
      PROVE  client[c].child = s /\ server'[s].stage = "running"
  <2>1. SignalLaunched(s)
    BY <1>2 DEF ServerRuns, ExecFails, Parse, CreateRoom, SizeRoom, SizeRoomFails, LoadMap, Listen,
                ListenFails, Tick, TickFails, Abandons, Interrupt, Destroy
  <2>2. server[s].stage = "listening" /\ server'[s].stage = "running"
    BY <1>t, <2>1, KeptByGoes DEF SignalLaunched, At, ServerStages
  <2>3. server[s].settings.parent = c
    BY <1>t, <1>2, <2>1 DEF SignalLaunched, TellParent, Types
  <2>4. server[s].asked # NoSettings /\ server[s].asked.parent = c
    BY <1>t, <2>2, <2>3 DEF Origins, LivingStages
  <2>5. client[c].child = s
    BY <1>t, <1>2, <2>2, <2>4 DEF Launches, WaitedFor
  <2> QED BY <2>2, <2>5
<1>3. ASSUME NEW c \in Clients,
             client[c].stage = "launched" \/ (client[c].stage = "waiting" /\ flag'[c])
      PROVE  client[c].child \in Servers /\ server'[client[c].child].stage \in StartedStages
  <2>1. CASE client[c].stage = "launched" \/ (client[c].stage = "waiting" /\ flag[c])
    <3>1. client[c].child \in Servers /\ server[client[c].child].stage \in StartedStages
      BY <1>t, <2>1 DEF Launches, ChildReady
    <3> QED BY <1>1, <3>1 DEF Others
  <2>2. CASE client[c].stage = "waiting" /\ flag'[c] /\ ~flag[c]
    BY <1>2, <2>2
  <2> QED BY <1>3, <2>1, <2>2
<1>4. ASSUME NEW c \in Clients, client[c].stage \in LaunchStages, client[c].child # NoChild
      PROVE  server'[client[c].child].stage # "unborn"
  <2>1. client[c].child \in Servers
    BY <1>t, <1>4 DEF Types, ClientRecord
  <2> QED BY <1>t, <1>1, <1>4, <2>1 DEF Launches, ChildReady, Others
<1>5. ASSUME NEW r \in Servers, server'[r].stage \in EarlyStages, server'[r].asked # NoSettings
      PROVE  server[r].stage \in EarlyStages /\ server'[r].asked = server[r].asked
  BY <1>1, <1>5 DEF Others
<1>6. ASSUME NEW r \in Servers PROVE WaitedFor(r)'
  <2>1. WaitedFor(r)
    BY <1>t DEF Launches
  <2> QED BY <1>t, <1>5, <2>1 DEF WaitedFor
<1>7. ASSUME NEW c \in Clients PROVE ChildReady(c)'
  BY <1>t, <1>3, <1>4 DEF ChildReady
<1>8. ASSUME NEW c \in Clients, NEW d \in Clients PROVE ChildOfOne(c, d)'
  BY <1>t DEF Launches, ChildOfOne
<1> QED BY <1>6, <1>7, <1>8 DEF Launches

\* A process that is made from words, asked for by somebody or by nobody.
LEMMA ForkStep ==
  ASSUME IInv, NEW s \in Servers, NEW asked, NEW words, Fork(s, asked, words)
  PROVE  /\ Others(s) /\ server[s].stage = "unborn" /\ server'[s].stage = "forked"
         /\ server'[s].asked = asked /\ server'[s].words = words
         /\ server'[s].settings = NoSettings /\ server'[s].template = NULL
<1>1. server' = [server EXCEPT ![s] =
        [Unborn EXCEPT !.stage = "forked", !.asked = asked, !.words = words]]
  BY DEF Fork
<1>2. server[s].stage = "unborn"
  BY DEF Fork, At
<1>3. Others(s) /\ server'[s] = [Unborn EXCEPT !.stage = "forked", !.asked = asked, !.words = words]
  BY <1>1 DEF IInv, Types, Others
<1> QED BY <1>2, <1>3 DEF Unborn

LEMMA ForkKeepsRooms ==
  ASSUME IInv, NEW s \in Servers, Others(s), server[s].stage = "unborn",
         server'[s].stage = "forked", UNCHANGED shm
  PROVE  Rooms'
BY DEF IInv, Rooms, HasRoom, Others, LivingStages, EarlyStages, Abandoned

LEMMA ForkKeepsOrigins ==
  ASSUME IInv, NEW s \in Servers, Others(s), server'[s].stage = "forked",
         server'[s].settings = NoSettings, server'[s].template = NULL,
         \/ /\ server'[s].asked \in Asked /\ server'[s].asked # NoSettings
            /\ server'[s].words = ArgumentsOf(server'[s].asked)
         \/ server'[s].asked = NoSettings /\ server'[s].words \in CommandLines
  PROVE  Origins'
<1>1. ASSUME NEW t \in Servers PROVE Given(t)'
  BY DEF IInv, Origins, Others, Given
<1> QED BY <1>1 DEF IInv, Origins, Others, LivingStages, EarlyStages

\* Clients that come and go, and the processes they leave as they are.
LEMMA PlayingKeepsInv ==
  ASSUME IInv, UNCHANGED shm,
         \A s \in Servers : /\ server'[s].stage = server[s].stage
                            /\ server'[s].settings = server[s].settings
                            /\ server'[s].asked = server[s].asked
                            /\ server'[s].words = server[s].words
                            /\ server'[s].template = server[s].template
  PROVE  Origins' /\ Rooms'
<1>1. Origins'
  BY DEF IInv, Origins, Given
<1>2. Rooms'
  BY DEF IInv, Rooms, HasRoom
<1> QED BY <1>1, <1>2

\* Clients that are where they were, or wait no more; of the processes the
\* players change at most.
LEMMA LaunchesLast ==
  ASSUME Launches, Types, UNCHANGED flag, NEW c \in Clients,
         \A d \in Clients : d # c => client'[d] = client[d],
         client'[c].stage \notin LaunchStages, client[c].stage \notin {"waiting", "giving up", "killed"},
         \A s \in Servers : /\ server'[s].stage = server[s].stage
                            /\ server'[s].asked = server[s].asked
  PROVE  Launches'
<1>1. \A d \in Clients : client'[d].stage \in LaunchStages => d # c /\ client'[d] = client[d]
  OBVIOUS
<1>2. ASSUME NEW d \in Clients PROVE ChildReady(d)'
  <2>1. CASE d = c
    BY <2>1 DEF ChildReady, LaunchStages
  <2>2. CASE d # c
    <3>1. client'[d] = client[d] /\ client[d].child \in Servers \cup {NoChild}
      BY <2>2 DEF Types, ClientRecord
    <3>2. ChildReady(d)
      BY DEF Launches
    <3>3. client[d].child # NoChild => server'[client[d].child].stage = server[client[d].child].stage
      BY <3>1
    <3>4. client[d].child \in Servers => server'[client[d].child].stage = server[client[d].child].stage
      OBVIOUS
    <3> QED BY <3>1, <3>2, <3>3, <3>4 DEF ChildReady
  <2> QED BY <2>1, <2>2
<1>3. ASSUME NEW a \in Clients, NEW b \in Clients PROVE ChildOfOne(a, b)'
  <2>1. ChildOfOne(a, b)
    BY DEF Launches
  <2> QED BY <1>1, <2>1 DEF ChildOfOne
<1>4. ASSUME NEW s \in Servers PROVE WaitedFor(s)'
  <2>1. WaitedFor(s)
    BY DEF Launches
  <2> QED BY <2>1 DEF WaitedFor
<1> QED BY <1>2, <1>3, <1>4 DEF Launches

\* A client that goes into a game, or does not get there.
LEMMA ArrivingKeepsInv ==
  ASSUME IInv, NEW c \in Clients, Arrives(c), client[c].stage \in {"menu", "launched"},
         UNCHANGED <<shm, flag>>,
         UNCHANGED server \/ \E s \in Servers, shared \in BOOLEAN : Enter(c, s, shared)
  PROVE  Origins' /\ Rooms' /\ Launches'
<1>1. \A s \in Servers : /\ server'[s].stage = server[s].stage
                         /\ server'[s].settings = server[s].settings
                         /\ server'[s].asked = server[s].asked
                         /\ server'[s].words = server[s].words
                         /\ server'[s].template = server[s].template
  <2>1. CASE UNCHANGED server
    BY <2>1
  <2>2. ASSUME NEW s \in Servers, NEW shared \in BOOLEAN, Enter(c, s, shared)
        PROVE  \A t \in Servers : /\ server'[t].stage = server[t].stage
                                  /\ server'[t].settings = server[t].settings
                                  /\ server'[t].asked = server[t].asked
                                  /\ server'[t].words = server[t].words
                                  /\ server'[t].template = server[t].template
    <3>1. server \in [Servers -> ServerRecord]
      BY DEF IInv, Types
    <3>2. server' = [server EXCEPT ![s] = [server[s] EXCEPT !.players = @ \cup {c}]]
      BY <2>2 DEF Enter
    <3> QED BY <3>1, <3>2 DEF ServerRecord
  <2> QED BY <2>1, <2>2
<1>2. Origins' /\ Rooms'
  BY <1>1, PlayingKeepsInv
<1>3. Launches'
  BY <1>1, LaunchesLast DEF IInv, Arrives, LaunchStages
<1> QED BY <1>2, <1>3

\* The fork of a launch.
LEMMA LaunchKeepsInv ==
  ASSUME IInv, NEW c \in Clients, NEW public \in BOOLEAN, Launch(c, public)
  PROVE  Origins' /\ Rooms' /\ Launches'
<1>l. Types /\ Launches
  BY DEF IInv
<1>1. PICK menu \in HostSettings(public), s \in Servers :
        LET settings == [menu EXCEPT !.parent = c]
        IN  Fork(s, settings, ArgumentsOf(settings)) /\ Wait(c, settings, s)
  BY DEF Launch
<1> DEFINE settings == [menu EXCEPT !.parent = c]
<1>2. settings \in Asked /\ settings # NoSettings /\ settings.parent = c
  BY AskedSettings DEF HostSettings
<1>3. Fork(s, settings, ArgumentsOf(settings)) /\ Wait(c, settings, s)
  BY <1>1
<1>4. /\ client[c].stage = "menu" /\ shm' = shm /\ flag' = [flag EXCEPT ![c] = FALSE]
  BY DEF Launch, ClientAt
<1> HIDE DEF settings
<1>5. /\ Others(s) /\ server[s].stage = "unborn" /\ server'[s].stage = "forked"
      /\ server'[s].asked = settings /\ server'[s].words = ArgumentsOf(settings)
      /\ server'[s].settings = NoSettings /\ server'[s].template = NULL
  BY <1>3, ForkStep
<1>6. /\ client'[c].stage = "waiting" /\ client'[c].child = s
      /\ \A d \in Clients : d # c => client'[d] = client[d]
  BY <1>l, <1>3 DEF Wait, Types, ClientRecord
<1>7. ~flag'[c] /\ \A d \in Clients : d # c => flag'[d] = flag[d]
  BY <1>l, <1>4 DEF Types
<1>8. Origins' /\ Rooms'
  BY <1>2, <1>4, <1>5, ForkKeepsRooms, ForkKeepsOrigins
\* Nobody else waits for what has not been there before.
<1>9. ASSUME NEW d \in Clients, client[d].stage \in LaunchStages
      PROVE  client[d].child # s
  <2>1. ChildReady(d)
    BY <1>l DEF Launches
  <2> QED BY <1>5, <1>9, <2>1, NumbersAre DEF ChildReady
<1>10. ASSUME NEW d \in Clients PROVE ChildReady(d)'
  <2>1. CASE d = c
    BY <1>5, <1>6, <1>7, <2>1, NumbersAre DEF ChildReady
  <2>2. CASE d # c
    <3>1. client'[d] = client[d] /\ flag'[d] = flag[d] /\ ChildReady(d)
      BY <1>l, <1>6, <1>7, <2>2 DEF Launches
    <3>2. client[d].stage \in LaunchStages /\ client[d].child # NoChild =>
            client[d].child \in Servers /\ server'[client[d].child] = server[client[d].child]
      BY <1>l, <1>5, <1>9, <2>2 DEF Types, ClientRecord, Others
    <3>3. NoChild \notin Servers
      BY NumbersAre
    <3> QED BY <3>1, <3>2, <3>3 DEF ChildReady, LaunchStages
  <2> QED BY <2>1, <2>2
<1>11. ASSUME NEW a \in Clients, NEW b \in Clients PROVE ChildOfOne(a, b)'
  <2>1. ChildOfOne(a, b)
    BY <1>l DEF Launches
  <2> QED BY <1>6, <1>9, <2>1 DEF ChildOfOne
<1>12. ASSUME NEW t \in Servers PROVE WaitedFor(t)'
  <2>1. CASE t = s
    BY <1>2, <1>5, <1>6, <2>1 DEF WaitedFor
  <2>2. CASE t # s
    <3>1. WaitedFor(t) /\ server'[t] = server[t]
      BY <1>l, <1>5, <2>2 DEF Launches, Others
    <3> QED BY <1>4, <1>6, <3>1 DEF WaitedFor
  <2> QED BY <2>1, <2>2
<1>13. Launches'
  BY <1>10, <1>11, <1>12 DEF Launches
<1> QED BY <1>8, <1>13

\* Without a child there is nothing to wait for.
LEMMA ForkFailsKeepsInv ==
  ASSUME IInv, NEW c \in Clients, ForkFails(c)
  PROVE  Origins' /\ Rooms' /\ Launches'
<1>l. Types /\ Launches
  BY DEF IInv
<1>1. /\ client[c].stage = "menu" /\ UNCHANGED <<server, shm>>
      /\ flag' = [flag EXCEPT ![c] = FALSE]
  BY DEF ForkFails, ClientAt
<1>2. Origins' /\ Rooms'
  BY <1>1, PlayingKeepsInv
<1>3. PICK menu \in HostSettings(FALSE) : Wait(c, [menu EXCEPT !.parent = c], NoChild)
  BY DEF ForkFails
<1>4. /\ client'[c].stage = "waiting" /\ client'[c].child = NoChild
      /\ \A d \in Clients : d # c => client'[d] = client[d]
  BY <1>l, <1>3 DEF Wait, Types, ClientRecord
<1>5. ~flag'[c] /\ \A d \in Clients : d # c => flag'[d] = flag[d]
  BY <1>l, <1>1 DEF Types
<1>6. ASSUME NEW d \in Clients PROVE ChildReady(d)'
  <2>1. ChildReady(d)
    BY <1>l DEF Launches
  <2> QED BY <1>1, <1>4, <1>5, <2>1 DEF ChildReady
<1>7. ASSUME NEW a \in Clients, NEW b \in Clients PROVE ChildOfOne(a, b)'
  <2>1. ChildOfOne(a, b)
    BY <1>l DEF Launches
  <2> QED BY <1>4, <2>1 DEF ChildOfOne
<1>8. ASSUME NEW s \in Servers PROVE WaitedFor(s)'
  <2>1. WaitedFor(s)
    BY <1>l DEF Launches
  <2> QED BY <1>1, <1>4, <2>1 DEF WaitedFor
<1> QED BY <1>2, <1>6, <1>7, <1>8 DEF Launches

\* The flag is looked at when the sleep is over.
LEMMA SleepKeepsInv ==
  ASSUME IInv, NEW c \in Clients, SleepEnds(c)
  PROVE  Origins' /\ Rooms' /\ Launches'
<1>l. Types /\ Launches
  BY DEF IInv
<1>1. client[c].stage = "waiting" /\ UNCHANGED <<server, shm, flag>>
  BY DEF SleepEnds, ClientAt, serverVars
<1>2. Origins' /\ Rooms'
  BY <1>1, PlayingKeepsInv
<1>3. /\ client'[c].stage = IF flag[c] THEN "launched" ELSE "giving up"
      /\ client'[c].child = client[c].child
      /\ \A d \in Clients : d # c => client'[d] = client[d]
  BY <1>l DEF SleepEnds, ClientGoes, Types, ClientRecord
<1>4. ASSUME NEW d \in Clients PROVE ChildReady(d)'
  <2>1. ChildReady(d)
    BY <1>l DEF Launches
  <2> QED BY <1>1, <1>3, <2>1 DEF ChildReady, LaunchStages
<1>5. ASSUME NEW a \in Clients, NEW b \in Clients PROVE ChildOfOne(a, b)'
  <2>1. ChildOfOne(a, b)
    BY <1>l DEF Launches
  <2> QED BY <1>1, <1>3, <2>1 DEF ChildOfOne, LaunchStages
<1>6. ASSUME NEW s \in Servers PROVE WaitedFor(s)'
  <2>1. WaitedFor(s)
    BY <1>l DEF Launches
  <2>2. CASE ~flag[c]
    BY <1>1, <1>3, <2>1, <2>2 DEF WaitedFor
  \* What c had started has told it: it is not early any more.
  <2>3. CASE flag[c]
    <3>1. ChildReady(c)
      BY <1>l DEF Launches
    <3>2. client[c].child = s => server[s].stage \notin EarlyStages
      BY <1>1, <2>3, <3>1 DEF ChildReady, StartedStages, EarlyStages
    <3> QED BY <1>1, <1>3, <2>1, <3>2 DEF WaitedFor
  <2> QED BY <2>2, <2>3
<1> QED BY <1>2, <1>4, <1>5, <1>6 DEF Launches

\* SIGKILL: of the child, or of everything.
LEMMA GiveUpKeepsInv ==
  ASSUME IInv, NEW c \in Clients, GiveUp(c)
  PROVE  Origins' /\ Rooms' /\ Launches'
<1>l. Types /\ Origins /\ Rooms /\ Launches
  BY DEF IInv
<1>0. client[c].stage = "giving up" /\ UNCHANGED <<shm, flag>>
  BY DEF GiveUp, ClientAt
<1> DEFINE doomed == IF client[c].child # NoChild THEN {client[c].child} ELSE Servers
           remains(s) == Remains(s, IF At(s, "created") THEN "unsized" ELSE "killed")
<1>1. \A s \in Servers :
        server'[s] = IF s \in doomed /\ Alive(s) THEN remains(s) ELSE server[s]
  BY DEF GiveUp
<1>r. \A s \in Servers :
        remains(s).stage \in {"killed", "unsized"} /\ remains(s).asked = NoSettings
  BY <1>l, RemainsRecord DEF ServerStages, Abandoned
<1> HIDE DEF remains
<1>2. \A s \in Servers :
        \/ server'[s] = server[s]
        \/ /\ s \in doomed /\ Alive(s) /\ server'[s].stage \in {"killed", "unsized"}
           /\ server'[s].asked = NoSettings
  BY <1>1, <1>r
<1>3. \A s \in Servers : server'[s] = server[s] =>
        ~(s \in doomed /\ Alive(s)) \/ server[s].stage \in {"killed", "unsized"}
  BY <1>1, <1>r
<1>4. client'[c].stage = "menu"
  BY DEF GiveUp, AtMenu
<1>5. \A d \in Clients : d # c =>
        IF client[c].child = NoChild THEN client'[d].stage = "killed" ELSE client'[d] = client[d]
  BY DEF GiveUp, AtMenu
<1>6. Origins'
  <2>1. ASSUME NEW s \in Servers PROVE Given(s)'
    BY <1>l, <1>2 DEF Origins, Given
  <2> QED BY <1>l, <1>2, <2>1 DEF Origins, EarlyStages, LivingStages
<1>7. Rooms'
  <2>1. \A s \in Servers : HasRoom(s)' => server'[s] = server[s] /\ HasRoom(s)
    BY <1>2 DEF HasRoom, LivingStages, EarlyStages, Abandoned
  <2>2. ASSUME NEW s \in Servers, HasRoom(s)' PROVE shm'[server'[s].settings.room] = s
    BY <1>0, <1>l, <2>1, <2>2 DEF Rooms
  <2>3. ASSUME NEW name \in RoomNames, NEW s \in Servers, shm'[name] = s
        PROVE  \/ HasRoom(s)' /\ server'[s].settings.room = name
               \/ server'[s].stage \in Abandoned
    <3>1. \/ HasRoom(s) /\ server[s].settings.room = name
          \/ server[s].stage \in Abandoned
      BY <1>0, <1>l, <2>3 DEF Rooms
    <3> QED BY <1>2, <3>1 DEF HasRoom, Abandoned
  <2> QED BY <2>2, <2>3 DEF Rooms
<1>8. ASSUME NEW d \in Clients PROVE ChildReady(d)'
  <2>1. ASSUME client'[d].stage \in LaunchStages
        PROVE  /\ d # c /\ client[c].child # NoChild /\ client'[d] = client[d]
               /\ client[d].child # NoChild =>
                    client[d].child \in Servers /\ server'[client[d].child] = server[client[d].child]
    <3>1. d # c /\ client[c].child # NoChild /\ client'[d] = client[d]
      BY <1>4, <1>5, <2>1 DEF LaunchStages
    <3>2. client[d].child = client[c].child => client[d].child = NoChild
      BY <1>0, <1>l, <2>1, <3>1 DEF Launches, ChildOfOne, LaunchStages
    <3>3. client[d].child # NoChild => client[d].child \in Servers
      BY <1>l DEF Types, ClientRecord
    <3> QED BY <1>1, <3>1, <3>2, <3>3
  <2>2. ChildReady(d)
    BY <1>l DEF Launches
  <2> QED BY <1>0, <2>1, <2>2, NumbersAre DEF ChildReady, LaunchStages
<1>9. ASSUME NEW a \in Clients, NEW b \in Clients PROVE ChildOfOne(a, b)'
  <2>1. ChildOfOne(a, b)
    BY <1>l DEF Launches
  <2> QED BY <1>4, <1>5, <2>1 DEF ChildOfOne, LaunchStages
<1>10. ASSUME NEW s \in Servers PROVE WaitedFor(s)'
  <2>1. WaitedFor(s)
    BY <1>l DEF Launches
  <2>2. ASSUME server'[s].stage \in EarlyStages, server'[s].asked # NoSettings
        PROVE  /\ server'[s] = server[s] /\ server[s].asked.parent # c
               /\ server[s].asked.parent \in Clients
    <3>1. server'[s] = server[s] /\ s \notin doomed
      BY <1>2, <1>3, <2>2 DEF EarlyStages, Alive, Abandoned
    <3>2. client[c].child # s
      BY <3>1, NumbersAre
    <3> QED BY <1>0, <2>1, <2>2, <3>1, <3>2 DEF WaitedFor
  <2> QED BY <1>5, <2>1, <2>2 DEF WaitedFor
<1> QED BY <1>6, <1>7, <1>8, <1>9, <1>10 DEF Launches

LEMMA ClientKeepsInv ==
  ASSUME IInv, NEW c \in Clients, ClientRuns(c)
  PROVE  IInv'
<1>t. Types /\ Launching /\ Types' /\ Launching'
  BY ClientKeepsTypes DEF IInv
<1> SUFFICES Origins' /\ Rooms' /\ Launches'
  BY <1>t DEF IInv
<1>o. ASSUME NEW name \in RoomNames, OpenRoom(c, name), client[c].stage \in {"menu", "launched"}
      PROVE  Origins' /\ Rooms' /\ Launches'
  <2>1. Arrives(c) /\ UNCHANGED <<shm, flag>>
    BY <1>o, <1>t, OpenKeepsTypes DEF OpenRoom
  <2>2. UNCHANGED server \/ (shm[name] # NoServer /\ Enter(c, shm[name], TRUE))
    BY <1>o DEF OpenRoom
  <2>3. shm[name] # NoServer => shm[name] \in Servers
    BY <1>t DEF Types
  <2> QED BY <1>o, <2>1, <2>2, <2>3, ArrivingKeepsInv
<1>c. ASSUME NEW port, ConnectTo(c, port), client[c].stage \in {"menu", "launched"}
      PROVE  Origins' /\ Rooms' /\ Launches'
  <2>1. Arrives(c) /\ UNCHANGED <<shm, flag>>
    BY <1>c, <1>t, ConnectKeepsTypes DEF ConnectTo
  <2>2. UNCHANGED server \/ \E s \in Servers : Enter(c, s, FALSE)
    BY <1>c DEF ConnectTo
  <2> QED BY <1>c, <2>1, <2>2, ArrivingKeepsInv
<1>1. CASE PlayLaunched(c)
  <2>1. client[c].stage = "launched" /\ client[c].settings \in Asked
    BY <1>1, <1>t DEF PlayLaunched, ClientAt, Launching, LaunchStages
  <2>2. client[c].settings.room \in RoomNames \cup {NULL}
    <3>1. PICK menu \in PublicSettings \cup PrivateSettings, d \in Clients :
            client[c].settings = [menu EXCEPT !.parent = d]
      BY <2>1 DEF Asked
    <3> QED BY <3>1, AskedSettings
  <2> QED BY <1>1, <2>1, <2>2, <1>o, <1>c DEF PlayLaunched
<1>2. CASE JoinLocal(c) \/ JoinRemote(c)
  BY <1>2, <1>o, <1>c DEF JoinLocal, JoinRemote, ClientAt
<1>3. CASE Leave(c)
  <2> DEFINE s == client[c].game
  <2>0. /\ client[c].stage = "playing" /\ UNCHANGED <<shm, flag>>
        /\ server' = [server EXCEPT ![s] = [server[s] EXCEPT
             !.players = IF server[s].stage \in Abandoned THEN @ ELSE @ \ {c}]]
    BY <1>3 DEF Leave, ClientAt
  <2>1. \A t \in Servers : /\ server'[t].stage = server[t].stage
                           /\ server'[t].settings = server[t].settings
                           /\ server'[t].asked = server[t].asked
                           /\ server'[t].words = server[t].words
                           /\ server'[t].template = server[t].template
    <3>1. server \in [Servers -> ServerRecord]
      BY <1>t DEF Types
    <3> HIDE DEF s
    <3> QED BY <2>0, <3>1 DEF ServerRecord
  <2>2. Arrives(c)
    BY <1>3, <1>t DEF Leave, BackToMenu, AtMenu, Arrives, Types
  <2>3. Origins' /\ Rooms'
    BY <2>0, <2>1, PlayingKeepsInv DEF IInv
  <2>4. Launches'
    BY <2>0, <2>1, <2>2, LaunchesLast DEF IInv, Arrives, LaunchStages
  <2> QED BY <2>3, <2>4
<1>4. CASE ExitMenu(c)
  <2>1. /\ client[c].stage = "menu" /\ UNCHANGED <<server, shm, flag>>
        /\ client'[c].stage = "exited" /\ \A d \in Clients : d # c => client'[d] = client[d]
    BY <1>4, <1>t DEF ExitMenu, ClientAt, ClientGoes, serverVars, Types, ClientRecord
  <2>2. Origins' /\ Rooms'
    BY <2>1, PlayingKeepsInv
  <2>3. Launches'
    BY <2>1, LaunchesLast DEF IInv, LaunchStages
  <2> QED BY <2>2, <2>3
<1>5. ASSUME NEW public \in BOOLEAN, Launch(c, public) PROVE Origins' /\ Rooms' /\ Launches'
  BY <1>5, LaunchKeepsInv
<1> QED
  BY <1>1, <1>2, <1>3, <1>4, <1>5, ForkFailsKeepsInv, SleepKeepsInv, GiveUpKeepsInv
  DEF ClientRuns, MainMenu

\* A server that nobody waits for.
LEMMA HandKeepsInv ==
  ASSUME IInv, StartByHand
  PROVE  IInv'
<1>1. Types' /\ UNCHANGED <<shm, flag, client>>
  BY HandKeepsTypes DEF IInv, StartByHand
<1>2. PICK words \in CommandLines, s \in Servers : Fork(s, NoSettings, words)
  BY DEF StartByHand
<1>3. /\ Others(s) /\ server[s].stage = "unborn" /\ server'[s].stage = "forked"
      /\ server'[s].asked = NoSettings /\ server'[s].words = words
      /\ server'[s].settings = NoSettings /\ server'[s].template = NULL
  BY <1>2, ForkStep
<1>4. Origins' /\ Rooms'
  BY <1>1, <1>3, ForkKeepsOrigins, ForkKeepsRooms
<1>5. Launching /\ Types /\ Launches
  BY DEF IInv
<1>6. ASSUME NEW d \in Clients PROVE ChildReady(d)'
  <2>1. ChildReady(d) /\ client[d].child \in Servers \cup {NoChild}
    BY <1>5 DEF Launches, Types, ClientRecord
  <2>2. ASSUME client[d].stage \in LaunchStages, client[d].child # NoChild
        PROVE  server'[client[d].child] = server[client[d].child]
    BY <1>3, <2>1, <2>2 DEF ChildReady, Others
  <2> QED BY <1>1, <2>1, <2>2, NumbersAre DEF ChildReady, LaunchStages
<1>7. ASSUME NEW a \in Clients, NEW b \in Clients PROVE ChildOfOne(a, b)'
  BY <1>1, <1>5 DEF Launches, ChildOfOne
<1>8. ASSUME NEW t \in Servers PROVE WaitedFor(t)'
  BY <1>1, <1>3, <1>5 DEF Launches, WaitedFor, Others
<1>9. Launching'
  BY <1>1, <1>5 DEF Launching
<1> QED BY <1>1, <1>4, <1>6, <1>7, <1>8, <1>9 DEF IInv, Launches

LEMMA InvInitially == Init => IInv
<1> SUFFICES ASSUME Init PROVE IInv
  OBVIOUS
<1>1. /\ server = [s \in Servers |-> Unborn] /\ shm = [name \in RoomNames |-> NoServer]
      /\ flag = [c \in Clients |-> FALSE] /\ client = [c \in Clients |-> AtMenu]
  BY DEF Init, ServerLifeInit
<1>2. Unborn \in ServerRecord /\ Unborn.stage = "unborn" /\ Unborn.asked = NoSettings
  BY DEF Unborn, ServerRecord, ServerStages, Words, Parsed, Templates
<1>3. AtMenu \in ClientRecord /\ AtMenu.stage = "menu"
  BY ClientRecords DEF AtMenu
<1>4. Types
  BY <1>1, <1>2, <1>3 DEF Types
<1>5. Launching
  BY <1>1, <1>3 DEF Launching, LaunchStages
<1>6. Origins /\ Rooms
  BY <1>1, <1>2, NumbersAre DEF Origins, Given, Rooms, HasRoom, LivingStages, EarlyStages
<1>7. Launches
  BY <1>1, <1>2, <1>3 DEF Launches, ChildReady, ChildOfOne, WaitedFor, LaunchStages, EarlyStages
<1> QED BY <1>4, <1>5, <1>6, <1>7 DEF IInv

LEMMA NextKeepsInv == IInv /\ [Next]_vars => IInv'
<1> SUFFICES ASSUME IInv, [Next]_vars PROVE IInv'
  OBVIOUS
<1>t. Types' /\ Launching'
  BY NextKeepsTypes DEF IInv
<1>1. ASSUME NEW s \in Servers, ServerRuns(s), UNCHANGED client PROVE IInv'
  BY <1>1, <1>t, ServerKeepsOrigins, ServerKeepsRooms, ServerKeepsLaunches DEF IInv
<1>2. CASE UNCHANGED vars
  <2>1. UNCHANGED <<server, shm, flag, client>>
    BY <1>2 DEF vars, serverVars
  <2>2. Origins' /\ Rooms'
    BY <2>1, PlayingKeepsInv
  <2>3. Launches'
    BY <2>1 DEF IInv, Launches, ChildReady, ChildOfOne, WaitedFor
  <2> QED BY <1>t, <2>2, <2>3 DEF IInv
<1> QED BY <1>1, <1>2, ClientKeepsInv, HandKeepsInv DEF Next

-----------------------------------------------------------------------------
(* The theorems.                                                           *)

LEMMA InvMeansReady == IInv => LaunchedMeansReady
<1> SUFFICES ASSUME IInv, NEW c \in Clients,
                    ClientAt(c, "launched") \/ (ClientAt(c, "waiting") /\ flag[c])
             PROVE  Started(client[c].child)
  BY DEF LaunchedMeansReady
<1>1. ChildReady(c)
  BY DEF IInv, Launches
<1> QED BY <1>1, NumbersAre DEF ChildReady, ClientAt, Started, StartedStages

LEMMA InvMeansRooms == IInv => RoomsBelongToServers
<1> SUFFICES ASSUME IInv PROVE RoomsBelongToServers
  OBVIOUS
<1>1. ASSUME NEW name \in RoomNames, shm[name] # NoServer
      PROVE  \/ Alive(shm[name]) /\ server[shm[name]].settings.room = name
             \/ server[shm[name]].stage \in Abandoned
  BY <1>1 DEF IInv, Types, Rooms, HasRoom, Alive, LivingStages, EarlyStages, Abandoned
<1>2. ASSUME NEW s \in Servers, Alive(s), server[s].stage \notin {"forked", "parsed"},
             server[s].settings.room # NULL
      PROVE  shm[server[s].settings.room] = s
  <2>1. HasRoom(s)
    BY <1>2 DEF IInv, Types, ServerRecord, ServerStages, HasRoom, Alive, LivingStages, EarlyStages
  <2> QED BY <2>1 DEF IInv, Rooms
<1> QED BY <1>1, <1>2 DEF RoomsBelongToServers

LEMMA InvMeansSettings == IInv => ServersGetTheirSettings
<1> SUFFICES ASSUME IInv, NEW s \in Servers, server[s].asked # NoSettings
             PROVE  /\ ~At(s, "refused")
                    /\ server[s].settings \in {NoSettings, server[s].asked}
                    /\ server[s].template # NULL => Fits(server[s].template)
  BY DEF ServersGetTheirSettings, Fits
<1>1. Given(s)
  BY DEF IInv, Origins
<1> QED BY <1>1 DEF Given, At, LivingStages, EarlyStages

\* A server that has been launched from the menu plays what the player has asked
\* for: what server_launcher.c writes into its arguments is what argument_parser.c
\* reads out of them, whatever the names look like, so that it never refuses them,
\* and its map is of a size that server.c has arrays for.
THEOREM ServersAreAsTheyWereAskedFor == Spec => []ServersGetTheirSettings
BY InvInitially, NextKeepsInv, InvMeansSettings, PTL DEF Spec

\* A client enters a launched game only when the very server it has forked has got
\* through server_init: what the handler of SIG_LAUNCHED in server_launcher.c has
\* noted is never of another server, nor of one that was given up.
THEOREM LaunchesAreReady == Spec => []LaunchedMeansReady
BY InvInitially, NextKeepsInv, InvMeansReady, PTL DEF Spec

\* The name of a room in shared memory is that of the server that made it in
\* shm_game_state.c, as long as it lives, and goes with it unless the server is
\* killed, or exits by itself in a tick (server.c:107-110) or between shm_open and
\* the end of mmap (shm_game_state.c:14-23, 46-49).
THEOREM RoomsHaveTheirServers == Spec => []RoomsBelongToServers
BY InvInitially, NextKeepsInv, InvMeansRooms, PTL DEF Spec
=============================================================================
