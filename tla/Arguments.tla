----------------------------- MODULE Arguments -----------------------------
(***************************************************************************)
(* The command line of the server: server/argument_parser.c on top of      *)
(* libargs/args.c, as far as the server uses it: options with a text or an *)
(* integer, no flags, commands or greedy options.                          *)
(*                                                                         *)
(* An argument is a word: what its characters are matters only as far as   *)
(* the parser looks at them.  All of it is functions; that no memory could *)
(* be had is left out.                                                     *)
(***************************************************************************)
EXTENDS Integers, SequencesExt

CONSTANT Hash  \* str_hash, for the keys that are looked up

ASSUME HashAssumption ==
  /\ \A key \in DOMAIN Hash : Hash[key] \in Nat
  /\ {"parent", "a", "name", "n", "map", "m", "width", "w", "height", "h", "port", "p"}
       \subseteq DOMAIN Hash

Text(text) == [form |-> "text", text |-> text]
Number(n) == [form |-> "number", number |-> n]  \* one that fits an int
Short(keys) == [form |-> "short", keys |-> keys]  \* -k, or -kl for several
Long(key) == [form |-> "long", key |-> key]  \* --key
Assign(key, value) == [form |-> "assign", key |-> key, value |-> value]  \* --key=value
Terminator == [form |-> "terminator"]  \* --

Empty == Text("")
NULL == [form |-> "null"]

-----------------------------------------------------------------------------
(* Map of args.c: keys of options in an open table that is at most half    *)
(* full.  The key "" stands for a free entry.                              *)

Free == [key |-> "", value |-> 0]
MapNew == [count |-> 0, capacity |-> 0, threshold |-> 0, entries |-> <<>>]

\* The entry of the key, or the free one where it would go.
MapFind(map, key) ==
  LET At(k) == (Hash[key] + k) % map.capacity
      Ends(k) == map.entries[At(k)].key \in {"", key}
  IN  At(CHOOSE k \in 0 .. map.capacity - 1 : Ends(k) /\ \A j \in 0 .. k - 1 : ~Ends(j))

Insert(map, entry) ==
  [map EXCEPT !.count = @ + 1, !.entries[MapFind(map, entry.key)] = entry]

\* One turn of the loop of map_grow.
Reinsert(map, entry) == IF entry = Free THEN map ELSE Insert(map, entry)

NewCapacity(map) == IF map.capacity < 8 THEN 8 ELSE 2 * map.capacity

\* Mutant of the next: the entries stay where they are.
MapGrowInPlace(map) ==
  [count |-> map.count, capacity |-> NewCapacity(map), threshold |-> NewCapacity(map) \div 2,
   entries |-> [i \in 0 .. NewCapacity(map) - 1 |->
                  IF i < map.capacity THEN map.entries[i] ELSE Free]]

MapGrow(map) ==
  LET old == [i \in 1 .. map.capacity |-> map.entries[i - 1]]
      new == [count |-> 0, capacity |-> NewCapacity(map), threshold |-> NewCapacity(map) \div 2,
              entries |-> [i \in 0 .. NewCapacity(map) - 1 |-> Free]]
  IN  FoldLeft(Reinsert, new, old)

MapSet(map, key, value) ==
  LET roomy == IF map.count = map.threshold THEN MapGrow(map) ELSE map
      i == MapFind(roomy, key)
  IN  IF roomy.entries[i] = Free
        THEN Insert(roomy, [key |-> key, value |-> value])
        ELSE [roomy EXCEPT !.entries[i].value = value]

MapSetSplitkey(map, keys, value) ==
  FoldLeft(LAMBDA m, key : MapSet(m, key, value), map, keys)

IsIn(map, key) == map.count > 0 /\ map.entries[MapFind(map, key)] # Free
MapGet(map, key) == map.entries[MapFind(map, key)].value

-----------------------------------------------------------------------------
(* ArgParser with its ArgStream.  "exited": exit_with_error, or the help   *)
(* text; both end the process.                                             *)

NewParser == [options |-> <<>>, map |-> MapNew, positional |-> <<>>,
              stream |-> <<>>, exited |-> FALSE]

Option(type, keys, fallback) ==
  [type |-> type, keys |-> keys, fallback |-> fallback, values |-> <<>>]

RegisterOption(parser, option) ==
  [parser EXCEPT !.options = Append(@, option),
                 !.map = MapSetSplitkey(@, option.keys, Len(parser.options) + 1)]

Exit(parser) == [parser EXCEPT !.exited = TRUE]

\* try_str_to_int: strtol takes nothing at all for a zero.
IsInt(word) == word = Empty \/ word.form = "number"
IntOf(word) == IF word = Empty THEN 0 ELSE word.number

OptionTrySet(parser, i, word) ==
  CASE parser.options[i].type = "text" ->
         [parser EXCEPT !.options[i].values = Append(@, word)]
    [] parser.options[i].type = "int" /\ IsInt(word) ->
         [parser EXCEPT !.options[i].values = Append(@, IntOf(word))]
    [] OTHER -> Exit(parser)

\* A long option, or one letter of a short one: its value is the next word,
\* whatever that looks like.
HandleOption(parser, key) ==
  IF parser.exited \/ ~IsIn(parser.map, key) \/ parser.stream = <<>>
    THEN Exit(parser)
    ELSE OptionTrySet([parser EXCEPT !.stream = Tail(@)],
                      MapGet(parser.map, key), Head(parser.stream))

HandleShortOption(parser, keys) == FoldLeft(HandleOption, parser, keys)

HandleEqualsOption(parser, key, value) ==
  IF ~IsIn(parser.map, key) \/ value = Empty
    THEN Exit(parser)
    ELSE OptionTrySet(parser, MapGet(parser.map, key), value)

\* One turn of the loop of ap_parse_stream.
ParseWord(parser) ==
  LET word == Head(parser.stream)
      rest == [parser EXCEPT !.stream = Tail(@)]
  IN  CASE word.form = "terminator" ->
             [parser EXCEPT !.positional = @ \o Tail(parser.stream), !.stream = <<>>]
        [] word.form = "long"   -> HandleOption(rest, word.key)
        [] word.form = "short"  -> HandleShortOption(rest, word.keys)
        [] word.form = "assign" -> HandleEqualsOption(rest, word.key, word.value)
        [] OTHER -> [rest EXCEPT !.positional = Append(@, word)]

ParseStream(parser) ==
  FoldLeft(LAMBDA p, word : IF p.exited \/ p.stream = <<>> THEN p ELSE ParseWord(p),
           parser, parser.stream)

Values(parser, key) == parser.options[MapGet(parser.map, key)].values

\* option_get_str and option_get_int: the last one wins.
ValueOf(parser, key) ==
  LET option == parser.options[MapGet(parser.map, key)]
  IN  IF option.values = <<>> THEN option.fallback ELSE Last(option.values)

ApFound(parser, key) == Values(parser, key) # <<>>

-----------------------------------------------------------------------------
(* argument_parser.c                                                       *)

NoParent == 0
NoPort == 0
NoSettings == [none |-> TRUE]

ServerParser ==
  LET parent == RegisterOption(NewParser, Option("int", <<"parent", "a">>, NoParent))
      name   == RegisterOption(parent, Option("text", <<"name", "n">>, Empty))
      map    == RegisterOption(name, Option("text", <<"map", "m">>, Empty))
      width  == RegisterOption(map, Option("int", <<"width", "w">>, 0))
      height == RegisterOption(width, Option("int", <<"height", "h">>, 0))
  IN  RegisterOption(height, Option("int", <<"port", "p">>, 0))

StringCopy(parser, key) == IF ApFound(parser, key) THEN ValueOf(parser, key) ELSE NULL

\* in_port_t holds 16 bits; the numbers in the words are not negative.
SettingsOf(parser) ==
  [room |-> StringCopy(parser, "name"), map |-> StringCopy(parser, "map"),
   width |-> ValueOf(parser, "width"), height |-> ValueOf(parser, "height"),
   parent |-> ValueOf(parser, "parent"), port |-> ValueOf(parser, "port") % 65536]

\* argument_parser_parse: NoSettings also when the parser has ended the process.
ParseArguments(words) ==
  LET parser == ParseStream([ServerParser EXCEPT !.stream = words])
      Found(key) == ApFound(parser, key)
  IN  IF \/ parser.exited
         \/ ~Found("name") /\ ~Found("port")
         \/ ~Found("map") /\ ~(Found("width") /\ Found("height"))
        THEN NoSettings
        ELSE SettingsOf(parser)
=============================================================================
