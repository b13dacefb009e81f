----------------------------- MODULE MCHosting -----------------------------
(***************************************************************************)
(* Two clients, of which one may have started a server that the other      *)
(* joins too early; a public room with or without a port, a private room,  *)
(* a name that looks like an option, a map file that is good and, from a   *)
(* hand, one that is too small.  Sizes within and above what is allowed.   *)
(***************************************************************************)
EXTENDS Hosting

\* The low bits of FNV-1a: the table has at most 32 entries.
MCHash ==
  "parent" :> 29 @@ "a" :> 12 @@ "name" :> 6 @@ "n" :> 17 @@ "map" :> 17 @@ "m" :> 24 @@
  "width" :> 31 @@ "w" :> 22 @@ "height" :> 2 @@ "h" :> 23 @@ "port" :> 6 @@ "p" :> 15 @@
  "x" :> 7

Pond == Text("pond")
Dash == Short(<<"n">>)
Private == Text("private")

MCTypedNames == {Empty, Dash}
MCTypedPaths == {Empty, Pond}
MCTypedPorts == {Empty, Number(4), Number(70000)}
MCTypedSizes == {Number(4)}
MCPrivateNames == {Private}
MCRoomNames == {Dash, Private}
MCMapFiles == Pond :> [width |-> 2, height |-> 3, walls |-> {1, 4}] @@
              Dash :> [width |-> 1, height |-> 3, walls |-> {}]
MCCommandLines ==
  {<<Assign("port", Number(4)), Text("x"), Long("map"), Pond>>,
   <<Short(<<"w", "h">>), Number(3), Number(3), Terminator, Short(<<"n">>)>>,
   <<Assign("name", Dash), Short(<<"m">>), Dash>>}
=============================================================================
