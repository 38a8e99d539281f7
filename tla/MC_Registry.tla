---------------------------- MODULE MC_Registry ----------------------------
(* A worker that creates three workflow instances on two addresses: one   *)
(* of a class without tool handlers, two of a class with a raising        *)
(* property and two methods tagged "Bash" (handle_bash < handle_bash_v2   *)
(* in dir() order) and one tagged "Read".                                 *)
EXTENDS Registry, TLC

CONSTANTS Bash, Read, Plain, Tooled, i1, i2, i3, none

MCKind ==
  (Plain :> <<"plain", "plain", "plain", "plain">>) @@
  (Tooled :> <<"handler", "raising", "handler", "handler">>)
MCTag ==
  (Plain :> <<Bash, Bash, Bash, Bash>>) @@
  (Tooled :> <<Bash, Read, Read, Bash>>)
MCInstClass == (i1 :> Plain) @@ (i2 :> Tooled) @@ (i3 :> Tooled)
=============================================================================
