------------------------ MODULE MCResourceCoordinator ------------------------
(* Small instances of the resource coordinator for TLC.                    *)
EXTENDS ResourceCoordinator

CONSTANTS c1, c2, c3

D  == [kind |-> "dir", path |-> <<"w", "d">>]
F  == [kind |-> "file", path |-> <<"w", "d", "f">>]
S  == [kind |-> "session", path |-> <<"s">>]

MCKeys == {D, F, S}

(* A search of a directory, a file write that is first read, and a bundle  *)
(* of a session key and a file: overlapping paths, two modes on one key,   *)
(* and a call that waits for one key while it could have the other.        *)
MCBundles ==
  {{<<D, "read">>},
   {<<F, "read">>, <<F, "write">>},
   {<<F, "read">>, <<S, "write">>}}
=============================================================================
