-------------------------- MODULE MCRemoteCommand --------------------------
(* A command of the whitelist, by name and by path, and one that may not run. *)
EXTENDS RemoteCommand

MCBase == [c \in Commands |-> IF c = "/bin/df" THEN "df" ELSE c]
=============================================================================
