--------------------------- MODULE MCCloudClient ---------------------------
(* Small bounds on connections, frames and replies. *)
EXTENDS CloudClient
=============================================================================
