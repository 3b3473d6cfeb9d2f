----------------------------- MODULE MCReconnect -----------------------------
(* Two intervals of budget give every place in the retry loop; three calls *)
(* let one call leave something behind for the next two; two crashes let   *)
(* the daemon be lost again after a reconnect.                             *)
EXTENDS Reconnect
==============================================================================
