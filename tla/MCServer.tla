------------------------------ MODULE MCServer ------------------------------
(* Small instances of the server's threads for TLC. *)
EXTENDS Server
=============================================================================
