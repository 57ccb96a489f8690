------------------------------- MODULE MCPack -------------------------------
(* Pack with four cards. *)
EXTENDS Pack
=============================================================================
