---------------------------- MODULE MCPersScope -----------------------------
(* One scope of up to three names, a view and an iteration. *)
EXTENDS PersScope
=============================================================================
