------------------------- MODULE MCServerLifecycle -------------------------
(* ServerLifecycle for TLC; its constants are model values of the cfg. *)
EXTENDS ServerLifecycle
=============================================================================
