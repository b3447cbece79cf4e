----------------------------- MODULE MCUpdates -----------------------------
(* Two logs, each with a message and an edit. *)
EXTENDS Updates

Log == <<"message", "edit">>
=============================================================================
