----------------------------- MODULE MCEditing ------------------------------
(* The requests of one project, for TLC.                                     *)
EXTENDS Editing
=============================================================================
