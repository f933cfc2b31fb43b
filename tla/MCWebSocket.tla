---------------------------- MODULE MCWebSocket -----------------------------
(* Instances of WsReplay for TLC.                                            *)
EXTENDS WsReplay

CONSTANT a
=============================================================================
