----------------------------- MODULE MCPreview ------------------------------
(* Instances of PreviewSessions for TLC: the environments its runs use.      *)
EXTENDS PreviewSessions

NoEvents == {}
=============================================================================
