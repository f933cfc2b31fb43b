------------------------------ MODULE MCMedia -------------------------------
(* Instances of MediaServer for TLC.                                         *)
EXTENDS MediaServer

CONSTANTS v1, v2
TwoVideos == {v1, v2}
TwoKeys == {"hello", "world"}
TwoJobs == {"j1", "j2"}
=============================================================================
