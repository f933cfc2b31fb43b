----------------------------- MODULE MCJobQueue -----------------------------
(* Instances of JobQueue for TLC: three jobs, one of a type nobody          *)
(* handles, and two clients.                                                 *)
EXTENDS JobQueue

CONSTANTS a, b, c, u, v

ThreeJobs == {a, b, c}
WithHandler == {a, b}
TwoClients  == {u, v}
=============================================================================
