------------------------------ MODULE MCRender ------------------------------
(* Instances of RenderLifecycle for TLC: the environments its runs use.      *)
EXTENDS RenderProps

Everything     == EnvEvents
UsersAndSweeper == {"cancel", "retry", "delete", "sweep"}
CancelAndCrash == {"cancel", "crash"}
OnlyCancel     == {"cancel"}
=============================================================================
