--------------------------- MODULE MCGuardRuntime ---------------------------
(***************************************************************************)
(* Instances of GuardRuntime for TLC.                                      *)
(***************************************************************************)
EXTENDS GuardRuntime

CONSTANTS c1, c2

=============================================================================
