---------------------------- MODULE MCRouterPool ----------------------------
(* An instance of RouterPool for TLC.                                      *)
EXTENDS RouterPool

CONSTANTS m1, m2
=============================================================================
