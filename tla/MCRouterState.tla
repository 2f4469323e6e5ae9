--------------------------- MODULE MCRouterState ---------------------------
(* A small instance of RouterState.                                        *)
EXTENDS RouterState
=============================================================================
