--------------------------- MODULE MCSessionRoute ---------------------------
(* Small instances of SessionRoute.  The bounds are in the configurations. *)
EXTENDS SessionRoute
=============================================================================
