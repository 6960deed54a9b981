--------------------------- MODULE MCRuntimeStream ---------------------------
(***************************************************************************)
(* What becomes of a session outside of the host: a behaviour is one of its    *)
(* stream, of its checkpoints, of the route of its window, or of the operations  *)
(* it has on pages.  The models share no state, so their interleavings would   *)
(* add no case.                                                             *)
(***************************************************************************)
EXTENDS RuntimeStream, Checkpoints, RuntimeRoutes, PageOperations

CONSTANT MaxSent    \* bound: envelopes of the stream, of all its epochs together, hellos included

VARIABLE part

EnvelopesSent == FoldFunction(LAMBDA stream, n : Len(stream) + n, Cardinality(hellos), sent)

PartsInit == Init /\ CheckpointInit /\ RouteInit /\ PageInit /\ part \in {"stream", "checkpoints", "route", "pages"}

StreamSteps     == part = "stream" /\ Next /\ EnvelopesSent' <= MaxSent /\ UNCHANGED <<checkpointVars, routeVars, pageVars, part>>
CheckpointSteps == part = "checkpoints" /\ CheckpointNext /\ UNCHANGED <<vars, routeVars, pageVars, part>>
RouteSteps      == part = "route" /\ RouteNext /\ UNCHANGED <<vars, checkpointVars, pageVars, part>>
PageSteps       == part = "pages" /\ PageNext /\ UNCHANGED <<vars, checkpointVars, routeVars, part>>

PartsNext == StreamSteps \/ CheckpointSteps \/ RouteSteps \/ PageSteps

PartsSpec == PartsInit /\ [][PartsNext]_<<vars, checkpointVars, routeVars, pageVars, part>>
=============================================================================
