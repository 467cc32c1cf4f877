--------------------------- MODULE MCEventStream ---------------------------
(***************************************************************************)
(* Constants of EventStream for TLC.                                       *)
(***************************************************************************)
EXTENDS EventStream

\* A host that subscribes to everything, and one that subscribes to nothing.
AllOrNothing == {{"event", "observation"}, {}}

\* With and without the token totals; no report at all is like the second.
CachedAtLeast == {{"tokens", "cached"}, {"cached"}}

NobodyHolds == -1
=============================================================================
