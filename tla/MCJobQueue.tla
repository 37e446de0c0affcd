----------------------------- MODULE MCJobQueue -----------------------------
(* TLC instance of JobQueue.  It has liveness properties, so no symmetry.   *)
EXTENDS JobQueue

\* A call fails or a process dies.  Past both, the properties that are not proved
\* claim nothing, and no fair action leads there only.
OneTrouble == faults = 0 \/ crashes = 0
=============================================================================
