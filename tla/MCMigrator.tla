------------------------------ MODULE MCMigrator ------------------------------
(***************************************************************************)
(* Model checking Migrator: the migrations each invocation is built with.  *)
(***************************************************************************)
EXTENDS Migrator

CONSTANTS a, b, c   \* invocations

\* All invocations are of the same release.
OneRelease == [p \in Runs |-> Versions]

\* One was built before the others, and before a migration that was merged late.
TwoReleases == [p \in Runs |-> IF p = a THEN Versions \ {2} ELSE Versions]
==============================================================================
