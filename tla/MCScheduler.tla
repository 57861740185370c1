----------------------------- MODULE MCScheduler -----------------------------
(***************************************************************************)
(* An instance of the scheduler and the host registry.                     *)
(***************************************************************************)
EXTENDS Scheduler, TLC

CONSTANTS h1, b, a

\* The endpoint answers for b, and not for a: as a gateway does that holds the block
\* b, if a is an asset or a block it lacks.
MCVouched == h1 :> {b}
=============================================================================
