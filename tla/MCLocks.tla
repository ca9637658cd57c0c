------------------------------- MODULE MCLocks -------------------------------
(* Locks as TLC runs it: model values for the sessions.                    *)
EXTENDS Locks, TLC

\* The safety properties name no session.
Symmetry == Permutations(Session)
=============================================================================
