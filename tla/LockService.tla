---------------------------- MODULE LockService ----------------------------
(***************************************************************************)
(* What the global lock service of the engine promises: each key has at    *)
(* most one owner, an owner is a session that is there, only its owner     *)
(* gives a key back, and a session that leaves gives back all it owned.    *)
(***************************************************************************)
CONSTANTS Session, Key, None

VARIABLES owner, alive

vars == <<owner, alive>>

Init ==
  /\ owner = [k \in Key |-> None]
  /\ alive = {}

Join(s) ==
  /\ s \notin alive
  /\ alive' = alive \cup {s}
  /\ UNCHANGED owner

\* re-entrant: the owner may be granted what it owns
Grant(s, k) ==
  /\ s \in alive
  /\ owner[k] \in {None, s}
  /\ owner' = [owner EXCEPT ![k] = s]
  /\ UNCHANGED alive

Release(s, k) ==
  /\ owner[k] = s
  /\ owner' = [owner EXCEPT ![k] = None]
  /\ UNCHANGED alive

Leave(s) ==
  /\ s \in alive
  /\ alive' = alive \ {s}
  /\ owner' = [k \in Key |-> IF owner[k] = s THEN None ELSE owner[k]]

Next ==
  \E s \in Session :
    Join(s) \/ Leave(s) \/ \E k \in Key : Grant(s, k) \/ Release(s, k)

Spec == Init /\ [][Next]_vars
=============================================================================
