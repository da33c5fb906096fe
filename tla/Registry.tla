------------------------------- MODULE Registry ------------------------------
(***************************************************************************)
(* What the control plane promises about the places of users, with no      *)
(* messages: one registry, and a copy of it at every router.  Users attach *)
(* at places; registry and copies take such places over, one entry at a    *)
(* time, in any order and arbitrarily late.  An entry is replaced, never   *)
(* removed, and a place where the user has not been is never entered.      *)
(***************************************************************************)
CONSTANTS
  User,
  Copy,       \* holders of a copy
  Place,      \* where a user can be
  None        \* no entry

VARIABLES
  visited,    \* [User -> SUBSET Place], where the users have been
  registry,   \* [User -> Place or None]
  copies      \* [Copy -> [User -> Place or None]]

vars == <<visited, registry, copies>>

Init ==
  /\ visited \in [User -> SUBSET Place]
  /\ registry = [u \in User |-> None]
  /\ copies \in [Copy -> [User -> Place \cup {None}]]
  /\ \A c \in Copy, u \in User : copies[c][u] \in visited[u] \cup {None}

Attach(u, p) ==
  /\ visited' = [visited EXCEPT ![u] = @ \cup {p}]
  /\ UNCHANGED <<registry, copies>>

Register(u, p) ==
  /\ p \in visited[u]
  /\ registry' = [registry EXCEPT ![u] = p]
  /\ UNCHANGED <<visited, copies>>

Learn(c, u, p) ==
  /\ p \in visited[u]
  /\ copies' = [copies EXCEPT ![c] = [@ EXCEPT ![u] = p]]
  /\ UNCHANGED <<visited, registry>>

Next ==
  \E u \in User, p \in Place :
    Attach(u, p) \/ Register(u, p) \/ \E c \in Copy : Learn(c, u, p)

Spec == Init /\ [][Next]_vars
=============================================================================
