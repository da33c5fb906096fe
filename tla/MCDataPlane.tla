----------------------------- MODULE MCDataPlane -----------------------------
(***************************************************************************)
(* The deployment of cr1.yaml and cr2.yaml for TLC, with three APs, each   *)
(* under a RID of its own, and without local mapping rows.                 *)
(***************************************************************************)
EXTENDS DataPlane, TLC

CONSTANTS c1, c2, a1, a2, a3, rc1, rc2, ra1, ra2, ra3, u1

MCAPRID  == (a1 :> ra1) @@ (a2 :> ra2) @@ (a3 :> ra3)
MCCRRID  == (c1 :> rc1) @@ (c2 :> rc2)
MCHomeCR == (a1 :> c1) @@ (a2 :> c2) @@ (a3 :> c2)
MCApToCr == (ra1 :> rc1) @@ (ra2 :> rc2) @@ (ra3 :> rc2)
NoRelay  == {}
NoLocalMapping == [c \in CR |-> [u \in User |-> None]]

\* CR-1 has a route for the region of CR-2's RID, CR-2 one for the region of
\* CR-1's RID, which the RIDs of the APs are in; both in space 100.
MCNextHop ==
  [c \in CR |-> [s \in Space |-> [r \in RID |->
     CASE s = "space100" /\ c = c1 /\ r = rc2 -> c2
       [] s = "space100" /\ c = c2 /\ r \in {rc1, ra1, ra2, ra3} -> c1
       [] OTHER -> None]]]

\* Space 0 covers CR-1's RID and those of the APs, space 100 CR-2's.
MCRIDSpaces == [c \in CR |-> RID \ {NoRID}]

\* cr1.yaml lists Host-1 as a neighbour on its access interface.
MCAccessNeighbors == (c1 :> {u1}) @@ (c2 :> {})

\* These routes satisfy the condition under which PlacedUsersReachable is
\* proved for every deployment.
ASSUME DeployedRoutesLead == RoutesLead
=============================================================================
