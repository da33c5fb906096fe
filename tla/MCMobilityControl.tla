-------------------------- MODULE MCMobilityControl --------------------------
(***************************************************************************)
(* Small deployments of MobilityControl for TLC.  Two CRs, AP-1 on CR-1,   *)
(* AP-2 and AP-3 on CR-2, as config/*.yaml has them with one AP added.     *)
(***************************************************************************)
EXTENDS MobilityControl, TLC

CONSTANTS c1, c2, a1, a2, a3, rc1, rc2, ra1, ra2, ra3

MCAPRID    == (a1 :> ra1) @@ (a2 :> ra2) @@ (a3 :> ra3)
MCCRRID    == (c1 :> rc1) @@ (c2 :> rc2)
MCHomeCR   == (a1 :> c1) @@ (a2 :> c2) @@ (a3 :> c2)
MCApToCr   == (ra1 :> rc1) @@ (ra2 :> rc2) @@ (ra3 :> rc2)

\* cr1.yaml and cr2.yaml list each other as route neighbours; the CRs of
\* topology.yaml list nobody.
OneRelay == {<<c1, c2>>}
NoRelay == {}

NoLocalMapping == [c \in CR |-> [u \in User |-> None]]
=============================================================================
