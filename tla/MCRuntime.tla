------------------------------ MODULE MCRuntime ------------------------------
(***************************************************************************)
(* For TLC, a part of config/topology.yaml: the router r on port 1 of a    *)
(* switch and the AP a on port 2, in one group; r's other interface, which *)
(* was connected to another switch first, on port 6, in a group without    *)
(* them.  A point-to-point link, lossy and slow, joins the two nodes as    *)
(* the core link of scripts/simulation.py joins two routers.  The loops of *)
(* the AP and of the router send to each other, as access_point.py:302 and *)
(* core_router.py:399-408 do, and the frames are just enough for both to   *)
(* stand on full queues at once.                                           *)
(***************************************************************************)
EXTENDS Runtime, TLC

CONSTANTS flood, r, a, rAcc, rTwice, rCore, aIf, aCore, mgmt, sw, core

MCNodeOf == (rAcc :> r) @@ (rTwice :> r) @@ (rCore :> r) @@ (aIf :> a) @@ (aCore :> a)

Call(i, m, p) == [iface |-> i, medium |-> m, port |-> p]

MCWiring == <<Call(rTwice, mgmt, 2), Call(rAcc, sw, 1), Call(aIf, sw, 2), Call(rTwice, sw, 6),
              Call(rCore, core, rCore), Call(aCore, core, aCore)>>

MCGroups == (mgmt :> {}) @@ (sw :> {{1, 2}, {5, 6}})

MCUses == {<<a, aIf, flood>>, <<a, aCore, flood>>, <<aIf, aIf, rAcc>>, <<rAcc, rAcc, aIf>>}

MCSends == [t \in Task |-> CASE t = a -> 2 [] t = rAcc -> 3 [] t = aIf -> 1 [] OTHER -> 0]

\* No traffic.
MCQuiet == [t \in Task |-> 0]
=============================================================================
