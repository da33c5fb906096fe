----------------------------- MODULE Deployments -----------------------------
(***************************************************************************)
(* The networks that the repository builds in one process, as data: the    *)
(* wiring calls, and the tables and settings every node is given.          *)
(*                                                                         *)
(*   simulation           scripts/simulation.py                            *)
(*   run_demo             scenarios/run_demo.py                            *)
(*   run_demo_moved       the same after demo_mobility's changes           *)
(*   topology             config/topology.yaml read by Topology.from_yaml  *)
(*   topology_moved       the same after scenarios/mobility_handover.py    *)
(*   forwarding           scripts/test_cr_forwarding.py                    *)
(*   forwarding_local     test_cr_forwarding.py of the root directory      *)
(*   handover             scripts/test_mobility.py                         *)
(*   handover_moved       the same after its step 2                        *)
(*                                                                         *)
(* simulation.py has a demo_mobility too, which stops at the KeyError of   *)
(* line 308, before it sends anything.                                     *)
(*                                                                         *)
(* Nodes and users have the scripts' names.  A user's AID is its name;     *)
(* "h1" and "h2" are the AIDs that the CS generates in simulation.py.  A   *)
(* MAC address is the interface <<node, index>> that has it; Broadcast     *)
(* stands for every other address, which a switch floods as well.          *)
(***************************************************************************)
EXTENDS Naturals, Sequences, FiniteSets, TLC

Broadcast == <<"ff", 0>>

RID(x, y) == [x |-> x, y |-> y]
R1 == RID(10001, 36191)        \* CR-1, and AP-1 behind it
R2 == RID(12360, 34280)        \* CR-2
RA2 == RID(10002, 36192)       \* AP-2
RTS == RID(10003, 36193)       \* TS
RCS == RID(10028, 36181)       \* CS

\* RIDSpaceEntry and RIDRouteEntry.
Region(space, x, y, xm, ym) ==
  [space_id |-> space, x |-> x, y |-> y, x_mask_bits |-> xm, y_mask_bits |-> ym]
RouteTo(region, hop) ==
  [next_hop_rid |-> hop, space_id |-> region.space_id, x |-> region.x, y |-> region.y,
   x_mask_bits |-> region.x_mask_bits, y_mask_bits |-> region.y_mask_bits]

Region1 == Region(100, 10001, 36191, 20, 20)
Region2 == Region(100, 12345, 34267, 20, 24)
Management == Region(0, 10028, 36181, 20, 20)

Nothing == <<>>                \* an empty table: the function with no arguments

At(node, i) == [mac |-> <<node, i>>, iface |-> i]
Via(mac, i) == [mac |-> mac, iface |-> i]
RouteNeighbor(space, rid, mac, i) == [space_id |-> space, rid |-> rid, mac |-> mac, iface |-> i]
Behind(rid, i) == [rid |-> rid, iface |-> i]
Remote(rid, cr) == [mapped_rid |-> rid, remote_cr_rid |-> cr, space_id |-> 100]
Online(ap) == [ap_aid |-> ap, status |-> "ONLINE"]
MovedAway(ap) == [ap_aid |-> ap, status |-> "MOVED_AWAY"]

Call(node, i, medium, port) == [iface |-> <<node, i>>, medium |-> medium, port |-> port]
OnLink(node, i, link) == Call(node, i, link, <<node, i>>)

\* add_interface, called for these nodes in this order: a node numbers its own from 0.
Interfaces(calls) ==
  {<<calls[k], Cardinality({j \in 1..(k - 1) : calls[j] = calls[k]})>> : k \in DOMAIN calls}

\* register_user: the AID is a hash of the name and the PIN that the host has too.
RegisterUser(registered, aid) == registered \cup {aid}
-----------------------------------------------------------------------------
(* scripts/simulation.py                                                    *)

SimulationWiring ==
  << Call("host1", 0, "sw1", 1), Call("ap1", 0, "sw1", 2), Call("cr1", 0, "sw1", 3),
     Call("ts", 0, "sw1", 4), Call("cs", 0, "sw1", 5), Call("cs", 1, "sw2", 5),
     Call("host2", 0, "sw2", 1), Call("ap2", 0, "sw2", 2), Call("cr2", 0, "sw2", 3),
     OnLink("cr1", 1, "core"), OnLink("cr2", 1, "core") >>

\* add_rid_space is called twice for space 100 of CR-1: the second region stays.
Simulation ==
  [iface |-> Interfaces(<<"cr1", "cr1", "cr2", "cr2", "cs", "cs", "ap1", "ap2", "ts", "host1", "host2">>),
   wiring |-> SimulationWiring,
   groups |-> ("sw1" :> {}) @@ ("sw2" :> {}),
   cr |->
     ("cr1" :> [rid |-> R1, spaces |-> <<Region1>>, routes |-> <<RouteTo(Region2, R2)>>,
        route_neighbors |-> {RouteNeighbor(100, R2, <<"cr2", 1>>, 1)},
        access_neighbors |-> ("ap1" :> At("ap1", 0)) @@ ("ts" :> At("ts", 0)),
        aps |-> ("ap1" :> Behind(R1, 0)),
        local |-> ("ap1" :> R1) @@ ("host1" :> R1) @@ ("ts" :> RTS),
        remote |-> ("host2" :> Remote(RA2, R2)),
        users |-> ("host1" :> Online("ap1")) @@ ("ts" :> Online("ap1"))]) @@
     ("cr2" :> [rid |-> R2, spaces |-> <<Region2>>, routes |-> <<RouteTo(Region1, R1)>>,
        route_neighbors |-> {RouteNeighbor(100, R1, <<"cr1", 1>>, 1)},
        access_neighbors |-> ("ap2" :> At("ap2", 0)),
        aps |-> ("ap2" :> Behind(RA2, 0)),
        local |-> ("ap2" :> RA2) @@ ("host2" :> RA2),
        remote |-> ("host1" :> Remote(R1, R1)) @@ ("ts" :> Remote(RTS, R1)),
        users |-> ("host2" :> Online("ap2"))]),
   ap |-> ("ap1" :> [rid |-> R1, cr_mac |-> <<"cr1", 0>>, users |-> ("host1" :> <<"host1", 0>>)]) @@
          ("ap2" :> [rid |-> RA2, cr_mac |-> <<"cr2", 0>>, users |-> Nothing]),
   host |-> ("host1" :> [aid |-> "h1", ap_mac |-> <<"ap1", 0>>]) @@
            ("host2" :> [aid |-> "h2", ap_mac |-> <<"ap2", 0>>]),
   server |-> [aid |-> "ts"],
   registered |-> {"host1", "host2"}]

\* quick_test; demo_http and demo_ftp make Host-1's requests again.
SimulationRequests == {<<"host1", "ts">>, <<"host2", "ts">>}
-----------------------------------------------------------------------------
(* scenarios/run_demo.py                                                    *)

RunDemoWiring ==
  << Call("host1", 0, "sw1", 1), Call("ap1", 0, "sw1", 2), Call("cr1", 0, "sw1", 3),
     Call("ts", 0, "sw1", 4), Call("host2", 0, "sw2", 1), Call("ap2", 0, "sw2", 2),
     Call("cr2", 0, "sw2", 3), OnLink("cr1", 1, "core"), OnLink("cr2", 1, "core") >>

\* No MAC address is configured: everything but RID packets is broadcast.
RunDemo ==
  [iface |-> Interfaces(<<"host1", "host2", "ts", "ap1", "ap2", "cr1", "cr1", "cr2", "cr2">>),
   wiring |-> RunDemoWiring,
   groups |-> ("sw1" :> {}) @@ ("sw2" :> {}),
   cr |->
     ("cr1" :> [rid |-> R1, spaces |-> <<Region2>>, routes |-> <<RouteTo(Region2, R2)>>,
        route_neighbors |-> {RouteNeighbor(100, R2, <<"cr2", 1>>, 1)},
        access_neighbors |-> Nothing, aps |-> ("ap1" :> Behind(R1, 0)),
        local |-> ("ap1" :> R1) @@ ("host1" :> R1),
        remote |-> ("host2" :> Remote(RA2, R2)) @@ ("ts" :> Remote(RTS, R1)),
        users |-> ("host1" :> Online("ap1")) @@ ("ts" :> Online("ap1"))]) @@
     ("cr2" :> [rid |-> R2, spaces |-> <<Region2>>, routes |-> <<RouteTo(Region1, R1)>>,
        route_neighbors |-> {RouteNeighbor(100, R1, <<"cr1", 1>>, 1)},
        access_neighbors |-> Nothing, aps |-> ("ap2" :> Behind(RA2, 0)),
        local |-> ("ap2" :> RA2), remote |-> ("host1" :> Remote(R1, R1)),
        users |-> ("host2" :> Online("ap2"))]),
   ap |-> ("ap1" :> [rid |-> R1, cr_mac |-> Broadcast, users |-> Nothing]) @@
          ("ap2" :> [rid |-> RA2, cr_mac |-> Broadcast, users |-> Nothing]),
   host |-> ("host1" :> [aid |-> "host1", ap_mac |-> Broadcast]) @@
            ("host2" :> [aid |-> "host2", ap_mac |-> Broadcast]),
   server |-> [aid |-> "ts"],
   registered |-> {}]

\* demo_http and demo_ftp for Host-1, demo_video for Host-2.
RunDemoRequests == {<<"host1", "ts">>, <<"host2", "ts">>}

\* demo_mobility writes the routers' tables only.
RunDemoMoved ==
  [RunDemo EXCEPT
     !.cr["cr1"].users = ("host1" :> MovedAway("ap1")) @@ @,
     !.cr["cr2"].users = ("host1" :> Online("ap2")) @@ @,
     !.cr["cr1"].remote = ("host1" :> Remote(RA2, R2)) @@ @]
-----------------------------------------------------------------------------
(* config/topology.yaml                                                     *)

\* _wire_connections; CR-1's interface 1 is wired twice.  The hosts are not wired.
TopologyWiring ==
  << Call("cs", 0, "mgmt", 1), Call("cr1", 1, "mgmt", 2), Call("cr2", 1, "mgmt", 3),
     Call("cr1", 0, "data", 1), Call("ap1", 0, "data", 2), Call("cr2", 0, "data", 3),
     Call("ap2", 0, "data", 4), Call("ts", 0, "data", 5), Call("cr1", 1, "data", 6) >>

\* _create_nodes gives routers no neighbours and APs no MAC address of their CR.
\* CR-3 to CR-6, alone on the management switch with the CS, are left out.
TopologyGroups == ("mgmt" :> {}) @@ ("data" :> {{1, 2}, {3, 4}, {5, 6}})

TopologyRouters ==
  ("cr1" :> [rid |-> R1, spaces |-> <<Management, Region2, Region(204, 3523, 12578, 30, 28)>>,
     routes |-> <<RouteTo(Region2, R2), RouteTo(Region(201, 3523, 12578, 30, 28), RID(3540, 12768))>>,
     route_neighbors |-> {}, access_neighbors |-> Nothing,
     aps |-> ("ap1" :> Behind(R1, 0)) @@ ("ap2" :> Behind(RA2, 0)),
     local |-> ("host1" :> RCS) @@ ("host2" :> RID(12345, 34267)), remote |-> Nothing,
     users |-> ("host1" :> Online("ap1"))]) @@
  ("cr2" :> [rid |-> R2, spaces |-> <<Management, Region2>>, routes |-> <<RouteTo(Region2, R1)>>,
     route_neighbors |-> {}, access_neighbors |-> Nothing, aps |-> Nothing,
     local |-> ("host2" :> R2), remote |-> Nothing, users |-> ("host2" :> Online("ap2"))])

TopologyAPs ==
  ("ap1" :> [rid |-> R1, cr_mac |-> Broadcast, users |-> Nothing]) @@
  ("ap2" :> [rid |-> RA2, cr_mac |-> Broadcast, users |-> Nothing])

TopologyHosts ==
  ("host1" :> [aid |-> "host1", ap_mac |-> <<"ap1", 0>>]) @@
  ("host2" :> [aid |-> "host2", ap_mac |-> <<"ap2", 0>>])

TopologyServer == [aid |-> "ts"]
TopologyUsers == RegisterUser(RegisterUser({}, "host1"), "host2")

Topology ==
  [iface |-> Interfaces(<<"cr1", "cr1", "cr1", "cr2", "cr2", "cr2", "cs", "ap1", "ap2", "ts",
                        "host1", "host2">>),
   wiring |-> TopologyWiring, groups |-> TopologyGroups,
   cr |-> TopologyRouters, ap |-> TopologyAPs,
   host |-> TopologyHosts, server |-> TopologyServer, registered |-> TopologyUsers]

\* run_http_demo, run_ftp_demo, run_video_demo, and what the TS may probe.
HttpDemo == {<<"host1", "ts">>}
FtpDemo == {<<"host1", "ts">>}
VideoDemo == {<<"host2", "ts">>}
ProbedUsers == {<<"ts", "host1">>, <<"ts", "host2">>}
TopologyRequests == HttpDemo \cup FtpDemo \cup VideoDemo \cup ProbedUsers

\* run_mobility_demo.
TopologyMoved ==
  [Topology EXCEPT
     !.cr["cr1"].users = ("host1" :> MovedAway("ap1")) @@ @,
     !.cr["cr2"].users = ("host1" :> Online("ap2")) @@ @]
-----------------------------------------------------------------------------
(* scripts/test_cr_forwarding.py: verify_rid_encapsulation_forwarding.      *)

ForwardingWiring ==
  << OnLink("cr1", 0, "core"), OnLink("cr2", 0, "core"),
     Call("cr1", 1, "sw1", 1), Call("ap1", 0, "sw1", 2), Call("ts", 0, "sw1", 3),
     Call("host1", 0, "sw1", 4), Call("cr2", 1, "sw2", 1) >>

\* Host-2 and AP-2 are rows of the tables only: no such node is built, nor a CS.
Forwarding ==
  [iface |-> Interfaces(<<"cr1", "cr1", "cr2", "cr2", "ap1", "ts", "host1">>),
   wiring |-> ForwardingWiring,
   groups |-> ("sw1" :> {}) @@ ("sw2" :> {}),
   cr |->
     ("cr1" :> [rid |-> R1, spaces |-> <<Region2>>,
        routes |-> <<RouteTo(Region2, R2), RouteTo(Region1, R2)>>,
        route_neighbors |-> {RouteNeighbor(100, R2, <<"cr2", 0>>, 0)},
        access_neighbors |-> ("ap1" :> Via(<<"ap1", 0>>, 1)) @@ ("ts" :> Via(<<"ts", 0>>, 1)),
        aps |-> ("ap1" :> Behind(R1, 1)),
        local |-> ("ap1" :> R1) @@ ("host1" :> R1) @@ ("ts" :> RTS),
        remote |-> ("host2" :> Remote(RA2, R2)),
        users |-> ("host1" :> Online("ap1")) @@ ("ts" :> Online("ap1"))]) @@
     ("cr2" :> [rid |-> R2, spaces |-> <<Region2>>, routes |-> <<RouteTo(Region1, R1)>>,
        route_neighbors |-> {RouteNeighbor(100, R1, <<"cr1", 0>>, 0)},
        access_neighbors |-> ("ap2" :> Via(Broadcast, 1)) @@ ("host2" :> Via(Broadcast, 1)),
        aps |-> ("ap2" :> Behind(RA2, 1)),
        local |-> ("ap2" :> RA2) @@ ("host2" :> RA2),
        remote |-> ("host1" :> Remote(R1, R1)),
        users |-> ("host2" :> Online("ap2"))]),
   ap |-> ("ap1" :> [rid |-> R1, cr_mac |-> <<"cr1", 1>>, users |-> Nothing]) @@
          ("ap2" :> [rid |-> RA2, cr_mac |-> Broadcast, users |-> Nothing]),
   host |-> ("host1" :> [aid |-> "host1", ap_mac |-> <<"ap1", 0>>]) @@
            ("host2" :> [aid |-> "host2", ap_mac |-> Broadcast]),
   server |-> [aid |-> "ts"],
   registered |-> {}]

ForwardingRequests == {<<"host1", "host2">>}

\* The older test, in which the request goes to the TS beside Host-1.
ForwardingLocal ==
  [Forwarding EXCEPT
     !.cr["cr1"].routes = <<RouteTo(Region2, R2)>>,
     !.cr["cr2"].access_neighbors = ("host1" :> Via(Broadcast, 1)),
     !.cr["cr2"].aps = Nothing, !.cr["cr2"].local = Nothing,
     !.cr["cr2"].remote = Nothing, !.cr["cr2"].users = Nothing]
ForwardingLocalRequests == {<<"host1", "ts">>}
-----------------------------------------------------------------------------
(* scripts/test_mobility.py                                                 *)

\* Interface 0 of a router is given to a switch and to the core link.
HandoverWiring ==
  << Call("cr1", 0, "sw1", 1), Call("ap1", 0, "sw1", 2), Call("ts", 0, "sw1", 3),
     Call("host1", 0, "sw1", 4), Call("cs", 0, "sw1", 5), Call("cs", 1, "sw2", 5),
     Call("cr2", 0, "sw2", 1), Call("ap2", 0, "sw2", 2),
     OnLink("cr1", 0, "core"), OnLink("cr2", 0, "core") >>

\* No interface has the MAC addresses of the route neighbours.
Handover ==
  [iface |-> Interfaces(<<"cs", "cs", "cr1", "cr2", "ap1", "ap2", "host1", "ts">>),
   wiring |-> HandoverWiring,
   groups |-> ("sw1" :> {}) @@ ("sw2" :> {}),
   cr |->
     ("cr1" :> [rid |-> R1, spaces |-> <<Region2>>, routes |-> <<RouteTo(Region1, R2)>>,
        route_neighbors |-> {RouteNeighbor(100, R2, Broadcast, 0)},
        access_neighbors |-> ("ts" :> At("ts", 0)),
        aps |-> ("ap1" :> Behind(R1, 0)),
        local |-> ("ap1" :> R1) @@ ("host1" :> R1) @@ ("ts" :> RTS), remote |-> Nothing,
        users |-> ("host1" :> Online("ap1")) @@ ("ts" :> Online("ap1"))]) @@
     ("cr2" :> [rid |-> R2, spaces |-> <<Region2>>, routes |-> <<RouteTo(Region1, R1)>>,
        route_neighbors |-> {RouteNeighbor(100, R1, Broadcast, 0)},
        access_neighbors |-> Nothing, aps |-> ("ap2" :> Behind(RA2, 0)),
        local |-> ("ap2" :> RA2), remote |-> ("host1" :> Remote(R1, R1)), users |-> Nothing]),
   ap |-> ("ap1" :> [rid |-> R1, cr_mac |-> <<"cr1", 0>>, users |-> Nothing]) @@
          ("ap2" :> [rid |-> RA2, cr_mac |-> <<"cr2", 0>>, users |-> Nothing]),
   host |-> ("host1" :> [aid |-> "host1", ap_mac |-> <<"ap1", 0>>]) @@
            ("host2" :> [aid |-> "host2", ap_mac |-> Broadcast]),
   server |-> [aid |-> "ts"],
   registered |-> {"host1"}]

\* The request before the handover and the one after it.
HandoverRequests == {<<"host1", "ts">>}

\* activate_user of AP-2, whose messages reach no CS (CR-2 has no route for them), and
\* what the script writes into the routers' tables itself.
HandoverMoved ==
  [Handover EXCEPT
     !.ap["ap2"].users = ("host1" :> <<"host1", 0>>),
     !.cr["cr2"].users = ("host1" :> Online("ap2")),
     !.cr["cr2"].aps = ("host1" :> Behind(RA2, 0)) @@ @,
     !.cr["cr2"].remote = ("host1" :> Remote(RA2, R2)),
     !.cr["cr1"].users = ("host1" :> MovedAway("ap1")) @@ @,
     !.cr["cr1"].remote = ("host1" :> Remote(RA2, R2))]
-----------------------------------------------------------------------------
Network ==
  ("simulation" :> Simulation) @@
  ("run_demo" :> RunDemo) @@ ("run_demo_moved" :> RunDemoMoved) @@
  ("topology" :> Topology) @@ ("topology_moved" :> TopologyMoved) @@
  ("forwarding" :> Forwarding) @@ ("forwarding_local" :> ForwardingLocal) @@
  ("handover" :> Handover) @@ ("handover_moved" :> HandoverMoved)

Requests ==
  ("simulation" :> SimulationRequests) @@
  ("run_demo" :> RunDemoRequests) @@ ("run_demo_moved" :> RunDemoRequests) @@
  ("topology" :> TopologyRequests) @@ ("topology_moved" :> TopologyRequests) @@
  ("forwarding" :> ForwardingRequests) @@ ("forwarding_local" :> ForwardingLocalRequests) @@
  ("handover" :> HandoverRequests) @@ ("handover_moved" :> HandoverRequests)
=============================================================================
