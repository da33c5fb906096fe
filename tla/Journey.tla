------------------------------- MODULE Journey -------------------------------
(***************************************************************************)
(* Packets on their whole way through one of the networks of Deployments:  *)
(* a host or the test server sends, and every node that hears a frame, by  *)
(* address or by broadcast, handles it with the tables it was built with.  *)
(* A handler runs without suspension here, since no queue comes near its   *)
(* 1000 frames; Links has the case of full queues.  An AP that waits for   *)
(* the CS is the exception: its one receive loop stands still meanwhile.   *)
(*                                                                         *)
(* DataPlane has the tables change under packets in flight; here they are  *)
(* those of one deployment, up to the users an AP adds.                    *)
(***************************************************************************)
EXTENDS Wire, Deployments, FiniteSets

CONSTANTS
  Nets,         \* the deployments looked at, names of Network
  TTL,          \* DEFAULT_TTL
  Sizes,        \* payload sizes
  MaxRequests,  \* bound of each deployment: packets of hosts and the test server
  MaxLogins,    \* bound of each deployment: authenticate() calls
  Overridden,   \* hosts whose _authenticated a test or demo sets to True
  None

Host == {"host1", "host2"}
AP == {"ap1", "ap2"}
CR == {"cr1", "cr2"}
Node == Host \cup AP \cup CR \cup {"ts", "cs"}

ASSUME JourneyAssumption ==
  /\ Nets \subseteq DOMAIN Network /\ Overridden \subseteq Host
  /\ TTL \in Nat \ {0} /\ MaxRequests \in [Nets -> Nat] /\ MaxLogins \in [Nets -> Nat]
  /\ Sizes \subseteq Nat /\ \A s \in Sizes : Packs(s)

VARIABLES
  net,       \* the deployment
  queue,     \* frames waiting at each interface
  users,     \* _local_users of each AP: AID -> MAC
  pending,   \* the AuthRequest an AP has passed on and waits for, or None
  login,     \* authenticate() of each host: "none", "waiting", "returned"
  accepted,  \* hosts with _authenticated
  verified,  \* history: users whose AuthRequest the CS has seen
  sent,      \* history: the packets sent, [from, dst, size]
  arrived,   \* history: how often each packet came out at each node, up to 2
  damaged    \* history: packets that came out with another size

vars == <<net, queue, users, pending, login, accepted, verified, sent, arrived, damaged>>

Here == Network[net]
-----------------------------------------------------------------------------
(* Who hears a frame.                                                       *)

Wires(n) == INSTANCE Media WITH
  Iface <- Network[n].iface, Switch <- DOMAIN Network[n].groups, Link <- {"core"},
  Wiring <- Network[n].wiring, Groups <- Network[n].groups,
  Dst <- Network[n].iface \cup {Broadcast}

\* The interfaces whose queue a frame sent out of i for mac is put into.
Heard ==
  [n \in Nets |-> [i \in Network[n].iface, mac \in Network[n].iface \cup {Broadcast} |->
     LET targets == Wires(n)!Targets[i][mac]
     IN {j \in Network[n].iface : \E k \in DOMAIN targets : targets[k] = Wires(n)!PortOf[j]}]]

Send(node, port, image) ==
  IF Packs(image.length)
  THEN {[via |-> <<node, port.iface>>, frame |-> FrameFor(image, port.mac)]} ELSE {}

Hears(j, s) == j \in Heard[net][s.via, s.frame.mac]
Deliver(q, sends) ==
  [j \in DOMAIN q |->
     IF \E s \in sends : Hears(j, s)
     THEN Append(q[j], (CHOOSE s \in sends : Hears(j, s)).frame.image) ELSE q[j]]
-----------------------------------------------------------------------------
(* Core routers.                                                            *)

RouteSearch(t, q) == INSTANCE RIDLookup WITH
  Width <- 32, Coord <- Nat, Space <- Nat, Hop <- {}, None <- "none", MaxRoutes <- 0,
  rid_routes <- t, query <- q, i <- 0, best <- 0, bestKey <- 0

\* The RIDs and spaces that RID packets are sent to.
Rids == {R1, R2, RA2, RTS, RCS, RID(0, 0), RID(12345, 34267)}
Spaces == {0, 100}

\* rid_lookup_next_hop, and the route neighbour that _forward_rid_to finds for it.
NextHop(t, rid, space) ==
  LET rows == RouteSearch(t, [dst_rid |-> rid, space_id |-> space])!LargestY
  IN {t[j].next_hop_rid : j \in {k \in rows : \A l \in rows : k <= l}}
Neighbors(c, rid) == {nb \in Here.cr[c].route_neighbors : nb.rid = rid}

\* What the searches of the deployments return, and matching_rid_space.
NextHopsIn ==
  [n \in Nets |-> [c \in CR, rid \in Rids, space \in Spaces |->
     NextHop(Network[n].cr[c].routes, rid, space)]]
InSpacesIn ==
  [n \in Nets |-> [c \in CR, rid \in Rids |->
     \E k \in DOMAIN Network[n].cr[c].spaces :
       RouteSearch(<<>>, None)!Contains(Network[n].cr[c].spaces[k], rid)]]

NextHops(c, rid, space) == {Neighbors(c, hop) : hop \in NextHopsIn[net][c, rid, space]}

ForwardRid(c, rid, space, image) ==
  UNION {Send(c, nb, image) : nb \in UNION NextHops(c, rid, space)}

\* The routers' part of is_local_aid, user_statuses, and of is_local_rid.
Status(c, u) == IF u \in DOMAIN Here.cr[c].users THEN Here.cr[c].users[u].status ELSE "none"
LocalAPs(c, rid) == {a \in DOMAIN Here.cr[c].aps : Here.cr[c].aps[a].rid = rid}

\* _resolve_ap_mac: broadcast unless the AP is an access neighbour.
ToAP(c, a, image) ==
  Send(c, [iface |-> Here.cr[c].aps[a].iface,
           mac |-> IF a \in DOMAIN Here.cr[c].access_neighbors
                   THEN Here.cr[c].access_neighbors[a].mac ELSE Broadcast], image)

\* cr_lookup_any_mapping: at most one row, a local one first.
Mapping(c, u) ==
  LET t == Here.cr[c]
  IN IF u \in DOMAIN t.local
     THEN {[mapped_rid |-> t.local[u], remote_cr_rid |-> RID(0, 0), space_id |-> 0]}
     ELSE IF u \in DOMAIN t.remote THEN {t.remote[u]} ELSE {}

\* The space of the row, or else the router's first.
SpaceFor(c, m) ==
  LET s == Here.cr[c].spaces
  IN IF \E k \in DOMAIN s : s[k].space_id = m.space_id THEN m.space_id ELSE s[1].space_id

ServingAP(c, p) ==
  LET a == Here.cr[c].users[p.dst].ap_aid
  IN IF a \in DOMAIN Here.cr[c].aps THEN ToAP(c, a, SerializeAid(p)) ELSE {}

\* Mutant: no return after the delivery to an access neighbour.
DeliverLocalTwice(c, p) ==
  (IF p.dst \in DOMAIN Here.cr[c].access_neighbors
   THEN Send(c, Here.cr[c].access_neighbors[p.dst], SerializeAid(p)) ELSE {})
  \cup ServingAP(c, p)

DeliverLocal(c, p) ==
  IF p.dst \in DOMAIN Here.cr[c].access_neighbors
  THEN Send(c, Here.cr[c].access_neighbors[p.dst], SerializeAid(p))
  ELSE ServingAP(c, p)

\* Mutant: decrement_ttl is asked but not obeyed.
CRAidForever(c, w) ==
  LET p == DeserializeAid(w)
  IN IF Status(c, p.dst) = "ONLINE" THEN DeliverLocal(c, p)
     ELSE UNION {ForwardRid(c, m.mapped_rid, SpaceFor(c, m),
                   SerializeRid(m.mapped_rid, SpaceFor(c, m), TTL, SerializeAid(p))) :
                 m \in Mapping(c, p.dst)}

\* _handle_aid: what c sends on an AID frame.
CRAid(c, w) ==
  LET p == Decremented(DeserializeAid(w))
  IN IF ~Alive(DeserializeAid(w)) THEN {}
     ELSE IF Status(c, p.dst) = "ONLINE" THEN DeliverLocal(c, p)
     ELSE UNION {ForwardRid(c, m.mapped_rid, SpaceFor(c, m),
                   SerializeRid(m.mapped_rid, SpaceFor(c, m), TTL, SerializeAid(p))) :
                 m \in Mapping(c, p.dst)}

\* _send_control_to_cs: only a route neighbour of space 0 is taken for the CS.
Alert(c, u) ==
  UNION {Send(c, nb, SerializeRid(nb.rid, 0, TTL, EncodeSignal("alert", u, TRUE, Here.cr[c].rid))) :
         nb \in {m \in Here.cr[c].route_neighbors : m.space_id = 0}}

Redirect(c, p) ==
  UNION {ForwardRid(c, m.remote_cr_rid, m.space_id,
           SerializeRid(m.remote_cr_rid, m.space_id, TTL, SerializeAid(p)))
         \cup Alert(c, p.dst) : m \in Mapping(c, p.dst)}

\* _decapsulate_and_forward.
Decapsulate(c, r) ==
  LET p == DeserializeAid(r.load)
  IN CASE Status(c, p.dst) = "ONLINE"     -> ServingAP(c, p)
       [] Status(c, p.dst) = "MOVED_AWAY" -> Redirect(c, p)
       [] OTHER                           -> {}

\* A signal in the router's own spaces may also go straight to a route neighbour.
ForwardControl(c, r, image) ==
  IF NextHops(c, r.dst, r.space) # {} THEN ForwardRid(c, r.dst, r.space, image)
  ELSE UNION {Send(c, nb, image) : nb \in Neighbors(c, r.dst)}

\* _handle_rid.  The only signal a router acts on is a notification of the CS, which
\* no CS of these networks has a reason to send.
CRRid(c, w) ==
  LET r == DeserializeRid(w)
      image == [w EXCEPT !.ttl = @ - 1]
  IN CASE ~Alive(w) -> {}
       [] Alive(w) /\ LocalAPs(c, r.dst) # {} ->
            UNION {ToAP(c, a, image) : a \in LocalAPs(c, r.dst)}
       [] Alive(w) /\ LocalAPs(c, r.dst) = {} /\ r.dst = Here.cr[c].rid ->
            IF IsControl(r) THEN {} ELSE Decapsulate(c, r)
       [] OTHER ->
            IF ~InSpacesIn[net][c, r.dst] THEN ForwardRid(c, r.dst, r.space, image)
            ELSE IF IsControl(r) THEN ForwardControl(c, r, image)
            ELSE Decapsulate(c, r)

CRSends(c, w) == IF IsAidFrame(w) THEN CRAid(c, w) ELSE CRRid(c, w)
-----------------------------------------------------------------------------
(* Access points: interface 0 is towards the users and the router alike.    *)

CRPort(a) == Via(Here.ap[a].cr_mac, 0)

\* _deliver_to_user.
ToUser(a, p) ==
  IF p.dst \in DOMAIN users[a] THEN Send(a, Via(users[a][p.dst], 0), SerializeAid(p)) ELSE {}

\* Mutant: an AID packet for nobody here is dropped, as _deliver_to_user would.
APSendsDownOnly(a, w) ==
  IF ~IsAidFrame(w) THEN ToUser(a, DeserializeAid(DeserializeRid(w).load))
  ELSE ToUser(a, DeserializeAid(w))

\* on_frame, but for signals: down to a user, or up to the CR as it came.
APSends(a, w) ==
  IF ~IsAidFrame(w) THEN ToUser(a, DeserializeAid(DeserializeRid(w).load))
  ELSE IF DeserializeAid(w).dst \in DOMAIN users[a] THEN ToUser(a, DeserializeAid(w))
  ELSE Send(a, CRPort(a), SerializeAid(DeserializeAid(w)))

\* The RID that a node signs a signal with; a host has none.
SourceRid(node) ==
  CASE node \in AP -> Here.ap[node].rid
    [] node = "cs"  -> RCS
    [] OTHER        -> RID(0, 0)

Signal(node, port, dst, type, user, ok) ==
  Send(node, port, SerializeRid(dst, 0, TTL, EncodeSignal(type, user, ok, SourceRid(node))))

Answer(a, user, ok) == Signal(a, Via(Broadcast, 0), RID(0, 0), "response", user, ok)
-----------------------------------------------------------------------------
(* Steps.                                                                   *)

SignalOf(w) == IF IsAidFrame(w) THEN "none" ELSE w.load.type
Owner(i) == i[1]
Blocked(i) == Owner(i) \in AP /\ pending[Owner(i)] # None
Ready(i) == queue[i] # <<>> /\ ~Blocked(i)

\* The loop of interface i, of one of the nodes, takes a frame and sends others.
Turn(i, nodes, sends) ==
  /\ Owner(i) \in nodes /\ Ready(i)
  /\ queue' = Deliver([queue EXCEPT ![i] = Tail(@)], sends)

Init ==
  /\ net \in Nets
  /\ queue = [i \in Network[net].iface |-> <<>>]
  /\ users = [a \in AP |-> Network[net].ap[a].users]
  /\ pending = [a \in AP |-> None]
  /\ login = [h \in Host |-> "none"]
  /\ accepted = {} /\ verified = {}
  /\ sent = <<>> /\ damaged = {}
  /\ arrived = [k \in 1..MaxRequests[net] |-> [n \in Node |-> 0]]

\* The scripts make their calls one after the other, and wait for each.
ScriptRuns == \A h \in Host : login[h] # "waiting"

\* http_get, ftp_download and video_stream of a host; send_aid_probe of the TS.
Request(n, dst, size) ==
  /\ ScriptRuns /\ <<n, dst>> \in Requests[net] /\ Len(sent) < MaxRequests[net]
  /\ n \in Host => n \in accepted
  /\ sent' = Append(sent, [from |-> n, dst |-> dst, size |-> size])
  /\ LET mac == IF n \in Host THEN Here.host[n].ap_mac ELSE Broadcast
     IN queue' = Deliver(queue, Send(n, Via(mac, 0),
                           SerializeAid(AidPacket(Len(sent) + 1, dst, TTL, size))))
  /\ UNCHANGED <<net, users, pending, login, accepted, verified, arrived, damaged>>

\* authenticate: the request goes out, and the host waits for an answer.
Authenticate(h) ==
  /\ ScriptRuns /\ login[h] = "none" /\ Cardinality({g \in Host : login[g] # "none"}) < MaxLogins[net]
  /\ login' = [login EXCEPT ![h] = "waiting"]
  /\ queue' = Deliver(queue,
       Signal(h, Via(Here.host[h].ap_mac, 0), RID(0, 0), "request", h, FALSE))
  /\ UNCHANGED <<net, users, pending, accepted, verified, sent, arrived, damaged>>

RouterTurn(i) ==
  /\ Turn(i, CR, CRSends(Owner(i), Head(queue[i])))
  /\ UNCHANGED <<net, users, pending, login, accepted, verified, sent, arrived, damaged>>

APTurn(i) ==
  /\ SignalOf(Head(queue[i])) \in {"none", "aid"}
  /\ Turn(i, AP, APSends(Owner(i), Head(queue[i])))
  /\ UNCHANGED <<net, users, pending, login, accepted, verified, sent, arrived, damaged>>

\* handle_auth_request up to the await: no AP of these networks has a neighbour cache.
APProxies(i) ==
  LET a == Owner(i)
      user == Head(queue[i]).load.user
  IN /\ SignalOf(Head(queue[i])) = "request"
     /\ Turn(i, AP, Signal(a, CRPort(a), RCS, "request", user, FALSE))
     /\ pending' = [pending EXCEPT ![a] = user]
     /\ UNCHANGED <<net, users, login, accepted, verified, sent, arrived, damaged>>

\* An AP that waits takes no frame: an answer it takes has nothing pending.
APIgnores(i) ==
  /\ SignalOf(Head(queue[i])) \in {"response", "alert"}
  /\ Turn(i, AP, {})
  /\ UNCHANGED <<net, users, pending, login, accepted, verified, sent, arrived, damaged>>

\* The test server and the hosts take any AID frame, whoever it is for.
Arrives(n, w) ==
  LET p == DeserializeAid(w)
  IN /\ arrived' = [arrived EXCEPT ![p.no][n] = Min({@ + 1, 2})]
     /\ damaged' = IF p.size = sent[p.no].size THEN damaged ELSE damaged \cup {p.no}

\* authenticate returns; with no call waiting the answer is dropped.
Answered(h, ok) ==
  IF login[h] = "waiting"
  THEN /\ login' = [login EXCEPT ![h] = "returned"]
       /\ accepted' = IF ok THEN accepted \cup {h} ELSE accepted \ {h}
  ELSE UNCHANGED <<login, accepted>>

\* A host or the test server takes a frame.
EndTurn(i) ==
  /\ Turn(i, Host \cup {"ts"}, {})
  /\ IF IsAidFrame(Head(queue[i])) THEN Arrives(Owner(i), Head(queue[i]))
     ELSE UNCHANGED <<arrived, damaged>>
  /\ IF SignalOf(Head(queue[i])) = "response" /\ Owner(i) \in Host
     THEN Answered(Owner(i), Head(queue[i]).load.success)
     ELSE UNCHANGED <<login, accepted>>
  /\ UNCHANGED <<net, users, pending, verified, sent>>

\* CSDatabase.authenticate: a registered name with its password, as the scripts give it.
Authentic(u) == u \in Here.registered

\* _handle_auth and _reply_to: the CS answers a request, to the RID that it came from
\* and on all its interfaces.
Requesters(w) == IF SignalOf(w) = "request" THEN {w.load.user} ELSE {}
Reply(w, u) ==
  UNION {Signal("cs", Via(Broadcast, j[2]), w.load.source, "response", u, Authentic(u)) :
         j \in {k \in Here.iface : Owner(k) = "cs"}}
CSTurn(i) ==
  LET w == Head(queue[i])
  IN /\ Turn(i, {"cs"}, UNION {Reply(w, u) : u \in Requesters(w)})
     /\ verified' = verified \cup Requesters(w)
     /\ UNCHANGED <<net, users, pending, login, accepted, sent, arrived, damaged>>

\* The two timers of 5 s are long: they end when no loop has anything to do.  The
\* host has started its own before the AP did.
Quiet == \A i \in DOMAIN queue : ~Ready(i)

HostTimeout(h) ==
  /\ Quiet /\ login[h] = "waiting"
  /\ Answered(h, FALSE)
  /\ UNCHANGED <<net, queue, users, pending, verified, sent, arrived, damaged>>

\* The failed user is kept as a local user, and the failure is broadcast.
APTimeout(a) ==
  /\ Quiet /\ pending[a] # None /\ login[pending[a]] # "waiting"
  /\ LET aid == Here.host[pending[a]].aid
     IN users' = [users EXCEPT ![a] = [u \in DOMAIN @ \cup {aid} |->
                                         IF u = aid THEN <<pending[a], 0>> ELSE @[u]]]
  /\ queue' = Deliver(queue, Answer(a, pending[a], FALSE))
  /\ pending' = [pending EXCEPT ![a] = None]
  /\ UNCHANGED <<net, login, accepted, verified, sent, arrived, damaged>>

\* The tests of the scripts set _authenticated by hand before they send.  The same is
\* done here to the hosts of every network, as no login succeeds in any of them.
Override(h) ==
  /\ h \in Overridden \ accepted /\ ScriptRuns /\ <<h, 0>> \in Here.iface
  /\ accepted' = accepted \cup {h}
  /\ UNCHANGED <<net, queue, users, pending, login, verified, sent, arrived, damaged>>

LoopTurn(i) ==
  /\ Ready(i)
  /\ \/ RouterTurn(i) \/ EndTurn(i) \/ CSTurn(i)
     \/ APTurn(i) \/ APProxies(i) \/ APIgnores(i)

Next ==
  \/ \E r \in Requests[net], s \in Sizes : Request(r[1], r[2], s)
  \/ \E h \in Host : Authenticate(h) \/ HostTimeout(h) \/ Override(h)
  \/ \E a \in AP : APTimeout(a)
  \/ \E i \in DOMAIN queue : LoopTurn(i)

\* While some loop has a frame some loop takes one, and timers end.  That each loop
\* gets its turn is not needed.
Fairness ==
  /\ WF_vars(\E i \in DOMAIN queue : LoopTurn(i))
  /\ WF_vars(\E h \in Host : HostTimeout(h))
  /\ WF_vars(\E a \in AP : APTimeout(a))

JourneySpec == Init /\ [][Next]_vars
FairSpec == JourneySpec /\ Fairness
-----------------------------------------------------------------------------
(* Properties.                                                              *)

\* Types; no frame that waits has used up its hops, in either of its headers
\* (decrement_ttl), and none is longer than its length field can say.
JourneyTypeOK ==
  /\ net \in Nets /\ DOMAIN queue = Here.iface
  /\ \A i \in DOMAIN queue : \A k \in DOMAIN queue[i] :
       LET w == queue[i][k]
           aids == IF w.type = "aid" THEN {w.packet}
                   ELSE IF w.load.type = "aid" THEN {w.load.packet} ELSE {}
       IN /\ w.length \in 0..MaxLength /\ w.bytes \in Nat
          /\ w.type = "rid" => w.ttl \in 1..TTL
          /\ \A p \in aids : p.no \in DOMAIN sent /\ p.ttl \in 1..TTL
  /\ \A a \in AP : pending[a] \in Host \cup {None}
  /\ login \in [Host -> {"none", "waiting", "returned"}]
  /\ accepted \subseteq Host /\ verified \subseteq Host

\* The node of deployment n whose AID a packet is for.
Addressee(n, dst) ==
  LET t == Network[n]
  IN IF dst = t.server.aid THEN "ts" ELSE CHOOSE h \in Host : t.host[h].aid = dst
AddresseeOf(dst) == Addressee(net, dst)

Addressed == {"simulation"}

\* What OneCopy needs of a deployment.  A frame sent out of interface i for mac is heard
\* by the interface that has this address only, and that is one of the given nodes'.
Leads(n, i, mac, nodes) == Heard[n][i, mac] \subseteq {mac} /\ Owner(mac) \in nodes

\* Every address that a node is configured with leads to a node of the right kind, that
\* of a user to the user; a router has one route neighbour, and its APs differ in
\* RIDs, none of which is the CS's.
Unicast(n) ==
  LET t == Network[n]
      asked == {r[2] : r \in Requests[n]}
  IN /\ \A r \in Requests[n] : r[1] \in Host
     /\ \A h \in Host :
          /\ Leads(n, <<h, 0>>, t.host[h].ap_mac, AP)
          /\ Leads(n, <<Owner(t.host[h].ap_mac), 0>>, <<h, 0>>, {Addressee(n, t.host[h].aid)})
     /\ \A a \in AP :
          /\ Leads(n, <<a, 0>>, t.ap[a].cr_mac, CR)
          /\ \A u \in asked \cap DOMAIN t.ap[a].users :
               Leads(n, <<a, 0>>, t.ap[a].users[u], {Addressee(n, u)})
     /\ \A c \in CR :
          LET r == t.cr[c]
          IN /\ \A nb, ob \in r.route_neighbors : nb = ob
             /\ \A nb \in r.route_neighbors : Leads(n, <<c, nb.iface>>, nb.mac, CR)
             /\ \A u \in asked \cap DOMAIN r.access_neighbors :
                  Leads(n, <<c, r.access_neighbors[u].iface>>, r.access_neighbors[u].mac,
                        {Addressee(n, u)})
             /\ \A a \in DOMAIN r.aps :
                  /\ a \in DOMAIN r.access_neighbors /\ r.aps[a].rid # RCS
                  /\ Leads(n, <<c, r.aps[a].iface>>, r.access_neighbors[a].mac, AP)
             /\ \A a, b \in DOMAIN r.aps : r.aps[a].rid = r.aps[b].rid => a = b

\* Where every MAC address is configured (scripts/simulation.py), a packet comes out
\* once at most, at the node that it is for, whatever other packets and logins do.
OneCopy ==
  net \in Addressed =>
    \A k \in DOMAIN sent : \A n \in Node :
      /\ arrived[k][n] <= 1
      /\ arrived[k][n] > 0 => n = AddresseeOf(sent[k].dst)

\* What comes out has the size that was sent: an AID packet that is wrapped, or
\* wrapped again, and unwrapped is the same packet (serialize and deserialize).
Intact == damaged = {}

\* The largest AID payload that still fits the payload length of a RID packet.
MaxWrapped == MaxLength - AidHeader

\* Pairs for which the deployment's tables are meant to have a way, and which of
\* them takes it through the core, in RID packets.
Wrapped == {<<"host2", "ts">>}
Served ==
  [n \in DOMAIN Network |->
     CASE n = "simulation"                     -> SimulationRequests
       [] n \in {"topology", "topology_moved"} -> {}
       [] OTHER                                -> {<<"host1", "ts">>}]

Idle == \A i \in DOMAIN queue : queue[i] = <<>>

\* When all queues are empty, the requests that the scripts make over the way that
\* they configure have come out at their node; through the core up to MaxWrapped.
RequestsArrive ==
  Idle => \A k \in DOMAIN sent :
    LET pair == <<sent[k].from, sent[k].dst>>
    IN pair \in Served[net] /\ (pair \in Wrapped => sent[k].size <= MaxWrapped)
       => arrived[k][AddresseeOf(sent[k].dst)] > 0

\* Packets that APs and routers pass to each other by broadcast do not circulate
\* for ever: again and again all queues are empty, as hops run out.
JourneyEnds == []<>Idle
=============================================================================
