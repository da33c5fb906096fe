------------------------------ MODULE DataPlane ------------------------------
(***************************************************************************)
(* User data on its way through the access points and core routers, over   *)
(* the tables that the control plane of MobilityControl keeps changing     *)
(* under it.  A packet is an AID packet between a host, its AP and a CR,   *)
(* and an AID packet wrapped in an RID packet between CRs.  A CR that      *)
(* redirects a packet takes MobilityControl's RedirectAndAlert with it.    *)
(*                                                                         *)
(* Frames are unicast: cr1.yaml and cr2.yaml give the MAC address of every *)
(* AP and of every router, and real_deploy.py drops frames for others.     *)
(* Losing a frame with user data only ends its packet and is left out.     *)
(***************************************************************************)
EXTENDS MobilityControl

CONSTANTS
  Packet,          \* the user-data packets
  TTL,             \* DEFAULT_TTL
  NextHop,         \* NextHop[c][s][r]: the router that c's route for r in
                   \* space s and its route neighbours lead to, or None
  RIDSpaces,       \* RIDSpaces[c]: the RIDs covered by c's rid_spaces
  AccessNeighbors  \* AccessNeighbors[c]: users wired to c itself

\* The spaces of mapping rows: local rows are looked up in space 0, remote
\* rows in space 100.
Space == {"space0", "space100"}

ASSUME DataTypes ==
  /\ TTL \in Nat
  /\ NextHop \in [CR -> [Space -> [RID -> CR \cup {None}]]]
  /\ RIDSpaces \in [CR -> SUBSET RID] /\ AccessNeighbors \in [CR -> SUBSET User]
  /\ None \notin CR /\ AP \cap CR = {}

\* A packet: not yet sent, an AID or an RID frame queued at a node, handed to
\* its user by a node, or dropped.  ttl is the AID packet's, dst, space and
\* rid_ttl are those of the RID packet around it.
Frame == [kind : {"unsent", "aid", "rid", "delivered", "dropped"},
          node : AP \cup CR \cup {None}, user : User \cup {None}, ttl : 0..TTL,
          dst : RID, space : Space, rid_ttl : 0..TTL]

VARIABLES
  packets,   \* [Packet -> Frame]
  attached,  \* history: the AP each user attached to last, or NoAP
  fresh      \* history: packets sent while their user was Placed, which it
             \* has been ever since

dataVars == <<packets, attached, fresh>>
allVars == <<vars, dataVars>>

Unsent == [kind |-> "unsent", node |-> None, user |-> None, ttl |-> 0,
           dst |-> NoRID, space |-> "space100", rid_ttl |-> 0]

DataInit ==
  /\ Init
  /\ packets = [k \in Packet |-> Unsent]
  /\ attached \in [User -> AP \cup {NoAP}]
  /\ \A a \in AP : local_users[a] = {u \in User : attached[u] = a}
  /\ fresh = {}
-----------------------------------------------------------------------------
(* What a frame becomes.                                                    *)

Dropped(f) == [f EXCEPT !.kind = "dropped"]
Delivered(f, n) == [f EXCEPT !.kind = "delivered", !.node = n]
Aid(f, n, t) == [f EXCEPT !.kind = "aid", !.node = n, !.ttl = t]

Online(c, u) == user_statuses[c][u] # None /\ user_statuses[c][u].status = "ONLINE"
Moved(c, u) == user_statuses[c][u] # None /\ user_statuses[c][u].status = "MOVED_AWAY"

\* MappingEntry.space_id of the row that LookupAnyMapping returns; cr1.yaml
\* and cr2.yaml have both spaces, so that _handle_aid keeps it.
RowSpace(c, u) == IF LocalMapping[c][u] # None THEN "space0" ELSE "space100"

\* rid_lookup_next_hop and _forward_rid_to.
Forward(c, f, dst, space, t) ==
  IF NextHop[c][space][dst] = None THEN Dropped(f)
  ELSE [f EXCEPT !.kind = "rid", !.node = NextHop[c][space][dst],
                 !.dst = dst, !.space = space, !.rid_ttl = t]

\* Mutant: without a test that c knows the AP.
ToBoundAP(c, f, t) == Aid(f, user_statuses[c][f.user].ap_aid, t)

\* Mutant: to the first AP of the CR.
ToFirstAP(c, f, t) ==
  IF AssociatedAPs(c) # {} THEN Aid(f, CHOOSE a \in AssociatedAPs(c) : TRUE, t)
  ELSE Dropped(f)

\* To the AP that c has the user at, if c knows that AP.
ToServingAP(c, f, t) ==
  IF user_statuses[c][f.user].ap_aid \in AssociatedAPs(c)
  THEN Aid(f, user_statuses[c][f.user].ap_aid, t)
  ELSE Dropped(f)

\* A CR handles an AID frame: deliver to a local user, else wrap the packet
\* for the router that the user's mapping names.
RouteAid(c, f) ==
  LET g == [f EXCEPT !.ttl = @ - 1]
      u == f.user
  IN IF f.ttl <= 1 THEN Dropped(f) ELSE
     CASE Online(c, u) /\ u \in AccessNeighbors[c] -> Delivered(g, c)
       [] Online(c, u) /\ u \notin AccessNeighbors[c] -> ToServingAP(c, g, g.ttl)
       [] ~Online(c, u) /\ LookupAnyMapping(c, u) = None -> Dropped(g)
       [] OTHER -> Forward(c, g, LookupAnyMapping(c, u).mapped_rid, RowSpace(c, u), TTL)

\* The packet inside an RID frame that ends at c, for a user not MOVED_AWAY.
Unwrap(c, f) == IF Online(c, f.user) THEN ToServingAP(c, f, f.ttl) ELSE Dropped(f)

\* The packet inside is sent on under a new RID header, with a full TTL.
Rewrap(c, f) ==
  IF LookupAnyMapping(c, f.user) = None THEN Dropped(f)
  ELSE Forward(c, f, LookupAnyMapping(c, f.user).remote_cr_rid, RowSpace(c, f.user), TTL)

\* An RID frame with TTL left is for one of c's APs, to be unwrapped by c
\* because it is addressed to c or to a RID of c's spaces, or to be routed on.
ForAP(c, f) == \E a \in AssociatedAPs(c) : APRID[a] = f.dst
ForCR(c, f) == ~ForAP(c, f) /\ (f.dst = CRRID[c] \/ f.dst \in RIDSpaces[c])

RouteRid(c, f) ==
  LET g == [f EXCEPT !.rid_ttl = @ - 1]
  IN IF f.rid_ttl <= 1 THEN Dropped(f) ELSE
     CASE ForAP(c, f) -> [g EXCEPT !.node = CHOOSE a \in AssociatedAPs(c) : APRID[a] = f.dst]
       [] ForCR(c, f) -> Unwrap(c, g)
       [] OTHER -> Forward(c, g, f.dst, f.space, g.rid_ttl)
-----------------------------------------------------------------------------
\* u is where the control plane says: no frame about it is under way, the CS
\* named its AP last, the AP's CR has it ONLINE, and no other CR does.
Placed(u) ==
  /\ lost = 0 /\ attached[u] # NoAP /\ last[u] # None
  /\ last[u].ap_rid = APRID[attached[u]]
  /\ last[u].new_cr_rid = CRRID[HomeCR[attached[u]]]
  /\ \A c \in CR : /\ Listens(c) /\ Settled(c, u) /\ LocalMapping[c][u] = None
                   /\ Online(c, u) <=> c = HomeCR[attached[u]]

\* The packets that stay fresh, given the ones sent in this step.
Track(sent) ==
  fresh' = {k \in fresh \cup sent : (Placed(packets[k].user))'}

Set(k, f) == packets' = [packets EXCEPT ![k] = f]

\* A host behind AP a sends a packet to u.  It is not counted as fresh when
\* a still keeps u among its users after u has left it.
SendUserData(k, a, u) ==
  /\ packets[k].kind = "unsent"
  /\ Set(k, [Unsent EXCEPT !.kind = "aid", !.node = a, !.user = u, !.ttl = TTL])
  /\ UNCHANGED <<vars, attached>>
  /\ Track(IF u \in local_users[a] /\ attached[u] # a THEN {} ELSE {k})

\* An AP hands an AID frame to its own user; any other it passes up to its CR,
\* those included that come down from the CR.
APHandleAid(k) ==
  LET f == packets[k]
  IN /\ f.kind = "aid" /\ f.node \in AP
     /\ Set(k, IF f.user \in local_users[f.node] THEN Delivered(f, f.node)
               ELSE Aid(f, HomeCR[f.node], f.ttl))
     /\ UNCHANGED <<vars, attached>> /\ Track({})

\* An AP unwraps an RID frame for its own user.
APHandleRid(k) ==
  LET f == packets[k]
  IN /\ f.kind = "rid" /\ f.node \in AP
     /\ Set(k, IF f.user \in local_users[f.node] THEN Delivered(f, f.node)
               ELSE Dropped(f))
     /\ UNCHANGED <<vars, attached>> /\ Track({})

\* Mutant: a packet for an unknown user waits for a mapping.
HandleAidWaiting(k) ==
  LET f == packets[k]
  IN /\ f.kind = "aid" /\ f.node \in CR
     /\ Online(f.node, f.user) \/ LookupAnyMapping(f.node, f.user) # None
     /\ Set(k, RouteAid(f.node, f))
     /\ UNCHANGED <<vars, attached>> /\ Track({})

HandleAid(k) ==
  LET f == packets[k]
  IN /\ f.kind = "aid" /\ f.node \in CR
     /\ Set(k, RouteAid(f.node, f))
     /\ UNCHANGED <<vars, attached>> /\ Track({})

\* An RID frame ends at a CR that has its user MOVED_AWAY.
Redirects(c, f) == f.rid_ttl > 1 /\ ForCR(c, f) /\ Moved(c, f.user)

HandleRid(k) ==
  LET f == packets[k]
  IN /\ f.kind = "rid" /\ f.node \in CR /\ ~Redirects(f.node, f)
     /\ Set(k, RouteRid(f.node, f))
     /\ UNCHANGED <<vars, attached>> /\ Track({})

\* The packet is sent on and the CS alerted.  There is no alert without a
\* row; alerts beyond the bound are lost on their way to the CS.
Redirect(k) ==
  LET f == packets[k]
      g == [f EXCEPT !.rid_ttl = @ - 1]
  IN /\ f.kind = "rid" /\ f.node \in CR /\ Redirects(f.node, f)
     /\ Set(k, Rewrap(f.node, g))
     /\ \/ RedirectAndAlert(f.node, f.user)
        \/ /\ LookupAnyMapping(f.node, f.user) = None \/ alerts = MaxAlerts
           /\ UNCHANGED vars
     /\ UNCHANGED attached /\ Track({})

Attach(a, u) ==
  /\ ActivateUser(a, u)
  /\ attached' = [attached EXCEPT ![u] = a]
  /\ UNCHANGED packets /\ Track({})

\* The control plane moves on by itself.
Control == ControlStep /\ UNCHANGED <<packets, attached>> /\ Track({})

DataNext ==
  \/ \E k \in Packet, a \in AP, u \in User : SendUserData(k, a, u)
  \/ \E k \in Packet : APHandleAid(k)
  \/ \E k \in Packet : APHandleRid(k)
  \/ \E k \in Packet : HandleAid(k)
  \/ \E k \in Packet : HandleRid(k)
  \/ \E k \in Packet : Redirect(k)
  \/ \E a \in AP, u \in User : Attach(a, u)
  \/ Control

DataSpec == DataInit /\ [][DataNext]_allVars

Handle(k) ==
  APHandleAid(k) \/ APHandleRid(k) \/ HandleAid(k) \/ HandleRid(k) \/ Redirect(k)

\* Whoever holds a packet handles it, and control frames are handled as in
\* MobilityControl.
DataFairness == Fairness /\ \A k \in Packet : WF_allVars(Handle(k))

DataFairSpec == DataSpec /\ DataFairness
-----------------------------------------------------------------------------
\* With remaining as the number of routers still ahead, the configured routes
\* for h's RID lead from every other router to h, and no router on the way
\* takes that RID for one of its own spaces.
LeadTo(h, remaining) ==
  \A c \in CR \ {h} :
    LET n == NextHop[c]["space100"][CRRID[h]]
    IN /\ n # None /\ remaining[n] < remaining[c]
       /\ n = h \/ CRRID[h] \notin RIDSpaces[n]

\* What PlacedUsersReachable needs of a deployment: routes to every CR with
\* APs, and a default TTL above the length of the longest.
RoutesLead ==
  /\ TTL > 1
  /\ \A a \in AP : \E remaining \in [CR -> 0..(TTL - 1)] : LeadTo(HomeCR[a], remaining)

\* Packets and history variables hold values of their types: no TTL leaves
\* its range, and a frame is only ever at a node of the network.
DataTypeOK ==
  /\ packets \in [Packet -> Frame]
  /\ attached \in [User -> AP \cup {NoAP}]
  /\ fresh \subseteq {k \in Packet : packets[k].kind # "unsent"}

\* A packet sent to a user while the control plane agrees where it is, and
\* delivered before that changes, comes out at that place; it is not dropped.
PlacedUsersReachable ==
  \A k \in fresh :
    LET f == packets[k]
    IN /\ f.kind # "dropped"
       /\ f.kind = "delivered"
            => f.node \in {attached[f.user], HomeCR[attached[f.user]]}

\* No packet circles for ever, although a redirect gives it a new TTL and two
\* routers may redirect it to each other while notifications are under way.
EveryPacketEnds ==
  \A k \in Packet : packets[k].kind # "unsent" ~>
                      packets[k].kind \in {"delivered", "dropped"}
=============================================================================
