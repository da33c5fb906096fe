---------------------------- MODULE DataPlaneProofs ----------------------------
(***************************************************************************)
(* For every deployment: packets keep their types, what is proved of the   *)
(* control plane holds while packets travel, and, where the configured     *)
(* routes lead to the mapped routers, a packet for a user that is where    *)
(* the control plane says comes out there.                                 *)
(***************************************************************************)
EXTENDS DataPlane, MobilityControlProofs

\* A packet that is under way is at a node, and for a user.
UnderWay == {"aid", "rid", "delivered", "dropped"}

InNetwork ==
  \A k \in Packet : packets[k].kind \in UnderWay
                      => packets[k].node \in AP \cup CR /\ packets[k].user \in User

\* A frame that is under way, as the handlers take and leave it.
NetFrame == {f \in Frame : f.kind \in UnderWay /\ f.node \in AP \cup CR /\ f.user \in User}

DataInv == TypeOK /\ DataTypeOK /\ InNetwork
-----------------------------------------------------------------------------
LEMMA DroppedType ==
  ASSUME NEW f \in NetFrame
  PROVE  Dropped(f) \in NetFrame
  BY DEF Dropped, NetFrame, Frame, UnderWay

LEMMA DeliveredType ==
  ASSUME NEW f \in NetFrame, NEW n \in AP \cup CR
  PROVE  Delivered(f, n) \in NetFrame
  BY DEF Delivered, NetFrame, Frame, UnderWay

LEMMA AidType ==
  ASSUME NEW f \in NetFrame, NEW n \in AP \cup CR, NEW t \in 0..TTL
  PROVE  Aid(f, n, t) \in NetFrame
  BY DEF Aid, NetFrame, Frame, UnderWay

LEMMA ForwardType ==
  ASSUME NEW c \in CR, NEW f \in NetFrame, NEW dst \in RID, NEW s \in Space,
         NEW t \in 0..TTL
  PROVE  Forward(c, f, dst, s, t) \in NetFrame
<1>1. CASE NextHop[c][s][dst] = None
  BY <1>1, DroppedType DEF Forward
<1>2. CASE NextHop[c][s][dst] # None
  <2>1. NextHop[c][s][dst] \in CR
    BY <1>2, DataTypes
  <2> QED
    BY <1>2, <2>1 DEF Forward, NetFrame, Frame, UnderWay
<1> QED
  BY <1>1, <1>2

LEMMA ToServingAPType ==
  ASSUME NEW c \in CR, NEW f \in NetFrame, NEW t \in 0..TTL
  PROVE  ToServingAP(c, f, t) \in NetFrame
  BY DroppedType, AidType DEF ToServingAP, AssociatedAPs

LEMMA RowSpaceType ==
  ASSUME NEW c \in CR, NEW u \in User
  PROVE  RowSpace(c, u) \in Space
  BY DEF RowSpace, Space

LEMMA RowType ==
  ASSUME TypeOK, NEW c \in CR, NEW u \in User, LookupAnyMapping(c, u) # None
  PROVE  /\ LookupAnyMapping(c, u).mapped_rid \in RID
         /\ LookupAnyMapping(c, u).remote_cr_rid \in RID
  BY LookupType DEF Mapping

LEMMA FrameFields ==
  ASSUME NEW f \in NetFrame
  PROVE  /\ f.user \in User /\ f.dst \in RID /\ f.space \in Space
         /\ f.ttl \in Nat /\ f.rid_ttl \in Nat /\ f.ttl <= TTL /\ f.rid_ttl <= TTL
<1>1. f.ttl \in 0..TTL /\ f.rid_ttl \in 0..TTL /\ f.dst \in RID /\ f.space \in Space
  BY DEF NetFrame, Frame
<1>2. f.user \in User
  BY DEF NetFrame
<1> QED
  BY <1>1, <1>2, DataTypes

\* A frame with one hop less to live.
LEMMA OneHopLess ==
  ASSUME NEW f \in NetFrame
  PROVE  /\ f.ttl > 1 => [f EXCEPT !.ttl = @ - 1] \in NetFrame
         /\ f.rid_ttl > 1 => [f EXCEPT !.rid_ttl = @ - 1] \in NetFrame
<1>1. \A t \in 0..TTL : [f EXCEPT !.ttl = t] \in NetFrame /\ [f EXCEPT !.rid_ttl = t] \in NetFrame
  BY DEF NetFrame, Frame
<1>2. f.ttl > 1 => f.ttl - 1 \in 0..TTL
  BY FrameFields, DataTypes
<1>3. f.rid_ttl > 1 => f.rid_ttl - 1 \in 0..TTL
  BY FrameFields, DataTypes
<1> QED
  BY <1>1, <1>2, <1>3

LEMMA RouteAidType ==
  ASSUME TypeOK, NEW c \in CR, NEW f \in NetFrame
  PROVE  RouteAid(c, f) \in NetFrame
<1> DEFINE g == [f EXCEPT !.ttl = @ - 1]
           u == f.user
<1>1. f.ttl \in Nat /\ u \in User
  BY FrameFields
<1>2. CASE f.ttl <= 1
  BY <1>2, DroppedType DEF RouteAid
<1>3. CASE f.ttl > 1
  <2>1. g \in NetFrame
    BY <1>3, OneHopLess
  <2>2. g.ttl \in 0..TTL /\ TTL \in 0..TTL
    BY <2>1, DataTypes DEF NetFrame, Frame
  <2>3. RouteAid(c, f) =
          CASE Online(c, u) /\ u \in AccessNeighbors[c] -> Delivered(g, c)
            [] Online(c, u) /\ u \notin AccessNeighbors[c] -> ToServingAP(c, g, g.ttl)
            [] ~Online(c, u) /\ LookupAnyMapping(c, u) = None -> Dropped(g)
            [] OTHER -> Forward(c, g, LookupAnyMapping(c, u).mapped_rid, RowSpace(c, u), TTL)
    BY <1>1, <1>3 DEF RouteAid
  <2> HIDE DEF g, u
  <2>4. CASE Online(c, u)
    BY <2>1, <2>2, <2>3, <2>4, DeliveredType, ToServingAPType
  <2>5. CASE ~Online(c, u) /\ LookupAnyMapping(c, u) = None
    BY <2>1, <2>3, <2>5, DroppedType
  <2>6. CASE ~Online(c, u) /\ LookupAnyMapping(c, u) # None
    BY <1>1, <2>1, <2>2, <2>3, <2>6, RowType, RowSpaceType, ForwardType
  <2> QED
    BY <2>4, <2>5, <2>6
<1> QED
  BY <1>1, <1>2, <1>3

LEMMA UnwrapType ==
  ASSUME NEW c \in CR, NEW f \in NetFrame
  PROVE  Unwrap(c, f) \in NetFrame
<1>1. f.ttl \in 0..TTL
  BY DEF NetFrame, Frame
<1> QED
  BY <1>1, DroppedType, ToServingAPType DEF Unwrap

LEMMA RewrapType ==
  ASSUME TypeOK, NEW c \in CR, NEW f \in NetFrame
  PROVE  Rewrap(c, f) \in NetFrame
<1>1. f.user \in User /\ TTL \in 0..TTL
  BY DataTypes DEF NetFrame
<1> QED
  BY <1>1, DroppedType, RowType, RowSpaceType, ForwardType DEF Rewrap

LEMMA RouteRidType ==
  ASSUME NEW c \in CR, NEW f \in NetFrame
  PROVE  RouteRid(c, f) \in NetFrame
<1> DEFINE g == [f EXCEPT !.rid_ttl = @ - 1]
           ap == CHOOSE a \in AssociatedAPs(c) : APRID[a] = f.dst
<1>1. f.rid_ttl \in Nat /\ f.dst \in RID /\ f.space \in Space
  BY FrameFields
<1>2. CASE f.rid_ttl <= 1
  BY <1>2, DroppedType DEF RouteRid
<1>3. CASE f.rid_ttl > 1
  <2>1. g \in NetFrame
    BY <1>3, OneHopLess
  <2>2. g.rid_ttl \in 0..TTL
    BY <2>1 DEF NetFrame, Frame
  <2>3. RouteRid(c, f) =
          CASE ForAP(c, f) -> [g EXCEPT !.node = ap]
            [] ForCR(c, f) -> Unwrap(c, g)
            [] OTHER -> Forward(c, g, f.dst, f.space, g.rid_ttl)
    BY <1>1, <1>3 DEF RouteRid
  <2>4. ForAP(c, f) => ap \in AP
    BY DEF ForAP, AssociatedAPs
  <2> HIDE DEF g, ap
  <2>5. CASE ForAP(c, f)
    <3>1. [g EXCEPT !.node = ap] \in NetFrame
      BY <2>1, <2>4, <2>5 DEF NetFrame, Frame
    <3> QED
      BY <2>3, <2>5, <3>1 DEF ForCR
  <2>6. CASE ~ForAP(c, f) /\ ForCR(c, f)
    BY <2>1, <2>3, <2>6, UnwrapType
  <2>7. CASE ~ForAP(c, f) /\ ~ForCR(c, f)
    BY <1>1, <2>1, <2>2, <2>3, <2>7, ForwardType
  <2> QED
    BY <2>5, <2>6, <2>7
<1> QED
  BY <1>1, <1>2, <1>3
-----------------------------------------------------------------------------
LEMMA TrackKeeps ==
  ASSUME NEW sent, Track(sent)
  PROVE  fresh' \subseteq fresh \cup sent
  BY DEF Track

\* A handler that turns a packet under way into another one under way.
LEMMA HandledType ==
  ASSUME DataTypeOK, InNetwork, NEW k \in Packet, NEW f \in NetFrame, Set(k, f),
         fresh' \subseteq fresh \cup {k}, attached' = attached
  PROVE  DataTypeOK' /\ InNetwork'
<1>1. f \in Frame /\ f.kind # "unsent" /\ f.node \in AP \cup CR /\ f.user \in User
  BY DEF NetFrame, UnderWay
<1>2. packets' = [packets EXCEPT ![k] = f]
  BY DEF Set
<1>3. packets' \in [Packet -> Frame]
  BY <1>1, <1>2 DEF DataTypeOK
<1>4. fresh' \subseteq {j \in Packet : packets'[j].kind # "unsent"}
  BY <1>1, <1>2 DEF DataTypeOK
<1>5. InNetwork'
  BY <1>1, <1>2 DEF DataTypeOK, InNetwork
<1> QED
  BY <1>3, <1>4, <1>5 DEF DataTypeOK

LEMMA NetFrameOfPacket ==
  ASSUME DataTypeOK, InNetwork, NEW k \in Packet, packets[k].kind \in {"aid", "rid"}
  PROVE  packets[k] \in NetFrame
  BY DEF DataTypeOK, InNetwork, NetFrame, UnderWay
-----------------------------------------------------------------------------
\* A step of the data plane is a step of the control plane, or none.
LEMMA StepRefines == DataInv /\ [DataNext]_allVars => [Next]_vars
<1> SUFFICES ASSUME DataInv, [DataNext]_allVars PROVE [Next]_vars
  OBVIOUS
<1>1. ASSUME NEW k \in Packet, Redirect(k)
      PROVE  [Next]_vars
  <2>1. packets[k].node \in CR /\ packets[k].user \in User
    BY <1>1 DEF Redirect, DataInv, InNetwork, UnderWay
  <2>2. RedirectAndAlert(packets[k].node, packets[k].user) \/ UNCHANGED vars
    BY <1>1 DEF Redirect
  <2> QED
    BY <2>1, <2>2 DEF Next
<1>2. ASSUME NEW a \in AP, NEW u \in User, Attach(a, u)
      PROVE  [Next]_vars
  BY <1>2 DEF Attach, Next
<1>3. CASE Control
  BY <1>3 DEF Control, Next
<1>4. ASSUME NEW k \in Packet, NEW a \in AP, NEW u \in User, SendUserData(k, a, u)
      PROVE  [Next]_vars
  BY <1>4 DEF SendUserData
<1>5. ASSUME NEW k \in Packet, APHandleAid(k) \/ APHandleRid(k) \/ HandleAid(k) \/ HandleRid(k)
      PROVE  [Next]_vars
  BY <1>5 DEF APHandleAid, APHandleRid, HandleAid, HandleRid
<1>6. CASE UNCHANGED allVars
  BY <1>6 DEF allVars
<1> QED
  BY <1>1, <1>2, <1>3, <1>4, <1>5, <1>6 DEF DataNext

LEMMA DataNextInv == DataInv /\ [DataNext]_allVars => DataInv'
<1> SUFFICES ASSUME DataInv, [DataNext]_allVars PROVE DataInv'
  OBVIOUS
<1>1. TypeOK /\ DataTypeOK /\ InNetwork
  BY DEF DataInv
<1>2. TypeOK'
  BY <1>1, StepRefines, NextTypeOK
<1>3. ASSUME NEW k \in Packet, NEW a \in AP, NEW u \in User, SendUserData(k, a, u)
      PROVE  DataInv'
  <2> DEFINE f == [Unsent EXCEPT !.kind = "aid", !.node = a, !.user = u, !.ttl = TTL]
             sent == IF u \in local_users[a] /\ attached[u] # a THEN {} ELSE {k}
  <2>1. f \in NetFrame
    <3>1. Unsent \in Frame /\ TTL \in 0..TTL
      BY ConfigTypes, DataTypes DEF Unsent, Frame, Space
    <3>2. \A x \in Frame : [x EXCEPT !.kind = "aid", !.node = a, !.user = u, !.ttl = TTL]
                             \in NetFrame
      BY <3>1 DEF Frame, NetFrame, UnderWay
    <3> QED
      BY <3>1, <3>2
  <2>2. Set(k, f) /\ attached' = attached /\ Track(sent)
    BY <1>3 DEF SendUserData
  <2>3. sent \subseteq {k}
    OBVIOUS
  <2> HIDE DEF f, sent
  <2>4. fresh' \subseteq fresh \cup {k}
    BY <2>2, <2>3, TrackKeeps
  <2> QED
    BY <1>1, <1>2, <2>1, <2>2, <2>4, HandledType DEF DataInv
<1>4. ASSUME NEW k \in Packet, NEW g \in NetFrame, Set(k, g), attached' = attached, Track({})
      PROVE  DataInv'
  BY <1>1, <1>2, <1>4, TrackKeeps, HandledType DEF DataInv
<1>5. ASSUME NEW k \in Packet, APHandleAid(k)
      PROVE  DataInv'
  <2> DEFINE f == packets[k]
  <2>1. f \in NetFrame /\ f.node \in AP
    BY <1>1, <1>5, NetFrameOfPacket DEF APHandleAid
  <2>2. f.ttl \in 0..TTL /\ HomeCR[f.node] \in CR
    BY <2>1, ConfigTypes DEF NetFrame, Frame
  <2>3. Delivered(f, f.node) \in NetFrame /\ Aid(f, HomeCR[f.node], f.ttl) \in NetFrame
    BY <2>1, <2>2, DeliveredType, AidType
  <2> QED
    BY <1>4, <1>5, <2>3 DEF APHandleAid
<1>6. ASSUME NEW k \in Packet, APHandleRid(k)
      PROVE  DataInv'
  <2> DEFINE f == packets[k]
  <2>1. f \in NetFrame /\ f.node \in AP
    BY <1>1, <1>6, NetFrameOfPacket DEF APHandleRid
  <2>2. Delivered(f, f.node) \in NetFrame /\ Dropped(f) \in NetFrame
    BY <2>1, DeliveredType, DroppedType
  <2> QED
    BY <1>4, <1>6, <2>2 DEF APHandleRid
<1>7. ASSUME NEW k \in Packet, HandleAid(k)
      PROVE  DataInv'
  <2>1. packets[k] \in NetFrame /\ packets[k].node \in CR
    BY <1>1, <1>7, NetFrameOfPacket DEF HandleAid
  <2>2. RouteAid(packets[k].node, packets[k]) \in NetFrame
    BY <1>1, <2>1, RouteAidType
  <2> QED
    BY <1>4, <1>7, <2>2 DEF HandleAid
<1>8. ASSUME NEW k \in Packet, HandleRid(k)
      PROVE  DataInv'
  <2>1. packets[k] \in NetFrame /\ packets[k].node \in CR
    BY <1>1, <1>8, NetFrameOfPacket DEF HandleRid
  <2>2. RouteRid(packets[k].node, packets[k]) \in NetFrame
    BY <2>1, RouteRidType
  <2> QED
    BY <1>4, <1>8, <2>2 DEF HandleRid
<1>9. ASSUME NEW k \in Packet, Redirect(k)
      PROVE  DataInv'
  <2> DEFINE g == [packets[k] EXCEPT !.rid_ttl = @ - 1]
  <2>1. packets[k] \in NetFrame /\ packets[k].node \in CR /\ packets[k].rid_ttl > 1
    BY <1>1, <1>9, NetFrameOfPacket DEF Redirect, Redirects
  <2>2. g \in NetFrame
    BY <2>1, OneHopLess
  <2>3. Set(k, Rewrap(packets[k].node, g)) /\ attached' = attached /\ Track({})
    BY <1>9 DEF Redirect
  <2> HIDE DEF g
  <2>4. Rewrap(packets[k].node, g) \in NetFrame
    BY <1>1, <2>1, <2>2, RewrapType
  <2> QED
    BY <1>4, <2>3, <2>4
<1>10. ASSUME packets' = packets, attached' \in [User -> AP \cup {NoAP}], fresh' \subseteq fresh
       PROVE  DataInv'
  BY <1>1, <1>2, <1>10 DEF DataInv, DataTypeOK, InNetwork
<1>11. ASSUME NEW a \in AP, NEW u \in User, Attach(a, u)
       PROVE  DataInv'
  <2>1. packets' = packets /\ attached' \in [User -> AP \cup {NoAP}]
    BY <1>1, <1>11 DEF Attach, DataTypeOK
  <2>2. fresh' \subseteq fresh
    BY <1>11, TrackKeeps DEF Attach
  <2> QED
    BY <1>10, <2>1, <2>2
<1>12. CASE Control
  <2>1. packets' = packets /\ attached' \in [User -> AP \cup {NoAP}]
    BY <1>1, <1>12 DEF Control, DataTypeOK
  <2>2. fresh' \subseteq fresh
    BY <1>12, TrackKeeps DEF Control
  <2> QED
    BY <1>10, <2>1, <2>2
<1>13. CASE UNCHANGED allVars
  BY <1>1, <1>10, <1>13 DEF allVars, dataVars, DataTypeOK
<1> QED
  BY <1>3, <1>5, <1>6, <1>7, <1>8, <1>9, <1>11, <1>12, <1>13 DEF DataNext

LEMMA DataInitInv == DataInit => DataInv
<1> SUFFICES ASSUME DataInit PROVE DataInv
  OBVIOUS
<1>1. TypeOK
  BY InitTypeOK DEF DataInit
<1>2. Unsent \in Frame /\ Unsent.kind = "unsent"
  BY ConfigTypes, DataTypes DEF Unsent, Frame, Space
<1>3. /\ packets = [k \in Packet |-> Unsent] /\ fresh = {}
      /\ attached \in [User -> AP \cup {NoAP}]
  BY DEF DataInit
<1> HIDE DEF DataInit
<1>4. DataTypeOK /\ InNetwork
  BY <1>2, <1>3 DEF DataTypeOK, InNetwork, UnderWay
<1> QED
  BY <1>1, <1>4 DEF DataInv

LEMMA DataInvariant == DataSpec => []DataInv
<1> QED
  BY DataInitInv, DataNextInv, PTL DEF DataSpec

\* Packets stay in the network and their TTLs in their range, for any number
\* of routers, users and packets and whatever the tables and routes hold.
THEOREM DataTypeCorrect == DataSpec => []DataTypeOK
<1> QED
  BY DataInvariant, PTL DEF DataInv

\* The theorems of MobilityControl carry over: to its variables a redirect is a
\* RedirectAndAlert, and nothing else a packet meets touches them.
LEMMA ControlCarriesOver == DataSpec => Spec
<1>1. DataInit => Init
  BY DEF DataInit
<1> QED
  BY <1>1, DataInvariant, StepRefines, PTL DEF DataSpec, Spec

\* So the routers' caches agree with the registry while packets travel, as far
\* as they do without.
THEOREM ConvergedWhileForwarding == DataSpec => []Converged /\ []BindingAgrees
<1> QED
  BY ControlCarriesOver, ConvergedAlways, BindingAgreesAlways, PTL
-----------------------------------------------------------------------------
(* Packets reach a user that is Placed.  The proof follows such a packet   *)
(* step by step (OnTrack).  It needs, of the control plane, that the       *)
(* caches agree with the CS's last notification (ConvergenceInv) and that  *)
(* a notification that names an AP maps the user to that AP's own router;  *)
(* of the history, that a user is with the AP it attached to last; and of  *)
(* the deployment, that its routes lead somewhere (RoutesLead).            *)

\* A registration maps its user to the router that the CS finds for its AP.
HomeRegistrations == {m \in RegisterRequest : m.mapped_rid = CrOfAp(m.ap_rid)}

RegistrationsNameHome ==
  /\ acc \in [CR -> Seq(HomeRegistrations)]
  /\ csq \in Seq(HomeRegistrations \cup MobilityAlert)

\* So does what the CS last said of a user, unless it stems from an alert.
LastNamesHome ==
  \A u \in User : last[u] # None /\ last[u].ap_rid # NoRID
                    => last[u].new_mapped_rid = last[u].new_cr_rid

AttachedServed == \A u \in User : attached[u] # NoAP => u \in local_users[attached[u]]

\* The routers still ahead of a packet on its way to h.
Ahead(h) == CHOOSE remaining \in [CR -> 0..(TTL - 1)] : LeadTo(h, remaining)

\* Where a packet may be that will reach its user: with an AP, which passes
\* it up unless it is the user's; with a router that has yet to wrap it; on a
\* route to the user's router, with hops enough left to get there and be
\* unwrapped, at no router that would take it for its own; or delivered.
OnTrack(f) ==
  LET u == f.user
      h == HomeCR[attached[u]]
  IN \/ /\ f.kind = "aid" /\ f.node \in AP
        /\ IF u \in local_users[f.node] THEN f.node = attached[u] ELSE f.ttl > 1
     \/ f.kind = "aid" /\ f.node \in CR /\ f.ttl > 1
     \/ /\ f.kind = "rid" /\ f.node \in CR /\ f.dst = CRRID[h] /\ f.space = "space100"
        /\ f.rid_ttl >= Ahead(h)[f.node] + 2
        /\ f.node = h \/ CRRID[h] \notin RIDSpaces[f.node]
     \/ f.kind = "delivered" /\ f.node \in {attached[u], h}

FreshOnTrack == \A k \in fresh : Placed(packets[k].user) /\ OnTrack(packets[k])

\* What the steps of the control plane keep on their own.
HomeInv == RegistrationsNameHome /\ LastNamesHome

TrackInv == DataInv /\ ConvergenceInv /\ HomeInv /\ AttachedServed /\ FreshOnTrack
-----------------------------------------------------------------------------
LEMMA InitHome == Init => HomeInv
<1> SUFFICES ASSUME Init PROVE HomeInv
  OBVIOUS
<1>1. /\ acc = [c \in CR |-> <<>>] /\ csq = <<>>
      /\ last = [u \in User |-> None]
  BY DEF Init
<1> HIDE DEF Init
<1> QED
  BY <1>1 DEF HomeInv, RegistrationsNameHome, LastNamesHome

\* The oldest frame at the CS, and what is left behind it.
LEMMA CSTakesHome ==
  ASSUME RegistrationsNameHome, csq # <<>>
  PROVE  /\ Tail(csq) \in Seq(HomeRegistrations \cup MobilityAlert)
         /\ Head(csq).type = "register" => Head(csq) \in HomeRegistrations
         /\ Head(csq).type = "alert" => Head(csq) \in MobilityAlert
<1>1. csq \in Seq(HomeRegistrations \cup MobilityAlert)
  BY DEF RegistrationsNameHome
<1>2. /\ Tail(csq) \in Seq(HomeRegistrations \cup MobilityAlert)
      /\ Head(csq) \in HomeRegistrations \cup MobilityAlert
  BY <1>1
<1>3. \A m \in HomeRegistrations : m.type = "register"
  BY DEF HomeRegistrations, RegisterRequest
<1>4. \A m \in MobilityAlert : m.type = "alert"
  BY DEF MobilityAlert
<1> QED
  BY <1>2, <1>3, <1>4

LEMMA NextHome == TypeOK /\ HomeInv /\ [Next]_vars => HomeInv'
<1> SUFFICES ASSUME TypeOK, HomeInv, [Next]_vars PROVE HomeInv'
  OBVIOUS
<1>1. RegistrationsNameHome /\ LastNamesHome
  BY DEF HomeInv
<1>2. /\ acc \in [CR -> Seq(HomeRegistrations)]
      /\ csq \in Seq(HomeRegistrations \cup MobilityAlert)
  BY <1>1 DEF RegistrationsNameHome
<1>3. ASSUME last' = last, acc' \in [CR -> Seq(HomeRegistrations)],
             csq' \in Seq(HomeRegistrations \cup MobilityAlert)
      PROVE  HomeInv'
  BY <1>1, <1>3 DEF HomeInv, RegistrationsNameHome, LastNamesHome
<1>4. ASSUME NEW a \in AP, NEW u \in User, ActivateUser(a, u)
      PROVE  HomeInv'
  <2> DEFINE m == [type |-> "register", aid |-> u,
                   mapped_rid |-> CRRID[HomeCR[a]], ap_rid |-> APRID[a]]
  <2>1. m \in HomeRegistrations
    BY ConfigTypes, ConfigIdentifiers DEF HomeRegistrations, RegisterRequest
  <2>2. acc' = [acc EXCEPT ![HomeCR[a]] = Append(@, m)] /\ csq' = csq /\ last' = last
    BY <1>4 DEF ActivateUser, PostAuthProcedures
  <2> HIDE DEF m
  <2>3. HomeCR[a] \in CR
    BY ConfigTypes
  <2>4. Append(acc[HomeCR[a]], m) \in Seq(HomeRegistrations)
    BY <1>2, <2>1, <2>3
  <2>5. acc' \in [CR -> Seq(HomeRegistrations)]
    BY <1>2, <2>2, <2>3, <2>4
  <2> QED
    BY <1>2, <1>3, <2>2, <2>5
<1>5. ASSUME NEW c \in CR, ForwardToCS(c)
      PROVE  HomeInv'
  <2>1. /\ acc[c] # <<>> /\ csq' = Append(csq, Head(acc[c]))
        /\ acc' = [acc EXCEPT ![c] = Tail(@)] /\ last' = last
    BY <1>5 DEF ForwardToCS
  <2>2. acc[c] \in Seq(HomeRegistrations)
    BY <1>2
  <2>3. Head(acc[c]) \in HomeRegistrations /\ Tail(acc[c]) \in Seq(HomeRegistrations)
    BY <2>1, <2>2
  <2>4. csq' \in Seq(HomeRegistrations \cup MobilityAlert)
    BY <1>2, <2>1, <2>3
  <2>5. acc' \in [CR -> Seq(HomeRegistrations)]
    BY <1>2, <2>1, <2>3
  <2> QED
    BY <1>3, <2>1, <2>4, <2>5
<1>6. ASSUME NEW u \in User, NEW mapped, NEW cr, NEW ap, Publish(u, mapped, cr, ap),
             ap # NoRID => mapped = cr,
             acc' = acc, csq' \in Seq(HomeRegistrations \cup MobilityAlert)
      PROVE  HomeInv'
  <2> DEFINE n == [aid |-> u, new_mapped_rid |-> mapped, new_cr_rid |-> cr, ap_rid |-> ap]
  <2>1. last' = [last EXCEPT ![u] = n]
    BY <1>6 DEF Publish
  <2>2. n.ap_rid # NoRID => n.new_mapped_rid = n.new_cr_rid
    BY <1>6
  <2> HIDE DEF n
  <2>3. \A v \in User : last'[v] = n \/ last'[v] = last[v]
    BY <2>1 DEF TypeOK
  <2>4. LastNamesHome'
    BY <1>1, <2>2, <2>3 DEF LastNamesHome
  <2> QED
    BY <1>2, <1>6, <2>4 DEF HomeInv, RegistrationsNameHome
<1>7. CASE HandleRegister
  <2>1. /\ csq # <<>> /\ Head(csq).type = "register" /\ csq' = Tail(csq) /\ acc' = acc
        /\ Publish(Head(csq).aid, Head(csq).mapped_rid, CrOfAp(Head(csq).ap_rid),
                   Head(csq).ap_rid)
    BY <1>7 DEF HandleRegister
  <2>2. Head(csq) \in HomeRegistrations /\ csq' \in Seq(HomeRegistrations \cup MobilityAlert)
    BY <1>1, <2>1, CSTakesHome
  <2>3. Head(csq).aid \in User /\ Head(csq).mapped_rid = CrOfAp(Head(csq).ap_rid)
    BY <2>2 DEF HomeRegistrations, RegisterRequest
  <2> QED
    BY <1>6, <2>1, <2>2, <2>3
<1>8. CASE HandleMobility
  <2>1. /\ csq # <<>> /\ Head(csq).type = "alert" /\ csq' = Tail(csq) /\ acc' = acc
        /\ Publish(Head(csq).user_aid, Head(csq).new_rid, Head(csq).new_cr_rid, NoRID)
    BY <1>8 DEF HandleMobility
  <2>2. Head(csq) \in MobilityAlert /\ csq' \in Seq(HomeRegistrations \cup MobilityAlert)
    BY <1>1, <2>1, CSTakesHome
  <2>3. Head(csq).user_aid \in User
    BY <2>2 DEF MobilityAlert
  <2> QED
    BY <1>6, <2>1, <2>2, <2>3
<1>9. ASSUME NEW c \in CR, NEW u \in User, RedirectAndAlert(c, u)
      PROVE  HomeInv'
  <2> DEFINE m == [type |-> "alert", user_aid |-> u,
                   new_rid |-> LookupAnyMapping(c, u).mapped_rid,
                   new_cr_rid |-> LookupAnyMapping(c, u).remote_cr_rid]
  <2>1. /\ LookupAnyMapping(c, u) # None /\ csq' = Append(csq, m)
        /\ acc' = acc /\ last' = last
    BY <1>9 DEF RedirectAndAlert
  <2>2. m \in MobilityAlert
    BY <2>1, RowType DEF MobilityAlert
  <2> HIDE DEF m
  <2>3. csq' \in Seq(HomeRegistrations \cup MobilityAlert)
    BY <1>2, <2>1, <2>2
  <2> QED
    BY <1>2, <1>3, <2>1, <2>3
<1>10. CASE acc' = acc /\ csq' = csq /\ last' = last
  BY <1>2, <1>3, <1>10
<1> QED
  BY <1>4, <1>5, <1>7, <1>8, <1>9, <1>10 DEF Next, ControlStep, vars, wireVars,
     HandleNotification, HandleFlooded, HandleRelayed, SetUserStatus, DropNewest
-----------------------------------------------------------------------------
LEMMA AheadLeads ==
  ASSUME RoutesLead, NEW a \in AP
  PROVE  /\ Ahead(HomeCR[a]) \in [CR -> 0..(TTL - 1)]
         /\ LeadTo(HomeCR[a], Ahead(HomeCR[a]))
<1>1. \E remaining \in [CR -> 0..(TTL - 1)] : LeadTo(HomeCR[a], remaining)
  BY DEF RoutesLead
<1> QED
  BY <1>1 DEF Ahead

\* What the tables hold of a user that is Placed.
LEMMA PlacedTables ==
  ASSUME DataTypeOK, ConvergenceInv, HomeInv, NEW u \in User, Placed(u)
  PROVE  /\ attached[u] \in AP /\ HomeCR[attached[u]] \in CR
         /\ user_statuses[HomeCR[attached[u]]][u].ap_aid = attached[u]
         /\ \A c \in CR : /\ ~Absorbs(c)
                          /\ Online(c, u) <=> c = HomeCR[attached[u]]
                          /\ LookupAnyMapping(c, u) # None
                          /\ LookupAnyMapping(c, u).mapped_rid = CRRID[HomeCR[attached[u]]]
                          /\ RowSpace(c, u) = "space100"
<1> DEFINE a == attached[u]
           h == HomeCR[a]
<1>1. /\ lost = 0 /\ a # NoAP /\ last[u] # None
      /\ last[u].ap_rid = APRID[a] /\ last[u].new_cr_rid = CRRID[h]
      /\ \A c \in CR : /\ Listens(c) /\ Settled(c, u) /\ LocalMapping[c][u] = None
                       /\ Online(c, u) <=> c = h
  BY DEF Placed
<1>2. a \in AP
  BY <1>1 DEF DataTypeOK
<1>3. h \in CR
  BY <1>2, ConfigTypes
<1>4. \A c \in CR : Agrees(c, u)
  BY <1>1 DEF ConvergenceInv, LastWord, LastWordAt
<1>5. user_statuses[h][u].ap_aid = MatchAP(h, APRID[a])
  BY <1>1, <1>3, <1>4 DEF Agrees
<1>6. MatchAP(h, APRID[a]) = a
  <2>1. a \in AssociatedAPs(h)
    BY <1>2 DEF AssociatedAPs
  <2>2. \A b \in AssociatedAPs(h) : APRID[b] = APRID[a] => b = a
    BY <1>2, ConfigIdentifiers DEF AssociatedAPs
  <2> HIDE DEF a, h
  <2> QED
    BY <2>1, <2>2 DEF MatchAP
<1>7. last[u].new_mapped_rid = CRRID[h]
  <2>1. last[u].ap_rid # NoRID
    BY <1>1, <1>2, ConfigIdentifiers
  <2> QED
    BY <1>1, <2>1 DEF HomeInv, LastNamesHome
<1>8. \A c \in CR : LookupAnyMapping(c, u) = Row(last[u])
  BY <1>1, <1>4 DEF LookupAnyMapping, Agrees
<1>9. Row(last[u]) # None /\ Row(last[u]).mapped_rid = CRRID[h]
  <2>1. last[u] \in Notification
    BY <1>1 DEF ConvergenceInv, TypeOK
  <2>2. Row(last[u]) \in Mapping
    BY <2>1 DEF Row, Notification, Mapping
  <2>3. Row(last[u]) # None
    BY <2>2, ConfigTypes
  <2> QED
    BY <1>7, <2>3 DEF Row
<1>10. \A c \in CR : ~Absorbs(c)
  BY <1>1 DEF Listens
<1>11. \A c \in CR : RowSpace(c, u) = "space100"
  BY <1>1 DEF RowSpace
<1> HIDE DEF a, h
<1>12. \A c \in CR : Online(c, u) <=> c = h
  BY <1>1
<1>13. \A c \in CR : LookupAnyMapping(c, u) # None /\ LookupAnyMapping(c, u).mapped_rid = CRRID[h]
  BY <1>8, <1>9
<1> QED
  BY <1>2, <1>3, <1>5, <1>6, <1>10, <1>11, <1>12, <1>13 DEF a, h

\* A router that is not h's, and hands a packet to the next one on the way to
\* h with at least as many hops left as that one needs.
LEMMA ForwardOnTrack ==
  ASSUME RoutesLead, NEW c \in CR, NEW f \in NetFrame, attached[f.user] \in AP,
         c # HomeCR[attached[f.user]], NEW t \in 0..TTL,
         t >= Ahead(HomeCR[attached[f.user]])[c] + 1
  PROVE  OnTrack(Forward(c, f, CRRID[HomeCR[attached[f.user]]], "space100", t))
<1> DEFINE h == HomeCR[attached[f.user]]
           n == NextHop[c]["space100"][CRRID[h]]
           g == [f EXCEPT !.kind = "rid", !.node = n, !.dst = CRRID[h],
                          !.space = "space100", !.rid_ttl = t]
<1>1. h \in CR /\ CRRID[h] \in RID /\ "space100" \in Space
  BY ConfigTypes DEF Space
<1>2. Ahead(h) \in [CR -> 0..(TTL - 1)] /\ LeadTo(h, Ahead(h))
  BY AheadLeads
<1>3. /\ n # None /\ Ahead(h)[n] < Ahead(h)[c]
      /\ n = h \/ CRRID[h] \notin RIDSpaces[n]
  BY <1>2 DEF LeadTo
<1>4. n \in CR
  <2>1. NextHop[c] \in [Space -> [RID -> CR \cup {None}]]
    BY DataTypes
  <2>2. NextHop[c]["space100"] \in [RID -> CR \cup {None}]
    BY <1>1, <2>1
  <2> QED
    BY <1>1, <1>3, <2>2
<1>5. Forward(c, f, CRRID[h], "space100", t) = g
  BY <1>3 DEF Forward
<1>6. /\ g.kind = "rid" /\ g.node = n /\ g.dst = CRRID[h] /\ g.space = "space100"
      /\ g.rid_ttl = t /\ g.user = f.user
  BY DEF NetFrame, Frame
<1>7. t >= Ahead(h)[n] + 2
  <2>1. Ahead(h)[n] \in Nat /\ Ahead(h)[c] \in Nat /\ t \in Nat
    BY <1>2, <1>4, DataTypes
  <2>2. t >= Ahead(h)[c] + 1
    OBVIOUS
  <2> HIDE DEF n, h
  <2> QED
    BY <1>3, <2>1, <2>2
<1>8. g.rid_ttl >= Ahead(h)[g.node] + 2
  BY <1>6, <1>7
<1>9. HomeCR[attached[g.user]] = h
  BY <1>6
<1> HIDE DEF g, n, h
<1>10. OnTrack(g)
  BY <1>3, <1>4, <1>6, <1>8, <1>9 DEF OnTrack
<1> QED
  BY <1>5, <1>10 DEF h

\* To the AP that the user's own router has it at.
LEMMA ServingOnTrack ==
  ASSUME NEW c \in CR, NEW f \in NetFrame, NEW t, attached[f.user] \in AP,
         c = HomeCR[attached[f.user]], f.user \in local_users[attached[f.user]],
         user_statuses[c][f.user].ap_aid = attached[f.user]
  PROVE  OnTrack(ToServingAP(c, f, t))
<1> DEFINE a == attached[f.user]
           g == Aid(f, a, t)
<1>1. ToServingAP(c, f, t) = g
  BY DEF ToServingAP, AssociatedAPs
<1>2. g.kind = "aid" /\ g.node = a /\ g.user = f.user
  BY DEF Aid, NetFrame, Frame
<1>3. attached[g.user] = a
  BY <1>2
<1> HIDE DEF g, a
<1>4. OnTrack(g)
  BY <1>2, <1>3 DEF OnTrack, a
<1> QED
  BY <1>1, <1>4

LEMMA RouteAidOnTrack ==
  ASSUME RoutesLead, DataTypeOK, ConvergenceInv, HomeInv, AttachedServed,
         NEW c \in CR, NEW f \in NetFrame, f.ttl > 1, Placed(f.user)
  PROVE  OnTrack(RouteAid(c, f))
<1> DEFINE u == f.user
           h == HomeCR[attached[u]]
           g == [f EXCEPT !.ttl = @ - 1]
<1>1. u \in User /\ f.ttl \in Nat
  BY FrameFields
<1>2. /\ attached[u] \in AP /\ h \in CR /\ user_statuses[h][u].ap_aid = attached[u]
      /\ Online(c, u) <=> c = h
      /\ LookupAnyMapping(c, u) # None /\ LookupAnyMapping(c, u).mapped_rid = CRRID[h]
      /\ RowSpace(c, u) = "space100"
  BY <1>1, PlacedTables
<1>3. u \in local_users[attached[u]]
  BY <1>1, <1>2, ConfigTypes DEF AttachedServed
<1>4. g \in NetFrame /\ g.user = u
  BY OneHopLess DEF NetFrame, Frame
<1>5. RouteAid(c, f) =
        CASE Online(c, u) /\ u \in AccessNeighbors[c] -> Delivered(g, c)
          [] Online(c, u) /\ u \notin AccessNeighbors[c] -> ToServingAP(c, g, g.ttl)
          [] ~Online(c, u) /\ LookupAnyMapping(c, u) = None -> Dropped(g)
          [] OTHER -> Forward(c, g, LookupAnyMapping(c, u).mapped_rid, RowSpace(c, u), TTL)
  BY <1>1 DEF RouteAid
<1> HIDE DEF g, u
<1>6. CASE c = h /\ u \in AccessNeighbors[c]
  <2>1. RouteAid(c, f) = Delivered(g, c)
    BY <1>2, <1>5, <1>6
  <2>2. /\ Delivered(g, c).kind = "delivered" /\ Delivered(g, c).node = c
        /\ Delivered(g, c).user = u
    BY <1>4 DEF Delivered, NetFrame, Frame
  <2> QED
    BY <1>6, <2>1, <2>2 DEF OnTrack
<1>7. CASE c = h /\ u \notin AccessNeighbors[c]
  <2>1. RouteAid(c, f) = ToServingAP(c, g, g.ttl)
    BY <1>2, <1>5, <1>7
  <2> QED
    BY <1>2, <1>3, <1>4, <1>7, <2>1, ServingOnTrack
<1>8. CASE c # h
  <2>1. RouteAid(c, f) = Forward(c, g, CRRID[h], "space100", TTL)
    BY <1>2, <1>5, <1>8
  <2>2. TTL \in 0..TTL /\ TTL >= Ahead(h)[c] + 1
    BY <1>2, AheadLeads, DataTypes
  <2> QED
    BY <1>2, <1>4, <1>8, <2>1, <2>2, ForwardOnTrack
<1> QED
  BY <1>6, <1>7, <1>8

\* A wrapped packet is routed on, or unwrapped at its user's router, which
\* has it ONLINE: it is not redirected.
LEMMA RouteRidOnTrack ==
  ASSUME RoutesLead, DataTypeOK, ConvergenceInv, HomeInv, AttachedServed,
         NEW f \in NetFrame, f.kind = "rid", OnTrack(f), Placed(f.user)
  PROVE  f.node \in CR /\ ~Redirects(f.node, f) /\ OnTrack(RouteRid(f.node, f))
<1> DEFINE u == f.user
           h == HomeCR[attached[u]]
           c == f.node
           g == [f EXCEPT !.rid_ttl = @ - 1]
<1>1. u \in User /\ f.rid_ttl \in Nat /\ f.rid_ttl <= TTL
  BY FrameFields
<1>2. /\ attached[u] \in AP /\ h \in CR /\ user_statuses[h][u].ap_aid = attached[u]
      /\ \A d \in CR : ~Absorbs(d) /\ (Online(d, u) <=> d = h)
  BY <1>1, PlacedTables
<1>3. u \in local_users[attached[u]]
  BY <1>1, <1>2, ConfigTypes DEF AttachedServed
<1>4. /\ c \in CR /\ f.dst = CRRID[h] /\ f.space = "space100"
      /\ f.rid_ttl >= Ahead(h)[c] + 2
      /\ c = h \/ CRRID[h] \notin RIDSpaces[c]
  BY DEF OnTrack
<1>5. Ahead(h)[c] \in Nat
  BY <1>2, <1>4, AheadLeads, DataTypes
<1>6. f.rid_ttl > 1
  BY <1>1, <1>4, <1>5
<1>7. g \in NetFrame /\ g.user = u /\ g.rid_ttl = f.rid_ttl - 1
  BY <1>6, OneHopLess DEF NetFrame, Frame
<1>8. ~ForAP(c, f)
  <2> SUFFICES ASSUME NEW b \in AssociatedAPs(c), APRID[b] = CRRID[h] PROVE FALSE
    BY <1>4 DEF ForAP
  <2>1. b \in AP /\ HomeCR[b] = c
    BY DEF AssociatedAPs
  <2>2. HomeCR[b] = h
    BY <1>2, <2>1, ConfigIdentifiers
  <2> QED
    BY <1>2, <2>1, <2>2 DEF Absorbs, AssociatedAPs
<1>9. ForCR(c, f) <=> c = h
  BY <1>2, <1>4, <1>8, ConfigIdentifiers DEF ForCR
<1>10. ~Redirects(c, f)
  <2>1. Online(h, u) => ~Moved(h, u)
    BY DEF Online, Moved
  <2> QED
    BY <1>2, <1>9, <2>1 DEF Redirects
<1>11. RouteRid(c, f) = IF c = h THEN Unwrap(c, g) ELSE Forward(c, g, CRRID[h], "space100", g.rid_ttl)
  BY <1>1, <1>4, <1>6, <1>8, <1>9 DEF RouteRid
<1> HIDE DEF g, u, c
<1>12. CASE c = h
  <2>1. RouteRid(c, f) = ToServingAP(c, g, g.ttl)
    BY <1>2, <1>4, <1>7, <1>11, <1>12 DEF Unwrap
  <2>2. OnTrack(ToServingAP(c, g, g.ttl))
    BY <1>2, <1>3, <1>4, <1>7, <1>12, ServingOnTrack
  <2> QED
    BY <1>4, <1>10, <2>1, <2>2 DEF c
<1>13. CASE c # h
  <2>1. RouteRid(c, f) = Forward(c, g, CRRID[h], "space100", g.rid_ttl)
    BY <1>11, <1>13
  <2>2. g.rid_ttl \in 0..TTL /\ g.rid_ttl >= Ahead(h)[c] + 1
    BY <1>1, <1>4, <1>5, <1>6, <1>7, DataTypes
  <2>3. OnTrack(RouteRid(c, f))
    BY <1>2, <1>4, <1>7, <1>13, <2>1, <2>2, ForwardOnTrack
  <2> QED
    BY <1>4, <1>10, <2>3 DEF c
<1> QED
  BY <1>12, <1>13
-----------------------------------------------------------------------------
LEMMA InitServed == DataInit => AttachedServed
<1> SUFFICES ASSUME DataInit, NEW u \in User, attached[u] # NoAP
             PROVE  u \in local_users[attached[u]]
  BY DEF AttachedServed
<1>1. /\ attached \in [User -> AP \cup {NoAP}]
      /\ \A a \in AP : local_users[a] = {w \in User : attached[w] = a}
  BY DEF DataInit
<1>2. attached[u] \in AP
  BY <1>1
<1> HIDE DEF DataInit
<1> QED
  BY <1>1, <1>2

\* What a step of the data plane leaves alone of the users' attachments.
LEMMA UsersOfSteps ==
  ASSUME [DataNext]_allVars
  PROVE  \/ local_users' = local_users /\ attached' = attached
         \/ \E a \in AP, u \in User : Attach(a, u)
<1>1. ASSUME NEW k \in Packet, Redirect(k)
      PROVE  local_users' = local_users /\ attached' = attached
  BY <1>1 DEF Redirect, RedirectAndAlert, vars
<1>2. CASE Control
  BY <1>2 DEF Control, ControlStep, ForwardToCS, HandleRegister, HandleMobility,
     HandleNotification, HandleFlooded, HandleRelayed, SetUserStatus, DropNewest
<1>3. ASSUME NEW k \in Packet, NEW a \in AP, NEW u \in User, SendUserData(k, a, u)
      PROVE  local_users' = local_users /\ attached' = attached
  BY <1>3 DEF SendUserData, vars
<1>4. ASSUME NEW k \in Packet, APHandleAid(k) \/ APHandleRid(k) \/ HandleAid(k) \/ HandleRid(k)
      PROVE  local_users' = local_users /\ attached' = attached
  BY <1>4 DEF APHandleAid, APHandleRid, HandleAid, HandleRid, vars
<1>5. CASE UNCHANGED allVars
  BY <1>5 DEF allVars, dataVars, vars
<1> QED
  BY <1>1, <1>2, <1>3, <1>4, <1>5 DEF DataNext

LEMMA NextServed == DataInv /\ AttachedServed /\ [DataNext]_allVars => AttachedServed'
<1> SUFFICES ASSUME DataInv, AttachedServed, [DataNext]_allVars PROVE AttachedServed'
  OBVIOUS
<1>1. /\ local_users \in [AP -> SUBSET User] /\ attached \in [User -> AP \cup {NoAP}]
  BY DEF DataInv, TypeOK, DataTypeOK
<1>2. ASSUME NEW a \in AP, NEW u \in User, Attach(a, u)
      PROVE  AttachedServed'
  <2>1. /\ attached' = [attached EXCEPT ![u] = a]
        /\ local_users' = [local_users EXCEPT ![a] = @ \cup {u}]
    BY <1>2 DEF Attach, ActivateUser
  <2> SUFFICES ASSUME NEW w \in User, attached'[w] # NoAP
               PROVE  w \in local_users'[attached'[w]]
    BY DEF AttachedServed
  <2>2. CASE w = u
    BY <1>1, <2>1, <2>2
  <2>3. CASE w # u
    <3>1. attached'[w] = attached[w] /\ attached[w] \in AP /\ w \in local_users[attached[w]]
      BY <1>1, <2>1, <2>3 DEF AttachedServed
    <3>2. local_users[attached[w]] \subseteq local_users'[attached[w]]
      BY <1>1, <2>1, <3>1
    <3> QED
      BY <3>1, <3>2
  <2> QED
    BY <2>2, <2>3
<1>3. CASE local_users' = local_users /\ attached' = attached
  BY <1>3 DEF AttachedServed
<1> QED
  BY <1>2, <1>3, UsersOfSteps

\* A user that is Placed before and after a step has not moved: the CS has
\* not heard of a move it made in the step, and its last word tells APs apart.
LEMMA PlacedStays ==
  ASSUME DataInv, AttachedServed, [DataNext]_allVars, NEW u \in User, Placed(u), Placed(u)'
  PROVE  /\ attached'[u] = attached[u]
         /\ \A a \in AP : u \in local_users'[a] <=> u \in local_users[a]
<1>1. CASE local_users' = local_users /\ attached' = attached
  BY <1>1
<1>2. ASSUME NEW a \in AP, NEW w \in User, Attach(a, w)
      PROVE  /\ attached'[u] = attached[u]
             /\ \A b \in AP : u \in local_users'[b] <=> u \in local_users[b]
  <2>1. /\ attached' = [attached EXCEPT ![w] = a] /\ last' = last
        /\ local_users' = [local_users EXCEPT ![a] = @ \cup {w}]
    BY <1>2 DEF Attach, ActivateUser
  <2>2. /\ local_users \in [AP -> SUBSET User] /\ attached \in [User -> AP \cup {NoAP}]
    BY DEF DataInv, TypeOK, DataTypeOK
  <2>3. attached[u] \in AP /\ attached'[u] \in AP
    BY <2>1, <2>2 DEF Placed
  <2>4. /\ APRID[attached'[u]] = APRID[attached[u]]
        /\ CRRID[HomeCR[attached'[u]]] = CRRID[HomeCR[attached[u]]]
    BY <2>1 DEF Placed
  <2>5. attached'[u] = attached[u]
    <3>1. HomeCR[attached'[u]] = HomeCR[attached[u]]
      BY <2>3, <2>4, ConfigTypes, ConfigIdentifiers
    <3> QED
      BY <2>3, <2>4, <3>1, ConfigIdentifiers
  <2>6. ASSUME NEW b \in AP
        PROVE  u \in local_users'[b] <=> u \in local_users[b]
    <3>1. CASE u = w /\ b = a
      <4>1. attached[u] = a
        BY <2>1, <2>2, <2>5, <3>1
      <4>2. a # NoAP
        BY ConfigTypes
      <4>3. u \in local_users[a]
        BY <4>1, <4>2 DEF AttachedServed
      <4>4. local_users'[a] = local_users[a] \cup {w}
        BY <2>1, <2>2
      <4> QED
        BY <3>1, <4>3, <4>4
    <3>2. CASE ~(u = w /\ b = a)
      BY <2>1, <2>2, <3>2
    <3> QED
      BY <3>1, <3>2
  <2> QED
    BY <2>5, <2>6
<1> QED
  BY <1>1, <1>2, UsersOfSteps

\* Then a packet that is left alone stays on track.
LEMMA OnTrackKept ==
  ASSUME NEW k \in Packet, OnTrack(packets[k]), packets'[k] = packets[k],
         attached'[packets[k].user] = attached[packets[k].user],
         \A a \in AP : packets[k].user \in local_users'[a] <=> packets[k].user \in local_users[a]
  PROVE  OnTrack(packets[k])'
  BY DEF OnTrack

\* A packet that is sent is on track, if it counts as fresh.
LEMMA SentOnTrack ==
  ASSUME TTL > 1, NEW k \in Packet, NEW a \in AP, NEW u \in User, SendUserData(k, a, u),
         packets \in [Packet -> Frame], ~(u \in local_users[a] /\ attached[u] # a)
  PROVE  OnTrack(packets[k])'
<1> DEFINE f == [Unsent EXCEPT !.kind = "aid", !.node = a, !.user = u, !.ttl = TTL]
<1>1. packets' = [packets EXCEPT ![k] = f] /\ local_users' = local_users /\ attached' = attached
  BY DEF SendUserData, Set, vars
<1>2. f.kind = "aid" /\ f.node = a /\ f.user = u /\ f.ttl = TTL
  BY DEF Unsent
<1> HIDE DEF f
<1>3. packets'[k] = f
  BY <1>1
<1> QED
  BY <1>1, <1>2, <1>3 DEF OnTrack

\* Whoever has a packet that is on track leaves it on track.
LEMMA HandledOnTrack ==
  ASSUME RoutesLead, DataInv, ConvergenceInv, HomeInv, AttachedServed,
         NEW k \in Packet, OnTrack(packets[k]), Placed(packets[k].user), Handle(k)
  PROVE  OnTrack(packets[k])'
<1> DEFINE f == packets[k]
<1>1. DataTypeOK /\ InNetwork
  BY DEF DataInv
<1>2. packets \in [Packet -> Frame] /\ (f.kind \in {"aid", "rid"} => f \in NetFrame)
  BY <1>1, NetFrameOfPacket DEF DataTypeOK
<1>3. ASSUME NEW g, OnTrack(g), Set(k, g), UNCHANGED <<vars, attached>>
      PROVE  OnTrack(packets[k])'
  <2>1. packets'[k] = g /\ local_users' = local_users /\ attached' = attached
    BY <1>2, <1>3 DEF Set, vars
  <2> QED
    BY <1>3, <2>1 DEF OnTrack
<1>4. CASE APHandleAid(k)
  <2> DEFINE a == attached[f.user]
             g == Aid(f, HomeCR[f.node], f.ttl)
  <2>1. /\ f.kind = "aid" /\ f.node \in AP
        /\ Set(k, IF f.user \in local_users[f.node] THEN Delivered(f, f.node) ELSE g)
        /\ UNCHANGED <<vars, attached>>
    BY <1>4 DEF APHandleAid
  <2>2. f \in NetFrame
    BY <1>2, <2>1
  <2>3. CASE f.user \in local_users[f.node]
    <3>1. f.node = a
      BY <2>1, <2>3, DataTypes DEF OnTrack
    <3>2. /\ Delivered(f, f.node).kind = "delivered" /\ Delivered(f, f.node).node = f.node
          /\ Delivered(f, f.node).user = f.user
      BY <2>2 DEF Delivered, NetFrame, Frame
    <3>3. OnTrack(Delivered(f, f.node))
      BY <3>1, <3>2 DEF OnTrack
    <3> QED
      BY <1>3, <2>1, <2>3, <3>3
  <2>4. CASE f.user \notin local_users[f.node]
    <3>1. f.ttl > 1
      BY <2>1, <2>4, DataTypes DEF OnTrack
    <3>2. g.kind = "aid" /\ g.node = HomeCR[f.node] /\ g.ttl = f.ttl
      BY <2>2 DEF Aid, NetFrame, Frame
    <3>3. HomeCR[f.node] \in CR
      BY <2>1, ConfigTypes
    <3> HIDE DEF g
    <3>4. OnTrack(g)
      BY <3>1, <3>2, <3>3 DEF OnTrack
    <3> QED
      BY <1>3, <2>1, <2>4, <3>4
  <2> QED
    BY <2>3, <2>4
<1>5. CASE APHandleRid(k)
  <2>1. f.kind = "rid" /\ f.node \in AP
    BY <1>5 DEF APHandleRid
  <2> QED
    BY <2>1, DataTypes DEF OnTrack
<1>6. CASE HandleAid(k)
  <2>1. /\ f.kind = "aid" /\ f.node \in CR /\ Set(k, RouteAid(f.node, f))
        /\ UNCHANGED <<vars, attached>>
    BY <1>6 DEF HandleAid
  <2>2. f.ttl > 1
    BY <2>1, DataTypes DEF OnTrack
  <2>3. OnTrack(RouteAid(f.node, f))
    BY <1>1, <1>2, <2>1, <2>2, RouteAidOnTrack
  <2> QED
    BY <1>3, <2>1, <2>3
<1>7. CASE HandleRid(k)
  <2>1. f.kind = "rid" /\ Set(k, RouteRid(f.node, f)) /\ UNCHANGED <<vars, attached>>
    BY <1>7 DEF HandleRid
  <2>2. OnTrack(RouteRid(f.node, f))
    BY <1>1, <1>2, <2>1, RouteRidOnTrack
  <2> QED
    BY <1>3, <2>1, <2>2
<1>8. CASE Redirect(k)
  <2>1. f.kind = "rid" /\ Redirects(f.node, f)
    BY <1>8 DEF Redirect
  <2> QED
    BY <1>1, <1>2, <2>1, RouteRidOnTrack
<1> QED
  BY <1>4, <1>5, <1>6, <1>7, <1>8 DEF Handle
-----------------------------------------------------------------------------
\* Who changes the packet k in a step, and which packets become fresh.
LEMMA PacketOfStep ==
  ASSUME DataInv, [DataNext]_allVars, NEW k \in fresh'
  PROVE  \/ \E a \in AP, u \in User : /\ SendUserData(k, a, u)
                                      /\ ~(u \in local_users[a] /\ attached[u] # a)
         \/ k \in fresh /\ Handle(k)
         \/ k \in fresh /\ packets'[k] = packets[k]
<1>1. fresh \subseteq {j \in Packet : packets[j].kind # "unsent"} /\ packets \in [Packet -> Frame]
  BY DEF DataInv, DataTypeOK
<1>2. ASSUME NEW j \in Packet, NEW a \in AP, NEW u \in User, SendUserData(j, a, u)
      PROVE  \/ SendUserData(k, a, u) /\ ~(u \in local_users[a] /\ attached[u] # a)
             \/ k \in fresh /\ packets'[k] = packets[k]
  <2> DEFINE sent == IF u \in local_users[a] /\ attached[u] # a THEN {} ELSE {j}
  <2>1. packets[j].kind = "unsent" /\ Track(sent)
    BY <1>2 DEF SendUserData
  <2>2. k \in fresh \cup sent
    BY <2>1, TrackKeeps
  <2>3. CASE k \in fresh
    <3>1. k # j /\ k \in Packet
      BY <1>1, <2>1, <2>3
    <3>2. packets'[k] = packets[k]
      BY <1>1, <1>2, <3>1 DEF SendUserData, Set
    <3> QED
      BY <2>3, <3>2
  <2>4. CASE k \notin fresh
    BY <1>2, <2>2, <2>4
  <2> QED
    BY <2>3, <2>4
<1>3. ASSUME NEW j \in Packet, Handle(j)
      PROVE  k \in fresh /\ (Handle(k) \/ packets'[k] = packets[k])
  <2>1. Track({})
    BY <1>3 DEF Handle, APHandleAid, APHandleRid, HandleAid, HandleRid, Redirect
  <2>2. k \in fresh /\ k \in Packet
    BY <1>1, <2>1, TrackKeeps
  <2>3. \E g : packets' = [packets EXCEPT ![j] = g]
    BY <1>3 DEF Handle, APHandleAid, APHandleRid, HandleAid, HandleRid, Redirect, Set
  <2>4. CASE k = j
    BY <1>3, <2>2, <2>4
  <2>5. CASE k # j
    BY <1>1, <2>2, <2>3, <2>5
  <2> QED
    BY <2>4, <2>5
<1>4. ASSUME packets' = packets, fresh' \subseteq fresh
      PROVE  k \in fresh /\ packets'[k] = packets[k]
  BY <1>4
<1>5. ASSUME NEW a \in AP, NEW u \in User, Attach(a, u)
      PROVE  k \in fresh /\ packets'[k] = packets[k]
  <2>1. packets' = packets /\ Track({})
    BY <1>5 DEF Attach
  <2> QED
    BY <1>4, <2>1, TrackKeeps
<1>6. CASE Control
  <2>1. packets' = packets /\ Track({})
    BY <1>6 DEF Control
  <2> QED
    BY <1>4, <2>1, TrackKeeps
<1>7. CASE UNCHANGED allVars
  BY <1>4, <1>7 DEF allVars, dataVars
<1> QED
  BY <1>2, <1>3, <1>5, <1>6, <1>7 DEF DataNext, Handle

\* The users of packets that stay fresh are Placed.
LEMMA FreshPlaced ==
  ASSUME FreshOnTrack, [DataNext]_allVars, NEW k \in fresh'
  PROVE  Placed(packets[k].user)'
<1>1. \A sent : Track(sent) => Placed(packets[k].user)'
  BY DEF Track
<1>2. CASE UNCHANGED allVars
  BY <1>2 DEF FreshOnTrack, allVars, dataVars, vars, wireVars, cacheVars, envVars, Placed, Settled,
     Mentions, Online, Listens, Absorbs, AssociatedAPs, Feeders
<1> QED
  BY <1>1, <1>2 DEF DataNext, SendUserData, APHandleAid, APHandleRid, HandleAid, HandleRid,
     Redirect, Attach, Control

LEMMA NextFreshOnTrack ==
  ASSUME RoutesLead, TrackInv, [DataNext]_allVars
  PROVE  FreshOnTrack'
<1> SUFFICES ASSUME NEW k \in fresh' PROVE OnTrack(packets[k])'
  BY FreshPlaced DEF FreshOnTrack, TrackInv
<1>1. DataInv /\ ConvergenceInv /\ HomeInv /\ AttachedServed /\ FreshOnTrack
  BY DEF TrackInv
<1>2. /\ packets \in [Packet -> Frame] /\ fresh \subseteq Packet
      /\ \A j \in fresh : packets[j].kind # "unsent"
  BY <1>1 DEF DataInv, DataTypeOK
<1>3. ASSUME NEW a \in AP, NEW u \in User, SendUserData(k, a, u),
             ~(u \in local_users[a] /\ attached[u] # a)
      PROVE  OnTrack(packets[k])'
  <2>1. k \in Packet
    <3>1. fresh' \subseteq Packet
      BY <1>1, DataNextInv DEF DataInv, DataTypeOK
    <3> QED
      BY <3>1
  <2> QED
    BY <1>2, <1>3, <2>1, SentOnTrack DEF RoutesLead
<1>4. CASE k \in fresh /\ Handle(k)
  BY <1>1, <1>2, <1>4, HandledOnTrack DEF FreshOnTrack
<1>5. CASE k \in fresh /\ packets'[k] = packets[k]
  <2>1. k \in Packet /\ OnTrack(packets[k]) /\ Placed(packets[k].user)
    BY <1>1, <1>2, <1>5 DEF FreshOnTrack
  <2>2. PICK u \in User : u = packets[k].user
    <3>1. packets[k].kind \in UnderWay
      BY <1>2, <1>5, <2>1 DEF OnTrack, UnderWay
    <3> QED
      BY <1>1, <2>1, <3>1 DEF DataInv, InNetwork
  <2>3. Placed(u)
    BY <2>1, <2>2
  <2>4. Placed(u)'
    <3>1. Placed(packets[k].user)'
      BY <1>1, FreshPlaced
    <3>2. packets'[k].user = u
      BY <1>5, <2>2
    <3> QED
      BY <3>1, <3>2 DEF Placed, Settled, Mentions, Online
  <2>5. /\ attached'[u] = attached[u]
        /\ \A a \in AP : u \in local_users'[a] <=> u \in local_users[a]
    BY <1>1, <2>3, <2>4, PlacedStays
  <2> QED
    BY <1>5, <2>1, <2>2, <2>5, OnTrackKept
<1> QED
  BY <1>1, <1>3, <1>4, <1>5, PacketOfStep

LEMMA InitTrack == DataInit => TrackInv
<1> SUFFICES ASSUME DataInit PROVE TrackInv
  OBVIOUS
<1>1. Init /\ fresh = {}
  BY DEF DataInit
<1> QED
  BY <1>1, DataInitInv, InitConvergence, InitHome, InitServed DEF TrackInv, FreshOnTrack

LEMMA NextTrack ==
  ASSUME RoutesLead
  PROVE  TrackInv /\ [DataNext]_allVars => TrackInv'
<1> SUFFICES ASSUME TrackInv, [DataNext]_allVars PROVE TrackInv'
  OBVIOUS
<1>1. DataInv /\ ConvergenceInv /\ HomeInv /\ AttachedServed /\ TypeOK
  BY DEF TrackInv, DataInv
<1>2. [Next]_vars
  BY <1>1, StepRefines
<1>3. DataInv' /\ AttachedServed'
  BY <1>1, DataNextInv, NextServed
<1>4. ConvergenceInv'
  BY <1>1, <1>2, NextTypeOK, NextRegistry, NextCoreOnlyRelays, NextLastWord DEF ConvergenceInv
<1>5. HomeInv'
  BY <1>1, <1>2, NextHome
<1>6. FreshOnTrack'
  BY NextFreshOnTrack
<1> QED
  BY <1>3, <1>4, <1>5, <1>6 DEF TrackInv

\* A packet sent while the control plane agrees where its user is comes out
\* there unless that changes, whatever the number of routers and packets and
\* whatever travels beside it: on any deployment whose routes lead to the
\* routers that have APs, as those of cr1.yaml and cr2.yaml do.
THEOREM PlacedUsersReachableAlways ==
  ASSUME RoutesLead
  PROVE  DataSpec => []PlacedUsersReachable
<1>1. TrackInv => PlacedUsersReachable
  BY DEF TrackInv, FreshOnTrack, OnTrack, PlacedUsersReachable
<1> QED
  BY <1>1, InitTrack, NextTrack, PTL DEF DataSpec
=============================================================================
