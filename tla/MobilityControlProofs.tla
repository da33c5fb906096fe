------------------------ MODULE MobilityControlProofs ------------------------
(***************************************************************************)
(* Theorems about MobilityControl, for every deployment and every bound:   *)
(* its types, where users are said to be, that it implements Registry, and *)
(* that the routers converge on the registry.                              *)
(***************************************************************************)
EXTENDS MobilityControl, SequenceTheorems, TLAPS

LEMMA MatchAPType ==
  ASSUME NEW c \in CR, NEW r
  PROVE  MatchAP(c, r) \in AP \cup {NoAP}
  BY DEF MatchAP, AssociatedAPs

LEMMA CrOfApType ==
  ASSUME NEW r \in RID
  PROVE  CrOfAp(r) \in RID
  BY ConfigTypes DEF CrOfAp

LEMMA LookupType ==
  ASSUME TypeOK, NEW c \in CR, NEW u \in User, LookupAnyMapping(c, u) # None
  PROVE  LookupAnyMapping(c, u) \in Mapping
<1>1. CASE LocalMapping[c][u] # None
  <2>1. LocalMapping[c][u] \in RID
    BY <1>1, ConfigTypes
  <2> QED
    BY <1>1, <2>1, ConfigTypes DEF LookupAnyMapping, Mapping
<1>2. CASE LocalMapping[c][u] = None
  BY <1>2 DEF LookupAnyMapping, TypeOK
<1> QED
  BY <1>1, <1>2

LEMMA PublishType ==
  ASSUME TypeOK, NEW u \in User, NEW mapped \in RID, NEW cr \in RID, NEW ap \in RID,
         Publish(u, mapped, cr, ap)
  PROVE  /\ mgmt' \in [CR -> [CR -> Seq(Notification)]]
         /\ last' \in [User -> Notification \cup {None}]
<1> DEFINE n == [aid |-> u, new_mapped_rid |-> mapped, new_cr_rid |-> cr,
                 ap_rid |-> ap]
<1>2. n \in Notification
  BY DEF Notification
<1>3. mgmt' = [p \in CR |-> [t \in CR |->
                 IF t \in ManagedCR THEN Append(mgmt[p][t], n) ELSE mgmt[p][t]]]
  BY DEF Publish
<1>4. ASSUME NEW p \in CR, NEW t \in CR
      PROVE  (IF t \in ManagedCR THEN Append(mgmt[p][t], n) ELSE mgmt[p][t])
                 \in Seq(Notification)
  <2>1. mgmt[p][t] \in Seq(Notification)
    BY DEF TypeOK
  <2> HIDE DEF n
  <2> QED
    BY <2>1, <1>2
<1>5. last' = [last EXCEPT ![u] = n]
  BY DEF Publish
<1> HIDE DEF n
<1>6. mgmt' \in [CR -> [CR -> Seq(Notification)]]
  BY <1>3, <1>4
<1>7. last' \in [User -> Notification \cup {None}]
  BY <1>2, <1>5 DEF TypeOK
<1> QED
  BY <1>6, <1>7

\* The entry of u at c is e, and every other entry is as it was.
Written(c, u, e) ==
  \A d \in CR, v \in User :
    user_statuses'[d][v] = IF d = c /\ v = u THEN e ELSE user_statuses[d][v]

\* set_user_status writes one entry, with the AP that the operator names.
LEMMA SetUserStatusStep ==
  ASSUME TypeOK, NEW c \in CR, NEW u \in User, NEW s \in Status, SetUserStatus(c, u, s)
  PROVE  /\ user_statuses' \in [CR -> [User -> UserStatus \cup {None}]]
         /\ \E a \in NamedAP(c, u) : Written(c, u, [ap_aid |-> a, status |-> s])
<1>1. PICK a \in NamedAP(c, u) :
        user_statuses' = [user_statuses EXCEPT ![c][u] = [ap_aid |-> a, status |-> s]]
  BY DEF SetUserStatus
<1>2. a \in AP \cup {NoAP}
  <2>1. CASE user_statuses[c][u] # None
    <3>1. user_statuses[c][u] \in UserStatus
      BY <2>1 DEF TypeOK
    <3>2. a = user_statuses[c][u].ap_aid
      BY <2>1 DEF NamedAP
    <3> QED
      BY <3>1, <3>2 DEF UserStatus
  <2>2. CASE user_statuses[c][u] = None
    BY <2>2 DEF NamedAP, AssociatedAPs
  <2> QED
    BY <2>1, <2>2
<1>3. [ap_aid |-> a, status |-> s] \in UserStatus
  BY <1>2 DEF UserStatus
<1> DEFINE e == [ap_aid |-> a, status |-> s]
<1>4. /\ user_statuses \in [CR -> [User -> UserStatus \cup {None}]]
      /\ user_statuses' = [user_statuses EXCEPT ![c] = [@ EXCEPT ![u] = e]]
  BY <1>1 DEF TypeOK
<1> HIDE DEF e
<1>5. user_statuses' \in [CR -> [User -> UserStatus \cup {None}]] /\ Written(c, u, e)
  <2>1. e \in UserStatus
    BY <1>3 DEF e
  <2> QED
    BY <1>4, <2>1 DEF Written
<1> QED
  BY <1>1, <1>5 DEF e

LEMMA ReceiveType ==
  ASSUME TypeOK, NEW c \in CR, NEW n \in Notification, Receive(c, n)
  PROVE  /\ remote_mappings' \in [CR -> [User -> Mapping \cup {None}]]
         /\ user_statuses' \in [CR -> [User -> UserStatus \cup {None}]]
<1>1. CASE Absorbs(c)
  BY <1>1 DEF Receive, cacheVars, TypeOK
<1>2. CASE ~Absorbs(c)
  <2>1. ApplyNotification(c, n)
    BY <1>2 DEF Receive
  <2>2. [ap_aid |-> MatchAP(c, n.ap_rid), status |-> "ONLINE"] \in UserStatus
    BY MatchAPType DEF UserStatus, Status
  <2>3. [mapped_rid |-> n.new_mapped_rid, remote_cr_rid |-> n.new_cr_rid] \in Mapping
    BY DEF Mapping, Notification
  <2>4. n.aid \in User
    BY DEF Notification
  <2>5. remote_mappings' \in [CR -> [User -> Mapping \cup {None}]]
    BY <2>1, <2>3, <2>4 DEF ApplyNotification, TypeOK
  <2>6. user_statuses' \in [CR -> [User -> UserStatus \cup {None}]]
    BY <2>1, <2>2, <2>4 DEF ApplyNotification, TypeOK
  <2> QED
    BY <2>5, <2>6
<1> QED
  BY <1>1, <1>2
-----------------------------------------------------------------------------
LEMMA InitTypeOK == Init => TypeOK
<1> SUFFICES ASSUME Init PROVE TypeOK
  OBVIOUS
<1>1. PICK home \in [User -> AP \cup {NoAP}] :
        /\ local_users = [a \in AP |-> {u \in User : home[u] = a}]
        /\ remote_mappings = [c \in CR |-> [u \in User |->
             IF home[u] = NoAP \/ c = HomeCR[home[u]] THEN None
             ELSE [mapped_rid |-> APRID[home[u]],
                   remote_cr_rid |-> CRRID[HomeCR[home[u]]]]]]
        /\ user_statuses = [c \in CR |-> [u \in User |->
             IF home[u] = NoAP \/ c # HomeCR[home[u]] THEN None
             ELSE [ap_aid |-> home[u], status |-> "ONLINE"]]]
  BY DEF Init
<1>2. local_users \in [AP -> SUBSET User]
  BY <1>1
<1>3. remote_mappings \in [CR -> [User -> Mapping \cup {None}]]
  <2>1. ASSUME NEW u \in User, home[u] # NoAP
        PROVE  [mapped_rid |-> APRID[home[u]],
                remote_cr_rid |-> CRRID[HomeCR[home[u]]]] \in Mapping
    BY <2>1, ConfigTypes DEF Mapping
  <2> QED
    BY <1>1, <2>1
<1>4. user_statuses \in [CR -> [User -> UserStatus \cup {None}]]
  <2>1. ASSUME NEW u \in User
        PROVE  [ap_aid |-> home[u], status |-> "ONLINE"] \in UserStatus
    BY <2>1 DEF UserStatus, Status
  <2> QED
    BY <1>1, <2>1
<1>5. /\ mappings \in [User -> Mapping \cup {None}]
      /\ last \in [User -> Notification \cup {None}]
      /\ acc \in [CR -> Seq(RegisterRequest)]
      /\ csq \in Seq(Messages)
      /\ mgmt \in [CR -> [CR -> Seq(Notification)]]
      /\ core \in [CR -> [CR -> Seq(Notification)]]
      /\ activations \in Nat /\ marks \in Nat /\ alerts \in Nat /\ lost \in Nat
  BY DEF Init
<1> QED
  BY <1>2, <1>3, <1>4, <1>5 DEF TypeOK

LEMMA NextTypeOK == TypeOK /\ [Next]_vars => TypeOK'
<1> SUFFICES ASSUME TypeOK, [Next]_vars PROVE TypeOK'
  OBVIOUS
<1> USE DEF cacheVars, wireVars, envVars
<1>1. ASSUME NEW a \in AP, NEW u \in User, ActivateUser(a, u)
      PROVE  TypeOK'
  <2> DEFINE m == [type |-> "register", aid |-> u, mapped_rid |-> CRRID[HomeCR[a]],
                   ap_rid |-> APRID[a]]
  <2>1. m \in RegisterRequest /\ HomeCR[a] \in CR
    BY ConfigTypes DEF RegisterRequest
  <2>2. acc' \in [CR -> Seq(RegisterRequest)]
    <3>1. acc' = [acc EXCEPT ![HomeCR[a]] = Append(@, m)]
      BY <1>1 DEF ActivateUser, PostAuthProcedures
    <3> HIDE DEF m
    <3>2. Append(acc[HomeCR[a]], m) \in Seq(RegisterRequest)
      BY <2>1, AppendProperties DEF TypeOK
    <3> QED
      BY <3>1, <3>2 DEF TypeOK
  <2>3. local_users' \in [AP -> SUBSET User] /\ activations' \in Nat
    BY <1>1 DEF ActivateUser, PostAuthProcedures, TypeOK
  <2> QED
    BY <1>1, <2>2, <2>3 DEF ActivateUser, PostAuthProcedures, TypeOK
<1>2. ASSUME NEW c \in CR, ForwardToCS(c)
      PROVE  TypeOK'
  <2>1. acc[c] \in Seq(RegisterRequest) /\ acc[c] # <<>>
    BY <1>2 DEF ForwardToCS, TypeOK
  <2>2. Head(acc[c]) \in RegisterRequest /\ Tail(acc[c]) \in Seq(RegisterRequest)
    BY <2>1
  <2>3. acc' \in [CR -> Seq(RegisterRequest)]
    BY <1>2, <2>2 DEF ForwardToCS, TypeOK
  <2>4. csq' \in Seq(Messages)
    BY <1>2, <2>2 DEF ForwardToCS, TypeOK, Messages
  <2> QED
    BY <1>2, <2>3, <2>4 DEF ForwardToCS, TypeOK
<1>3. CASE HandleRegister
  <2>1. csq \in Seq(Messages) /\ csq # <<>>
    BY <1>3 DEF HandleRegister, TypeOK
  <2>2. Head(csq) \in Messages /\ Tail(csq) \in Seq(Messages)
    BY <2>1
  <2>3. Head(csq) \in RegisterRequest
    BY <1>3, <2>2 DEF HandleRegister, Messages, MobilityAlert
  <2> DEFINE m == Head(csq)
             cr == CrOfAp(m.ap_rid)
  <2>4. m.aid \in User /\ m.mapped_rid \in RID /\ m.ap_rid \in RID
    BY <2>3 DEF RegisterRequest
  <2>5. cr \in RID
    BY <2>4, CrOfApType
  <2>6. Publish(m.aid, m.mapped_rid, cr, m.ap_rid)
    BY <1>3 DEF HandleRegister
  <2>7. [mapped_rid |-> m.mapped_rid, remote_cr_rid |-> cr] \in Mapping
    BY <2>4, <2>5 DEF Mapping
  <2>8. mappings' = [mappings EXCEPT ![m.aid] =
                       [mapped_rid |-> m.mapped_rid, remote_cr_rid |-> cr]]
    BY <1>3 DEF HandleRegister
  <2> HIDE DEF m, cr
  <2>9. mappings' \in [User -> Mapping \cup {None}]
    BY <2>4, <2>7, <2>8 DEF TypeOK
  <2>10. /\ mgmt' \in [CR -> [CR -> Seq(Notification)]]
         /\ last' \in [User -> Notification \cup {None}]
    BY <2>4, <2>5, <2>6, PublishType
  <2> QED
    BY <1>3, <2>2, <2>9, <2>10 DEF HandleRegister, TypeOK
<1>4. CASE HandleMobility
  <2>1. csq \in Seq(Messages) /\ csq # <<>>
    BY <1>4 DEF HandleMobility, TypeOK
  <2>2. Head(csq) \in Messages /\ Tail(csq) \in Seq(Messages)
    BY <2>1
  <2>3. Head(csq) \in MobilityAlert
    BY <1>4, <2>2 DEF HandleMobility, Messages, RegisterRequest
  <2> DEFINE m == Head(csq)
  <2>4. m.user_aid \in User /\ m.new_rid \in RID /\ m.new_cr_rid \in RID
    BY <2>3 DEF MobilityAlert
  <2>5. NoRID \in RID
    BY ConfigTypes
  <2>6. Publish(m.user_aid, m.new_rid, m.new_cr_rid, NoRID)
    BY <1>4 DEF HandleMobility
  <2>7. [mapped_rid |-> m.new_rid, remote_cr_rid |-> m.new_cr_rid] \in Mapping
    BY <2>4 DEF Mapping
  <2>8. mappings' = [mappings EXCEPT ![m.user_aid] =
                       [mapped_rid |-> m.new_rid, remote_cr_rid |-> m.new_cr_rid]]
    BY <1>4 DEF HandleMobility
  <2> HIDE DEF m
  <2>9. mappings' \in [User -> Mapping \cup {None}]
    BY <2>4, <2>7, <2>8 DEF TypeOK
  <2>10. /\ mgmt' \in [CR -> [CR -> Seq(Notification)]]
         /\ last' \in [User -> Notification \cup {None}]
    BY <2>4, <2>5, <2>6, PublishType
  <2> QED
    BY <1>4, <2>2, <2>9, <2>10 DEF HandleMobility, TypeOK
<1>5. ASSUME NEW c \in CR, HandleNotification(c)
      PROVE  TypeOK'
  <2>1. mgmt[c][c] \in Seq(Notification) /\ mgmt[c][c] # <<>>
    BY <1>5 DEF HandleNotification, TypeOK
  <2>2. Head(mgmt[c][c]) \in Notification /\ Tail(mgmt[c][c]) \in Seq(Notification)
    BY <2>1
  <2>3. Receive(c, Head(mgmt[c][c]))
    BY <1>5 DEF HandleNotification
  <2>4. mgmt' \in [CR -> [CR -> Seq(Notification)]]
    BY <1>5, <2>2 DEF HandleNotification, TypeOK
  <2>5. /\ remote_mappings' \in [CR -> [User -> Mapping \cup {None}]]
        /\ user_statuses' \in [CR -> [User -> UserStatus \cup {None}]]
    BY <2>2, <2>3, ReceiveType
  <2> QED
    BY <1>5, <2>4, <2>5 DEF HandleNotification, TypeOK
<1>6. ASSUME NEW p \in CR, NEW t \in CR, HandleFlooded(p, t)
      PROVE  TypeOK'
  <2>1. mgmt[p][t] \in Seq(Notification) /\ mgmt[p][t] # <<>>
        /\ core[p][t] \in Seq(Notification)
    BY <1>6 DEF HandleFlooded, TypeOK
  <2>2. Head(mgmt[p][t]) \in Notification /\ Tail(mgmt[p][t]) \in Seq(Notification)
    BY <2>1
  <2>3. mgmt' \in [CR -> [CR -> Seq(Notification)]]
    BY <1>6, <2>2 DEF HandleFlooded, TypeOK
  <2>4. Append(core[p][t], Head(mgmt[p][t])) \in Seq(Notification)
    BY <2>1, <2>2
  <2>5. core' \in [CR -> [CR -> Seq(Notification)]]
    BY <1>6, <2>4 DEF HandleFlooded, TypeOK
  <2> QED
    BY <1>6, <2>3, <2>5 DEF HandleFlooded, TypeOK
<1>7. ASSUME NEW p \in CR, NEW t \in CR, HandleRelayed(p, t)
      PROVE  TypeOK'
  <2>1. core[p][t] \in Seq(Notification) /\ core[p][t] # <<>>
    BY <1>7 DEF HandleRelayed, TypeOK
  <2>2. Head(core[p][t]) \in Notification /\ Tail(core[p][t]) \in Seq(Notification)
    BY <2>1
  <2>3. Receive(t, Head(core[p][t]))
    BY <1>7 DEF HandleRelayed
  <2>4. core' \in [CR -> [CR -> Seq(Notification)]]
    BY <1>7, <2>2 DEF HandleRelayed, TypeOK
  <2>5. /\ remote_mappings' \in [CR -> [User -> Mapping \cup {None}]]
        /\ user_statuses' \in [CR -> [User -> UserStatus \cup {None}]]
    BY <2>2, <2>3, ReceiveType
  <2> QED
    BY <1>7, <2>4, <2>5 DEF HandleRelayed, TypeOK
<1>8. ASSUME NEW c \in CR, NEW u \in User, NEW s \in Status, SetUserStatus(c, u, s)
      PROVE  TypeOK'
  <2>1. user_statuses' \in [CR -> [User -> UserStatus \cup {None}]]
    BY <1>8, SetUserStatusStep
  <2> QED
    BY <1>8, <2>1 DEF SetUserStatus, TypeOK
<1>9. ASSUME NEW c \in CR, NEW u \in User, RedirectAndAlert(c, u)
      PROVE  TypeOK'
  <2>1. LookupAnyMapping(c, u) \in Mapping
    BY <1>9, LookupType DEF RedirectAndAlert
  <2> DEFINE msg == [type |-> "alert", user_aid |-> u,
                     new_rid |-> LookupAnyMapping(c, u).mapped_rid,
                     new_cr_rid |-> LookupAnyMapping(c, u).remote_cr_rid]
  <2>2. msg \in Messages
    BY <2>1 DEF Mapping, MobilityAlert, Messages
  <2>3. csq' = Append(csq, msg)
    BY <1>9 DEF RedirectAndAlert
  <2> HIDE DEF msg
  <2>4. csq' \in Seq(Messages)
    BY <2>2, <2>3 DEF TypeOK
  <2> QED
    BY <1>9, <2>4 DEF RedirectAndAlert, TypeOK
<1>10. ASSUME NEW p \in CR, NEW t \in CR, DropNewest(p, t)
       PROVE  TypeOK'
  <2>1. ASSUME NEW q \in Seq(Notification), q # <<>>
        PROVE  SubSeq(q, 1, Len(q) - 1) \in Seq(Notification)
    <3>1. Len(q) - 1 \in Int
      BY LenProperties
    <3>2. \A i \in 1..(Len(q) - 1) : q[i] \in Notification
      BY LenProperties
    <3> QED
      BY <3>1, <3>2, SubSeqProperties
  <2>2. mgmt[p][t] # <<>> => SubSeq(mgmt[p][t], 1, Len(mgmt[p][t]) - 1) \in Seq(Notification)
    BY <2>1 DEF TypeOK
  <2>3. core[p][t] # <<>> => SubSeq(core[p][t], 1, Len(core[p][t]) - 1) \in Seq(Notification)
    BY <2>1 DEF TypeOK
  <2>4. mgmt' \in [CR -> [CR -> Seq(Notification)]]
    <3> DEFINE s == SubSeq(mgmt[p][t], 1, Len(mgmt[p][t]) - 1)
    <3>1. \/ mgmt' = mgmt
          \/ s \in Seq(Notification) /\ mgmt' = [mgmt EXCEPT ![p][t] = s]
      BY <1>10, <2>2 DEF DropNewest
    <3> HIDE DEF s
    <3>2. CASE s \in Seq(Notification) /\ mgmt' = [mgmt EXCEPT ![p][t] = s]
      BY <3>2 DEF TypeOK
    <3> QED
      BY <3>1, <3>2 DEF TypeOK
  <2>5. core' \in [CR -> [CR -> Seq(Notification)]]
    <3> DEFINE s == SubSeq(core[p][t], 1, Len(core[p][t]) - 1)
    <3>1. \/ core' = core
          \/ s \in Seq(Notification) /\ core' = [core EXCEPT ![p][t] = s]
      BY <1>10, <2>3 DEF DropNewest
    <3> HIDE DEF s
    <3>2. CASE s \in Seq(Notification) /\ core' = [core EXCEPT ![p][t] = s]
      BY <3>2 DEF TypeOK
    <3> QED
      BY <3>1, <3>2 DEF TypeOK
  <2>6. lost' \in Nat
    BY <1>10 DEF DropNewest, TypeOK
  <2> QED
    BY <1>10, <2>4, <2>5, <2>6 DEF DropNewest, TypeOK
<1>11. CASE UNCHANGED vars
  BY <1>11 DEF vars, TypeOK
<1> QED
  BY <1>1, <1>2, <1>3, <1>4, <1>5, <1>6, <1>7, <1>8, <1>9, <1>10, <1>11 DEF Next, ControlStep

\* Type correctness: every table of the CS, the CRs and the APs and every
\* queue between them keeps its type in every deployment.
THEOREM TypeCorrect == Spec => []TypeOK
<1> QED
  BY InitTypeOK, NextTypeOK, PTL DEF Spec
-----------------------------------------------------------------------------
(* Where users are said to be: no table names a router, or an AP, that the *)
(* user was never at.  Both invariants rest on what the queued frames say: *)
(* a registration names an AP that has the user, an alert and a            *)
(* notification a router that has had it, and a notification never pairs   *)
(* an AP's RID with that AP's router unless that AP has the user.          *)

\* Users that no router has a local mapping row for.
Mobile(u) == \A c \in CR : LocalMapping[c][u] = None

TrueRegistrations ==
  {m \in RegisterRequest : \E a \in AP : APRID[a] = m.ap_rid /\ m.aid \in local_users[a]}

TrueAlerts ==
  {m \in MobilityAlert : Mobile(m.user_aid) => m.new_cr_rid \in Visited(m.user_aid)}

TrueNotifications ==
  {n \in Notification :
     /\ Mobile(n.aid) => n.new_cr_rid \in Visited(n.aid)
     /\ \A a \in AP : APRID[a] = n.ap_rid /\ CRRID[HomeCR[a]] = n.new_cr_rid
                        => n.aid \in local_users[a]}

\* Every queue holds only such frames.
QueuesTrue ==
  /\ acc \in [CR -> Seq(TrueRegistrations)]
  /\ csq \in Seq(TrueRegistrations \cup TrueAlerts)
  /\ mgmt \in [CR -> [CR -> Seq(TrueNotifications)]]
  /\ core \in [CR -> [CR -> Seq(TrueNotifications)]]

LocationInv == TypeOK /\ QueuesTrue /\ LocationsVisited /\ ServingAPHasUser

\* An AP that has a user keeps it, in this step.
UsersStay == \A a \in AP : local_users[a] \subseteq local_users'[a]
-----------------------------------------------------------------------------
LEMMA SeqGrows ==
  ASSUME NEW S, NEW T, S \subseteq T
  PROVE  Seq(S) \subseteq Seq(T)
<1> SUFFICES ASSUME NEW s \in Seq(S) PROVE s \in Seq(T)
  OBVIOUS
<1>1. Len(s) \in Nat /\ s \in [1..Len(s) -> T]
  BY LenProperties
<1> QED
  BY <1>1, SeqDef

LEMMA SetsGrow ==
  ASSUME UsersStay
  PROVE  /\ TrueRegistrations \subseteq TrueRegistrations'
         /\ TrueAlerts \subseteq TrueAlerts'
         /\ TrueNotifications \subseteq TrueNotifications'
         /\ \A u : Visited(u) \subseteq Visited(u)'
<1>1. \A u : Visited(u) \subseteq Visited(u)'
  BY DEF Visited, UsersStay
<1>2. TrueRegistrations \subseteq TrueRegistrations'
  BY DEF TrueRegistrations, UsersStay
<1>3. TrueAlerts \subseteq TrueAlerts'
  BY <1>1 DEF TrueAlerts, Mobile
<1>4. TrueNotifications \subseteq TrueNotifications'
  BY <1>1 DEF TrueNotifications, Mobile, UsersStay
<1> QED
  BY <1>1, <1>2, <1>3, <1>4

\* Queues that hold true frames before a step still do after it.
LEMMA QueuesStayTrue ==
  ASSUME UsersStay,
         acc' \in [CR -> Seq(TrueRegistrations)] \/ acc' \in [CR -> Seq(TrueRegistrations')],
         csq' \in Seq(TrueRegistrations \cup TrueAlerts),
         mgmt' \in [CR -> [CR -> Seq(TrueNotifications)]],
         core' \in [CR -> [CR -> Seq(TrueNotifications)]]
  PROVE  QueuesTrue'
<1>1. /\ Seq(TrueRegistrations) \subseteq Seq(TrueRegistrations')
      /\ Seq(TrueNotifications) \subseteq Seq(TrueNotifications')
      /\ Seq(TrueRegistrations \cup TrueAlerts) \subseteq Seq(TrueRegistrations' \cup TrueAlerts')
  <2>1. TrueRegistrations \cup TrueAlerts \subseteq TrueRegistrations' \cup TrueAlerts'
    BY SetsGrow
  <2> QED
    BY <2>1, SetsGrow, SeqGrows
<1>2. acc' \in [CR -> Seq(TrueRegistrations')]
  BY <1>1
<1>3. csq' \in Seq(TrueRegistrations' \cup TrueAlerts')
  BY <1>1
<1>4. mgmt' \in [CR -> [CR -> Seq(TrueNotifications')]]
  BY <1>1
<1>5. core' \in [CR -> [CR -> Seq(TrueNotifications')]]
  BY <1>1
<1> QED
  BY <1>2, <1>3, <1>4, <1>5 DEF QueuesTrue
-----------------------------------------------------------------------------
\* What the CS makes of a registration, and of an alert.
LEMMA NotificationOfRegistration ==
  ASSUME NEW m \in TrueRegistrations
  PROVE  /\ CrOfAp(m.ap_rid) \in Visited(m.aid)
         /\ [aid |-> m.aid, new_mapped_rid |-> m.mapped_rid,
             new_cr_rid |-> CrOfAp(m.ap_rid), ap_rid |-> m.ap_rid] \in TrueNotifications
<1> DEFINE n == [aid |-> m.aid, new_mapped_rid |-> m.mapped_rid,
                 new_cr_rid |-> CrOfAp(m.ap_rid), ap_rid |-> m.ap_rid]
<1>1. m \in RegisterRequest
  BY DEF TrueRegistrations
<1>2. PICK b \in AP : APRID[b] = m.ap_rid /\ m.aid \in local_users[b]
  BY DEF TrueRegistrations
<1>3. CrOfAp(m.ap_rid) = CRRID[HomeCR[b]]
  BY <1>2, ConfigIdentifiers
<1>4. CrOfAp(m.ap_rid) \in Visited(m.aid)
  BY <1>2, <1>3 DEF Visited
<1>5. n \in Notification
  BY <1>1, CrOfApType DEF RegisterRequest, Notification
<1>6. ASSUME NEW a \in AP, APRID[a] = m.ap_rid, CRRID[HomeCR[a]] = CrOfAp(m.ap_rid)
      PROVE  m.aid \in local_users[a]
  <2>1. HomeCR[a] = HomeCR[b]
    BY <1>3, <1>6, ConfigTypes, ConfigIdentifiers
  <2>2. a = b
    BY <1>2, <1>6, <2>1, ConfigIdentifiers
  <2> QED
    BY <1>2, <2>2
<1> QED
  BY <1>4, <1>5, <1>6 DEF TrueNotifications

LEMMA NotificationOfAlert ==
  ASSUME NEW m \in TrueAlerts
  PROVE  [aid |-> m.user_aid, new_mapped_rid |-> m.new_rid,
          new_cr_rid |-> m.new_cr_rid, ap_rid |-> NoRID] \in TrueNotifications
<1> DEFINE n == [aid |-> m.user_aid, new_mapped_rid |-> m.new_rid,
                 new_cr_rid |-> m.new_cr_rid, ap_rid |-> NoRID]
<1>1. n \in Notification
  BY ConfigTypes DEF TrueAlerts, MobilityAlert, Notification
<1>2. Mobile(n.aid) => n.new_cr_rid \in Visited(n.aid)
  BY DEF TrueAlerts
<1>3. \A a \in AP : APRID[a] # n.ap_rid
  BY ConfigIdentifiers
<1> HIDE DEF n
<1>4. n \in TrueNotifications
  BY <1>1, <1>2, <1>3 DEF TrueNotifications
<1> QED
  BY <1>4 DEF n

\* A notification that is true is so on every port.
LEMMA PublishTrue ==
  ASSUME QueuesTrue, NEW u, NEW mapped, NEW cr, NEW ap,
         [aid |-> u, new_mapped_rid |-> mapped, new_cr_rid |-> cr, ap_rid |-> ap]
           \in TrueNotifications,
         Publish(u, mapped, cr, ap)
  PROVE  mgmt' \in [CR -> [CR -> Seq(TrueNotifications)]]
<1> DEFINE n == [aid |-> u, new_mapped_rid |-> mapped, new_cr_rid |-> cr, ap_rid |-> ap]
<1>1. mgmt' = [p \in CR |-> [t \in CR |->
                 IF t \in ManagedCR THEN Append(mgmt[p][t], n) ELSE mgmt[p][t]]]
  BY DEF Publish
<1>2. n \in TrueNotifications
  OBVIOUS
<1> HIDE DEF n
<1>3. ASSUME NEW p \in CR, NEW t \in CR
      PROVE  (IF t \in ManagedCR THEN Append(mgmt[p][t], n) ELSE mgmt[p][t])
               \in Seq(TrueNotifications)
  <2>1. mgmt[p][t] \in Seq(TrueNotifications)
    BY DEF QueuesTrue
  <2> QED
    BY <1>2, <2>1
<1> QED
  BY <1>1, <1>3

\* A CR that handles a true notification ends with a true row and binding.
LEMMA ReceiveTrue ==
  ASSUME TypeOK, LocationsVisited, ServingAPHasUser, NEW c \in CR,
         NEW n \in TrueNotifications, Receive(c, n),
         local_users' = local_users, mappings' = mappings
  PROVE  LocationsVisited' /\ ServingAPHasUser'
<1>1. CASE Absorbs(c)
  BY <1>1 DEF Receive, cacheVars, LocationsVisited, ServingAPHasUser, Visited
<1>2. CASE ~Absorbs(c)
  <2> DEFINE row == [mapped_rid |-> n.new_mapped_rid, remote_cr_rid |-> n.new_cr_rid]
             entry == [ap_aid |-> MatchAP(c, n.ap_rid), status |-> "ONLINE"]
  <2>1. /\ remote_mappings' = [remote_mappings EXCEPT ![c][n.aid] = row]
        /\ user_statuses' = IF n.new_cr_rid = CRRID[c]
             THEN [user_statuses EXCEPT ![c][n.aid] = entry] ELSE user_statuses
    BY <1>2 DEF Receive, ApplyNotification
  <2>2. row.remote_cr_rid = n.new_cr_rid /\ entry.ap_aid = MatchAP(c, n.ap_rid)
    OBVIOUS
  <2>3. n.aid \in User /\ (Mobile(n.aid) => n.new_cr_rid \in Visited(n.aid))
    BY DEF TrueNotifications, Notification
  <2> HIDE DEF row, entry
  <2>4. ASSUME NEW u \in User, Mobile(u), NEW d \in CR, remote_mappings'[d][u] # None
        PROVE  remote_mappings'[d][u].remote_cr_rid \in Visited(u)
    <3>1. CASE d = c /\ u = n.aid
      <4>1. remote_mappings'[d][u] = row
        BY <2>1, <2>3, <3>1 DEF TypeOK
      <4> QED
        BY <2>2, <2>3, <2>4, <3>1, <4>1
    <3>2. CASE ~(d = c /\ u = n.aid)
      <4>1. remote_mappings'[d][u] = remote_mappings[d][u]
        BY <2>1, <3>2 DEF TypeOK
      <4> QED
        BY <2>4, <4>1 DEF LocationsVisited, Mobile
    <3> QED
      BY <3>1, <3>2
  <2>5. LocationsVisited'
    BY <2>4 DEF LocationsVisited, Mobile, Visited
  <2>6. ASSUME NEW d \in CR, NEW u \in User, user_statuses'[d][u] # None,
               user_statuses'[d][u].ap_aid \in AP
        PROVE  u \in local_users[user_statuses'[d][u].ap_aid]
    <3>1. CASE d = c /\ u = n.aid /\ n.new_cr_rid = CRRID[c]
      <4>1. user_statuses'[d][u] = entry
        BY <2>1, <2>3, <3>1 DEF TypeOK
      <4>2. MatchAP(c, n.ap_rid) \in AP
        BY <2>2, <2>6, <4>1
      <4>3. /\ HomeCR[MatchAP(c, n.ap_rid)] = c
            /\ APRID[MatchAP(c, n.ap_rid)] = n.ap_rid
        BY <4>2, ConfigTypes DEF MatchAP, AssociatedAPs
      <4>4. n.aid \in local_users[MatchAP(c, n.ap_rid)]
        BY <3>1, <4>2, <4>3 DEF TrueNotifications
      <4> QED
        BY <2>2, <3>1, <4>1, <4>4
    <3>2. CASE ~(d = c /\ u = n.aid /\ n.new_cr_rid = CRRID[c])
      <4>1. user_statuses'[d][u] = user_statuses[d][u]
        BY <2>1, <3>2 DEF TypeOK
      <4> QED
        BY <2>6, <4>1 DEF ServingAPHasUser
    <3> QED
      BY <3>1, <3>2
  <2>7. ServingAPHasUser'
    BY <2>6 DEF ServingAPHasUser
  <2> QED
    BY <2>5, <2>7
<1> QED
  BY <1>1, <1>2
-----------------------------------------------------------------------------
LEMMA InitLocations == Init => LocationInv
<1> SUFFICES ASSUME Init PROVE LocationInv
  OBVIOUS
<1>1. TypeOK
  BY InitTypeOK
<1>2. PICK home \in [User -> AP \cup {NoAP}] :
        /\ local_users = [a \in AP |-> {u \in User : home[u] = a}]
        /\ remote_mappings = [c \in CR |-> [u \in User |->
             IF home[u] = NoAP \/ c = HomeCR[home[u]] THEN None
             ELSE [mapped_rid |-> APRID[home[u]],
                   remote_cr_rid |-> CRRID[HomeCR[home[u]]]]]]
        /\ user_statuses = [c \in CR |-> [u \in User |->
             IF home[u] = NoAP \/ c # HomeCR[home[u]] THEN None
             ELSE [ap_aid |-> home[u], status |-> "ONLINE"]]]
  BY DEF Init
<1>3. QueuesTrue
  BY DEF Init, QueuesTrue
<1>4. \A u \in User : mappings[u] = None
  BY DEF Init
<1>5. ASSUME NEW c \in CR, NEW u \in User, remote_mappings[c][u] # None
      PROVE  remote_mappings[c][u].remote_cr_rid \in Visited(u)
  <2>1. /\ home[u] \in AP /\ u \in local_users[home[u]]
        /\ remote_mappings[c][u].remote_cr_rid = CRRID[HomeCR[home[u]]]
    BY <1>2, <1>5
  <2> QED
    BY <2>1 DEF Visited
<1>6. ASSUME NEW c \in CR, NEW u \in User, user_statuses[c][u] # None,
             user_statuses[c][u].ap_aid \in AP
      PROVE  u \in local_users[user_statuses[c][u].ap_aid]
  BY <1>2, <1>6
<1> QED
  BY <1>1, <1>3, <1>4, <1>5, <1>6 DEF LocationInv, LocationsVisited, ServingAPHasUser

\* Tables that a step leaves alone stay true.
LEMMA TablesStayTrue ==
  ASSUME UsersStay, LocationsVisited, ServingAPHasUser, mappings' = mappings,
         remote_mappings' = remote_mappings, user_statuses' = user_statuses
  PROVE  LocationsVisited' /\ ServingAPHasUser'
<1>1. LocationsVisited'
  BY SetsGrow DEF LocationsVisited
<1>2. ServingAPHasUser'
  BY DEF ServingAPHasUser, UsersStay
<1> QED
  BY <1>1, <1>2

\* The registry takes a row for u that names a router u has been at.
LEMMA RegistryTrue ==
  ASSUME TypeOK, LocationsVisited, ServingAPHasUser, NEW u \in User, NEW row,
         Mobile(u) => row.remote_cr_rid \in Visited(u),
         mappings' = [mappings EXCEPT ![u] = row], local_users' = local_users,
         remote_mappings' = remote_mappings, user_statuses' = user_statuses
  PROVE  LocationsVisited' /\ ServingAPHasUser'
<1>1. ASSUME NEW v \in User, Mobile(v), mappings'[v] # None
      PROVE  mappings'[v].remote_cr_rid \in Visited(v)
  BY <1>1 DEF TypeOK, LocationsVisited, Mobile
<1>2. LocationsVisited'
  BY <1>1 DEF LocationsVisited, Mobile, Visited
<1>3. ServingAPHasUser'
  BY DEF ServingAPHasUser
<1> QED
  BY <1>2, <1>3

LEMMA NextLocations == LocationInv /\ [Next]_vars => LocationInv'
<1> SUFFICES ASSUME LocationInv, [Next]_vars PROVE LocationInv'
  OBVIOUS
<1> USE DEF cacheVars, wireVars, envVars
<1>1. TypeOK /\ QueuesTrue /\ LocationsVisited /\ ServingAPHasUser
  BY DEF LocationInv
<1>2. TypeOK'
  BY <1>1, NextTypeOK
<1>3. local_users' = local_users => UsersStay
  BY DEF UsersStay
<1>4. ASSUME NEW a \in AP, NEW u \in User, ActivateUser(a, u)
      PROVE  LocationInv'
  <2> DEFINE m == [type |-> "register", aid |-> u, mapped_rid |-> CRRID[HomeCR[a]],
                   ap_rid |-> APRID[a]]
  <2>1. local_users' = [local_users EXCEPT ![a] = @ \cup {u}]
    BY <1>4 DEF ActivateUser, PostAuthProcedures
  <2>2. UsersStay /\ u \in local_users'[a]
    BY <1>1, <2>1 DEF UsersStay, TypeOK
  <2>3. m \in TrueRegistrations'
    <3>1. m \in RegisterRequest
      BY ConfigTypes DEF RegisterRequest
    <3> QED
      BY <2>2, <3>1 DEF TrueRegistrations
  <2>4. acc' = [acc EXCEPT ![HomeCR[a]] = Append(@, m)] /\ HomeCR[a] \in CR
    BY <1>4, ConfigTypes DEF ActivateUser, PostAuthProcedures
  <2> HIDE DEF m
  <2>5. acc \in [CR -> Seq(TrueRegistrations')]
    <3>1. Seq(TrueRegistrations) \subseteq Seq(TrueRegistrations')
      BY <2>2, SetsGrow, SeqGrows
    <3> QED
      BY <1>1, <3>1 DEF QueuesTrue
  <2>6. acc' \in [CR -> Seq(TrueRegistrations')]
    BY <2>3, <2>4, <2>5
  <2>7. QueuesTrue'
    BY <1>1, <1>4, <2>2, <2>6, QueuesStayTrue DEF ActivateUser, PostAuthProcedures, QueuesTrue
  <2>8. LocationsVisited' /\ ServingAPHasUser'
    BY <1>1, <1>4, <2>2, TablesStayTrue DEF ActivateUser, PostAuthProcedures
  <2> QED
    BY <1>2, <2>7, <2>8 DEF LocationInv
<1>5. ASSUME NEW c \in CR, ForwardToCS(c)
      PROVE  LocationInv'
  <2>1. acc[c] \in Seq(TrueRegistrations) /\ acc[c] # <<>>
    BY <1>1, <1>5 DEF ForwardToCS, QueuesTrue
  <2>2. Head(acc[c]) \in TrueRegistrations /\ Tail(acc[c]) \in Seq(TrueRegistrations)
    BY <2>1
  <2>3. acc' \in [CR -> Seq(TrueRegistrations)]
    BY <1>1, <1>5, <2>2 DEF ForwardToCS, QueuesTrue
  <2>4. csq' \in Seq(TrueRegistrations \cup TrueAlerts)
    BY <1>1, <1>5, <2>2 DEF ForwardToCS, QueuesTrue
  <2>5. QueuesTrue'
    BY <1>1, <1>3, <1>5, <2>3, <2>4, QueuesStayTrue DEF ForwardToCS, QueuesTrue
  <2>6. LocationsVisited' /\ ServingAPHasUser'
    BY <1>1, <1>3, <1>5, TablesStayTrue DEF ForwardToCS
  <2> QED
    BY <1>2, <2>5, <2>6 DEF LocationInv
<1>6. ASSUME csq # <<>>
      PROVE  /\ Head(csq) \in TrueRegistrations \cup TrueAlerts
             /\ Tail(csq) \in Seq(TrueRegistrations \cup TrueAlerts)
  BY <1>1, <1>6 DEF QueuesTrue
<1>7. CASE HandleRegister
  <2> DEFINE m == Head(csq)
             cr == CrOfAp(m.ap_rid)
             row == [mapped_rid |-> m.mapped_rid, remote_cr_rid |-> cr]
  <2>1. m \in TrueRegistrations /\ Tail(csq) \in Seq(TrueRegistrations \cup TrueAlerts)
    BY <1>6, <1>7 DEF HandleRegister, TrueAlerts, MobilityAlert
  <2>2. m.aid \in User /\ row.remote_cr_rid = cr /\ cr \in Visited(m.aid)
    BY <2>1, NotificationOfRegistration DEF TrueRegistrations, RegisterRequest
  <2>3. /\ mappings' = [mappings EXCEPT ![m.aid] = row]
        /\ Publish(m.aid, m.mapped_rid, cr, m.ap_rid)
    BY <1>7 DEF HandleRegister
  <2>4. [aid |-> m.aid, new_mapped_rid |-> m.mapped_rid, new_cr_rid |-> cr,
         ap_rid |-> m.ap_rid] \in TrueNotifications
    BY <2>1, NotificationOfRegistration
  <2> HIDE DEF m, cr, row
  <2>5. mgmt' \in [CR -> [CR -> Seq(TrueNotifications)]]
    BY <1>1, <2>3, <2>4, PublishTrue
  <2>6. QueuesTrue'
    BY <1>1, <1>3, <1>7, <2>1, <2>5, QueuesStayTrue DEF HandleRegister, QueuesTrue
  <2>7. LocationsVisited' /\ ServingAPHasUser'
    BY <1>1, <1>7, <2>2, <2>3, RegistryTrue DEF HandleRegister
  <2> QED
    BY <1>2, <2>6, <2>7 DEF LocationInv
<1>8. CASE HandleMobility
  <2> DEFINE m == Head(csq)
             row == [mapped_rid |-> m.new_rid, remote_cr_rid |-> m.new_cr_rid]
  <2>1. m \in TrueAlerts /\ Tail(csq) \in Seq(TrueRegistrations \cup TrueAlerts)
    BY <1>6, <1>8 DEF HandleMobility, TrueRegistrations, RegisterRequest
  <2>2. /\ m.user_aid \in User /\ row.remote_cr_rid = m.new_cr_rid
        /\ Mobile(m.user_aid) => m.new_cr_rid \in Visited(m.user_aid)
    BY <2>1 DEF TrueAlerts, MobilityAlert
  <2>3. /\ mappings' = [mappings EXCEPT ![m.user_aid] = row]
        /\ Publish(m.user_aid, m.new_rid, m.new_cr_rid, NoRID)
    BY <1>8 DEF HandleMobility
  <2>4. [aid |-> m.user_aid, new_mapped_rid |-> m.new_rid, new_cr_rid |-> m.new_cr_rid,
         ap_rid |-> NoRID] \in TrueNotifications
    BY <2>1, NotificationOfAlert
  <2> HIDE DEF m, row
  <2>5. mgmt' \in [CR -> [CR -> Seq(TrueNotifications)]]
    BY <1>1, <2>3, <2>4, PublishTrue
  <2>6. QueuesTrue'
    BY <1>1, <1>3, <1>8, <2>1, <2>5, QueuesStayTrue DEF HandleMobility, QueuesTrue
  <2>7. LocationsVisited' /\ ServingAPHasUser'
    BY <1>1, <1>8, <2>2, <2>3, RegistryTrue DEF HandleMobility
  <2> QED
    BY <1>2, <2>6, <2>7 DEF LocationInv
<1>9. ASSUME NEW c \in CR, HandleNotification(c)
      PROVE  LocationInv'
  <2>1. mgmt[c][c] \in Seq(TrueNotifications) /\ mgmt[c][c] # <<>>
    BY <1>1, <1>9 DEF HandleNotification, QueuesTrue
  <2>2. /\ Head(mgmt[c][c]) \in TrueNotifications
        /\ Tail(mgmt[c][c]) \in Seq(TrueNotifications)
    BY <2>1
  <2>3. mgmt' \in [CR -> [CR -> Seq(TrueNotifications)]]
    BY <1>1, <1>9, <2>2 DEF HandleNotification, QueuesTrue
  <2>4. QueuesTrue'
    BY <1>1, <1>3, <1>9, <2>3, QueuesStayTrue DEF HandleNotification, QueuesTrue
  <2>5. LocationsVisited' /\ ServingAPHasUser'
    BY <1>1, <1>9, <2>2, ReceiveTrue DEF HandleNotification
  <2> QED
    BY <1>2, <2>4, <2>5 DEF LocationInv
<1>10. ASSUME NEW p \in CR, NEW t \in CR, HandleFlooded(p, t)
       PROVE  LocationInv'
  <2>1. /\ mgmt[p][t] \in Seq(TrueNotifications) /\ mgmt[p][t] # <<>>
        /\ core[p][t] \in Seq(TrueNotifications)
    BY <1>1, <1>10 DEF HandleFlooded, QueuesTrue
  <2>2. /\ Tail(mgmt[p][t]) \in Seq(TrueNotifications)
        /\ Append(core[p][t], Head(mgmt[p][t])) \in Seq(TrueNotifications)
    BY <2>1
  <2>3. mgmt' \in [CR -> [CR -> Seq(TrueNotifications)]]
    BY <1>1, <1>10, <2>2 DEF HandleFlooded, QueuesTrue
  <2>4. core' \in [CR -> [CR -> Seq(TrueNotifications)]]
    BY <1>1, <1>10, <2>2 DEF HandleFlooded, QueuesTrue
  <2>5. QueuesTrue'
    BY <1>1, <1>3, <1>10, <2>3, <2>4, QueuesStayTrue DEF HandleFlooded, QueuesTrue
  <2>6. LocationsVisited' /\ ServingAPHasUser'
    BY <1>1, <1>3, <1>10, TablesStayTrue DEF HandleFlooded
  <2> QED
    BY <1>2, <2>5, <2>6 DEF LocationInv
<1>11. ASSUME NEW p \in CR, NEW t \in CR, HandleRelayed(p, t)
       PROVE  LocationInv'
  <2>1. core[p][t] \in Seq(TrueNotifications) /\ core[p][t] # <<>>
    BY <1>1, <1>11 DEF HandleRelayed, QueuesTrue
  <2>2. /\ Head(core[p][t]) \in TrueNotifications
        /\ Tail(core[p][t]) \in Seq(TrueNotifications)
    BY <2>1
  <2>3. core' \in [CR -> [CR -> Seq(TrueNotifications)]]
    BY <1>1, <1>11, <2>2 DEF HandleRelayed, QueuesTrue
  <2>4. QueuesTrue'
    BY <1>1, <1>3, <1>11, <2>3, QueuesStayTrue DEF HandleRelayed, QueuesTrue
  <2>5. LocationsVisited' /\ ServingAPHasUser'
    BY <1>1, <1>11, <2>2, ReceiveTrue DEF HandleRelayed
  <2> QED
    BY <1>2, <2>4, <2>5 DEF LocationInv
<1>12. ASSUME NEW c \in CR, NEW u \in User, NEW s \in Status, SetUserStatus(c, u, s)
       PROVE  LocationInv'
  <2>1. QueuesTrue'
    BY <1>1, <1>3, <1>12, QueuesStayTrue DEF SetUserStatus, QueuesTrue
  <2>2. LocationsVisited'
    BY <1>1, <1>12 DEF SetUserStatus, LocationsVisited, Visited
  <2>3. PICK a \in NamedAP(c, u) : Written(c, u, [ap_aid |-> a, status |-> s])
    BY <1>1, <1>12, SetUserStatusStep
  <2>4. a \in AP => u \in local_users[a]
    <3>1. CASE user_statuses[c][u] # None
      BY <1>1, <3>1 DEF NamedAP, ServingAPHasUser
    <3>2. CASE user_statuses[c][u] = None
      BY <3>2 DEF NamedAP
    <3> QED
      BY <3>1, <3>2
  <2>5. local_users' = local_users
    BY <1>12 DEF SetUserStatus
  <2>6. ASSUME NEW d \in CR, NEW v \in User, user_statuses'[d][v] # None,
               user_statuses'[d][v].ap_aid \in AP
        PROVE  v \in local_users[user_statuses'[d][v].ap_aid]
    <3>1. CASE d = c /\ v = u
      BY <2>3, <2>4, <2>6, <3>1 DEF Written
    <3>2. CASE ~(d = c /\ v = u)
      <4>1. user_statuses'[d][v] = user_statuses[d][v]
        BY <2>3, <3>2 DEF Written
      <4> QED
        BY <1>1, <2>6, <4>1 DEF ServingAPHasUser
    <3> QED
      BY <3>1, <3>2
  <2>7. ServingAPHasUser'
    BY <2>5, <2>6 DEF ServingAPHasUser
  <2> QED
    BY <1>2, <2>1, <2>2, <2>7 DEF LocationInv
<1>13. ASSUME NEW c \in CR, NEW u \in User, RedirectAndAlert(c, u)
       PROVE  LocationInv'
  <2> DEFINE row == LookupAnyMapping(c, u)
             m == [type |-> "alert", user_aid |-> u, new_rid |-> row.mapped_rid,
                   new_cr_rid |-> row.remote_cr_rid]
  <2>1. row \in Mapping /\ row # None
    BY <1>1, <1>13, LookupType DEF RedirectAndAlert
  <2>2. m \in MobilityAlert
    BY <2>1 DEF Mapping, MobilityAlert
  <2>3. Mobile(u) => row.remote_cr_rid \in Visited(u)
    BY <1>1, <2>1 DEF Mobile, LookupAnyMapping, LocationsVisited
  <2>4. m \in TrueAlerts
    BY <2>2, <2>3 DEF TrueAlerts
  <2>5. csq' = Append(csq, m)
    BY <1>13 DEF RedirectAndAlert
  <2> HIDE DEF m, row
  <2>6. csq' \in Seq(TrueRegistrations \cup TrueAlerts)
    BY <1>1, <2>4, <2>5 DEF QueuesTrue
  <2>7. QueuesTrue'
    BY <1>1, <1>3, <1>13, <2>6, QueuesStayTrue DEF RedirectAndAlert, QueuesTrue
  <2>8. LocationsVisited' /\ ServingAPHasUser'
    BY <1>1, <1>3, <1>13, TablesStayTrue DEF RedirectAndAlert
  <2> QED
    BY <1>2, <2>7, <2>8 DEF LocationInv
<1>14. ASSUME NEW p \in CR, NEW t \in CR, DropNewest(p, t)
       PROVE  LocationInv'
  <2>1. ASSUME NEW q \in Seq(TrueNotifications), q # <<>>
        PROVE  SubSeq(q, 1, Len(q) - 1) \in Seq(TrueNotifications)
    <3>1. Len(q) - 1 \in Int
      BY LenProperties
    <3>2. \A i \in 1..(Len(q) - 1) : q[i] \in TrueNotifications
      BY LenProperties
    <3> QED
      BY <3>1, <3>2, SubSeqProperties
  <2>2. mgmt' \in [CR -> [CR -> Seq(TrueNotifications)]]
    <3> DEFINE s == SubSeq(mgmt[p][t], 1, Len(mgmt[p][t]) - 1)
    <3>1. \/ mgmt' = mgmt
          \/ mgmt[p][t] # <<>> /\ mgmt' = [mgmt EXCEPT ![p][t] = s]
      BY <1>14 DEF DropNewest
    <3>2. mgmt[p][t] # <<>> => s \in Seq(TrueNotifications)
      BY <1>1, <2>1 DEF QueuesTrue
    <3> HIDE DEF s
    <3>3. mgmt \in [CR -> [CR -> Seq(TrueNotifications)]]
      BY <1>1 DEF QueuesTrue
    <3>4. CASE s \in Seq(TrueNotifications) /\ mgmt' = [mgmt EXCEPT ![p][t] = s]
      BY <3>3, <3>4
    <3> QED
      BY <3>1, <3>2, <3>3, <3>4
  <2>3. core' \in [CR -> [CR -> Seq(TrueNotifications)]]
    <3> DEFINE s == SubSeq(core[p][t], 1, Len(core[p][t]) - 1)
    <3>1. \/ core' = core
          \/ core[p][t] # <<>> /\ core' = [core EXCEPT ![p][t] = s]
      BY <1>14 DEF DropNewest
    <3>2. core[p][t] # <<>> => s \in Seq(TrueNotifications)
      BY <1>1, <2>1 DEF QueuesTrue
    <3> HIDE DEF s
    <3>3. core \in [CR -> [CR -> Seq(TrueNotifications)]]
      BY <1>1 DEF QueuesTrue
    <3>4. CASE s \in Seq(TrueNotifications) /\ core' = [core EXCEPT ![p][t] = s]
      BY <3>3, <3>4
    <3> QED
      BY <3>1, <3>2, <3>3, <3>4
  <2>4. QueuesTrue'
    BY <1>1, <1>3, <1>14, <2>2, <2>3, QueuesStayTrue DEF DropNewest, QueuesTrue
  <2>5. LocationsVisited' /\ ServingAPHasUser'
    BY <1>1, <1>3, <1>14, TablesStayTrue DEF DropNewest
  <2> QED
    BY <1>2, <2>4, <2>5 DEF LocationInv
<1>15. CASE UNCHANGED vars
  <2>1. QueuesTrue'
    BY <1>1, <1>3, <1>15, QueuesStayTrue DEF vars, QueuesTrue
  <2>2. LocationsVisited' /\ ServingAPHasUser'
    BY <1>1, <1>3, <1>15, TablesStayTrue DEF vars
  <2> QED
    BY <1>2, <2>1, <2>2 DEF LocationInv
<1> QED
  BY <1>4, <1>5, <1>7, <1>8, <1>9, <1>10, <1>11, <1>12, <1>13, <1>14, <1>15
  DEF Next, ControlStep

LEMMA LocationInvariant == Spec => []LocationInv
<1> QED
  BY InitLocations, NextLocations, PTL DEF Spec

\* No alert, stale copy or loss invents a location: the registry and every
\* cache name a router the user was really at, in every deployment.
THEOREM LocationsVisitedAlways == Spec => []LocationsVisited
<1> QED
  BY LocationInvariant, PTL DEF LocationInv

\* A router never binds a user to an AP that does not have it.
THEOREM ServingAPHasUserAlways == Spec => []ServingAPHasUser
<1> QED
  BY LocationInvariant, PTL DEF LocationInv
-----------------------------------------------------------------------------
(* The control plane implements Registry: what its tables say of places,   *)
(* seen apart from the frames that bring it, changes only as Registry lets *)
(* it.  An attachment is Attach, the CS's handlers are Register, a router  *)
(* that applies a notification learns, and all else is invisible.  That    *)
(* queued frames name places of their user is LocationInv's part.          *)

LEMMA RowPlace ==
  ASSUME NEW row \in Mapping
  PROVE  PlaceOf(row) = row.remote_cr_rid /\ PlaceOf(row) \in RID
<1> QED
  BY ConfigTypes DEF PlaceOf, Mapping

\* An attachment adds one place.
LEMMA AttachStep ==
  ASSUME TypeOK, NEW a \in AP, NEW u \in User, ActivateUser(a, u)
  PROVE  Promised!Next
<1>1. local_users' = [local_users EXCEPT ![a] = @ \cup {u}]
  BY DEF ActivateUser, PostAuthProcedures
<1>2. CRRID[HomeCR[a]] \in RID
  BY ConfigTypes
<1>3. ASSUME NEW v \in User
      PROVE  Visited(v)' = IF v = u THEN Visited(u) \cup {CRRID[HomeCR[a]]} ELSE Visited(v)
  BY <1>1 DEF Visited, TypeOK
<1>4. [v \in User |-> Visited(v)]'
        = [[v \in User |-> Visited(v)] EXCEPT ![u] = @ \cup {CRRID[HomeCR[a]]}]
  BY <1>3
<1>5. UNCHANGED <<mappings, remote_mappings>>
  BY DEF ActivateUser, PostAuthProcedures, cacheVars
<1>6. /\ [v \in User |-> PlaceOf(mappings[v])]' = [v \in User |-> PlaceOf(mappings[v])]
      /\ [c \in CR |-> [v \in User |-> PlaceOf(remote_mappings[c][v])]]'
           = [c \in CR |-> [v \in User |-> PlaceOf(remote_mappings[c][v])]]
  BY <1>5 DEF PlaceOf
<1>7. Promised!Attach(u, CRRID[HomeCR[a]])
  BY <1>4, <1>6 DEF Promised!Attach
<1> QED
  BY <1>2, <1>7 DEF Promised!Next

\* The registry's row of one user is replaced.
LEMMA RegisterStep ==
  ASSUME TypeOK, NEW u \in User, NEW row \in Mapping,
         row.remote_cr_rid \in Visited(u),
         mappings' = [mappings EXCEPT ![u] = row],
         UNCHANGED <<local_users, remote_mappings>>
  PROVE  Promised!Next
<1> DEFINE p == row.remote_cr_rid
<1>1. p \in RID /\ PlaceOf(row) = p
  BY RowPlace
<1>2. ASSUME NEW v \in User
      PROVE  PlaceOf(mappings[v])' = IF v = u THEN p ELSE PlaceOf(mappings[v])
  BY <1>1 DEF TypeOK, PlaceOf
<1>3. [v \in User |-> PlaceOf(mappings[v])]'
        = [[v \in User |-> PlaceOf(mappings[v])] EXCEPT ![u] = p]
  BY <1>2
<1>4. /\ [v \in User |-> Visited(v)]' = [v \in User |-> Visited(v)]
      /\ [c \in CR |-> [v \in User |-> PlaceOf(remote_mappings[c][v])]]'
           = [c \in CR |-> [v \in User |-> PlaceOf(remote_mappings[c][v])]]
  BY DEF Visited, PlaceOf
<1>5. p \in [v \in User |-> Visited(v)][u]
  OBVIOUS
<1>6. Promised!Register(u, p)
  BY <1>3, <1>4, <1>5 DEF Promised!Register
<1> QED
  BY <1>1, <1>6 DEF Promised!Next

\* A router that handles a true notification learns one place, or nothing.
LEMMA LearnStep ==
  ASSUME TypeOK, NEW c \in CR, NEW n \in TrueNotifications, Mobile(n.aid),
         Receive(c, n), UNCHANGED <<local_users, mappings>>
  PROVE  Promised!Next \/ UNCHANGED Promised!vars
<1> DEFINE row == [mapped_rid |-> n.new_mapped_rid, remote_cr_rid |-> n.new_cr_rid]
           p == n.new_cr_rid
           copies == [d \in CR |-> [v \in User |-> PlaceOf(remote_mappings[d][v])]]
<1>1. /\ [v \in User |-> Visited(v)]' = [v \in User |-> Visited(v)]
      /\ [v \in User |-> PlaceOf(mappings[v])]' = [v \in User |-> PlaceOf(mappings[v])]
  BY DEF Visited, PlaceOf
<1>2. CASE Absorbs(c)
  <2>1. remote_mappings' = remote_mappings
    BY <1>2 DEF Receive, cacheVars
  <2>2. copies' = copies
    BY <2>1 DEF PlaceOf
  <2> QED
    BY <1>1, <2>2 DEF Promised!vars
<1>3. CASE ~Absorbs(c)
  <2>1. remote_mappings' = [remote_mappings EXCEPT ![c][n.aid] = row]
    BY <1>3 DEF Receive, ApplyNotification
  <2>2. n.aid \in User /\ row \in Mapping /\ p \in Visited(n.aid)
    BY DEF TrueNotifications, Notification, Mapping
  <2>3. row.remote_cr_rid = p
    OBVIOUS
  <2>4. p \in RID /\ PlaceOf(row) = p
    BY <2>2, <2>3, RowPlace
  <2> HIDE DEF row, p
  <2>5. ASSUME NEW d \in CR, NEW v \in User
        PROVE  PlaceOf(remote_mappings[d][v])'
                 = IF d = c /\ v = n.aid THEN p ELSE PlaceOf(remote_mappings[d][v])
    BY <2>1, <2>2, <2>4 DEF TypeOK, PlaceOf
  <2>6. copies' = [copies EXCEPT ![c] = [@ EXCEPT ![n.aid] = p]]
    BY <2>2, <2>5
  <2>7. p \in [v \in User |-> Visited(v)][n.aid]
    BY <2>2
  <2>8. Promised!Learn(c, n.aid, p)
    BY <1>1, <2>6, <2>7 DEF Promised!Learn
  <2> QED
    BY <2>2, <2>4, <2>8 DEF Promised!Next
<1> QED
  BY <1>2, <1>3

\* A step that leaves users and tables alone is invisible.
LEMMA InvisibleStep ==
  ASSUME UNCHANGED <<local_users, mappings, remote_mappings>>
  PROVE  UNCHANGED Promised!vars
<1> QED
  BY DEF Promised!vars, Visited, PlaceOf
-----------------------------------------------------------------------------
LEMMA InitPromised == Init => Promised!Init
<1> SUFFICES ASSUME Init PROVE Promised!Init
  OBVIOUS
<1> DEFINE visited == [u \in User |-> Visited(u)]
           copies == [c \in CR |-> [u \in User |-> PlaceOf(remote_mappings[c][u])]]
<1>1. TypeOK
  BY InitTypeOK
<1>2. PICK home \in [User -> AP \cup {NoAP}] :
        /\ local_users = [a \in AP |-> {u \in User : home[u] = a}]
        /\ remote_mappings = [c \in CR |-> [u \in User |->
             IF home[u] = NoAP \/ c = HomeCR[home[u]] THEN None
             ELSE [mapped_rid |-> APRID[home[u]],
                   remote_cr_rid |-> CRRID[HomeCR[home[u]]]]]]
  BY DEF Init
<1>3. visited \in [User -> SUBSET RID]
  <2>1. \A u \in User : Visited(u) \subseteq RID
    BY ConfigTypes DEF Visited
  <2> QED
    BY <2>1
<1>4. [u \in User |-> PlaceOf(mappings[u])] = [u \in User |-> None]
  BY DEF Init, PlaceOf
<1>5. ASSUME NEW c \in CR, NEW u \in User
      PROVE  /\ PlaceOf(remote_mappings[c][u]) \in Visited(u) \cup {None}
             /\ PlaceOf(remote_mappings[c][u]) \in RID \cup {None}
  <2>1. CASE remote_mappings[c][u] = None
    BY <2>1 DEF PlaceOf
  <2>2. CASE remote_mappings[c][u] # None
    <3>1. /\ home[u] \in AP /\ u \in local_users[home[u]]
          /\ remote_mappings[c][u].remote_cr_rid = CRRID[HomeCR[home[u]]]
      BY <1>2, <2>2
    <3>2. remote_mappings[c][u].remote_cr_rid \in Visited(u)
      BY <3>1 DEF Visited
    <3>3. remote_mappings[c][u].remote_cr_rid \in RID
      BY <3>1, ConfigTypes
    <3> QED
      BY <2>2, <3>2, <3>3 DEF PlaceOf
  <2> QED
    BY <2>1, <2>2
<1>6. copies \in [CR -> [User -> RID \cup {None}]]
  BY <1>5
<1>7. \A c \in CR, u \in User : copies[c][u] \in visited[u] \cup {None}
  BY <1>5
<1> QED
  BY <1>3, <1>4, <1>6, <1>7 DEF Promised!Init

LEMMA NextPromised ==
  ASSUME \A u \in User : Mobile(u), LocationInv, [Next]_vars
  PROVE  Promised!Next \/ UNCHANGED Promised!vars
<1> USE DEF cacheVars, wireVars, envVars
<1>1. TypeOK /\ QueuesTrue
  BY DEF LocationInv
<1>2. ASSUME NEW a \in AP, NEW u \in User, ActivateUser(a, u)
      PROVE  Promised!Next
  BY <1>1, <1>2, AttachStep
<1>3. ASSUME csq # <<>>
      PROVE  Head(csq) \in TrueRegistrations \cup TrueAlerts
  BY <1>1, <1>3 DEF QueuesTrue
<1>4. CASE HandleRegister
  <2> DEFINE m == Head(csq)
             row == [mapped_rid |-> m.mapped_rid, remote_cr_rid |-> CrOfAp(m.ap_rid)]
  <2>1. m \in TrueRegistrations
    BY <1>3, <1>4 DEF HandleRegister, TrueAlerts, MobilityAlert
  <2>2. m.aid \in User /\ row \in Mapping
    BY <2>1, CrOfApType DEF TrueRegistrations, RegisterRequest, Mapping
  <2>3. row.remote_cr_rid \in Visited(m.aid)
    BY <2>1, NotificationOfRegistration
  <2>4. mappings' = [mappings EXCEPT ![m.aid] = row]
    BY <1>4 DEF HandleRegister
  <2>5. UNCHANGED <<local_users, remote_mappings>>
    BY <1>4 DEF HandleRegister
  <2> HIDE DEF m, row
  <2> QED
    BY <1>1, <2>2, <2>3, <2>4, <2>5, RegisterStep
<1>5. CASE HandleMobility
  <2> DEFINE m == Head(csq)
             row == [mapped_rid |-> m.new_rid, remote_cr_rid |-> m.new_cr_rid]
  <2>1. m \in TrueAlerts
    BY <1>3, <1>5 DEF HandleMobility, TrueRegistrations, RegisterRequest
  <2>2. m.user_aid \in User /\ row \in Mapping
    BY <2>1 DEF TrueAlerts, MobilityAlert, Mapping
  <2>3. row.remote_cr_rid \in Visited(m.user_aid)
    BY <2>1, <2>2 DEF TrueAlerts
  <2>4. mappings' = [mappings EXCEPT ![m.user_aid] = row]
    BY <1>5 DEF HandleMobility
  <2>5. UNCHANGED <<local_users, remote_mappings>>
    BY <1>5 DEF HandleMobility
  <2> HIDE DEF m, row
  <2> QED
    BY <1>1, <2>2, <2>3, <2>4, <2>5, RegisterStep
<1>6. ASSUME NEW c \in CR, HandleNotification(c)
      PROVE  Promised!Next \/ UNCHANGED Promised!vars
  <2>1. Head(mgmt[c][c]) \in TrueNotifications
    BY <1>1, <1>6 DEF HandleNotification, QueuesTrue
  <2>2. Head(mgmt[c][c]).aid \in User
    BY <2>1 DEF TrueNotifications, Notification
  <2> QED
    BY <1>1, <1>6, <2>1, <2>2, LearnStep DEF HandleNotification
<1>7. ASSUME NEW p \in CR, NEW t \in CR, HandleRelayed(p, t)
      PROVE  Promised!Next \/ UNCHANGED Promised!vars
  <2>1. Head(core[p][t]) \in TrueNotifications
    BY <1>1, <1>7 DEF HandleRelayed, QueuesTrue
  <2>2. Head(core[p][t]).aid \in User
    BY <2>1 DEF TrueNotifications, Notification
  <2> QED
    BY <1>1, <1>7, <2>1, <2>2, LearnStep DEF HandleRelayed
<1>8. ASSUME \/ \E c \in CR : ForwardToCS(c)
             \/ \E p, t \in CR : HandleFlooded(p, t) \/ DropNewest(p, t)
             \/ \E c \in CR, u \in User : RedirectAndAlert(c, u) \/ \E s \in Status : SetUserStatus(c, u, s)
             \/ UNCHANGED vars
      PROVE  UNCHANGED Promised!vars
  <2>1. UNCHANGED <<local_users, mappings, remote_mappings>>
    BY <1>8 DEF ForwardToCS, HandleFlooded, DropNewest, SetUserStatus, RedirectAndAlert, vars
  <2> QED
    BY <2>1, InvisibleStep
<1> QED
  BY <1>2, <1>4, <1>5, <1>6, <1>7, <1>8 DEF Next, ControlStep

\* Whatever is lost, relayed, reordered or alerted, in every deployment without
\* local mapping rows of users: the control plane implements Registry.
THEOREM RegistryImplemented ==
  ASSUME \A u \in User : Mobile(u)
  PROVE  Spec => RegistryRefined
<1>1. LocationInv /\ [Next]_vars => [Promised!Next]_Promised!vars
  BY NextPromised
<1> QED
  BY <1>1, InitPromised, LocationInvariant, PTL DEF Spec, RegistryRefined, Promised!Spec
-----------------------------------------------------------------------------
(* A CR agrees with the registry about every user that nothing on its way   *)
(* to the CR mentions (Converged, BindingAgrees).                           *)
(*                                                                          *)
(* Relayed copies overtake and overwrite newer rows, so "the cache is at    *)
(* most as old as ..." is not invariant.  What is invariant is that the     *)
(* last word of every channel leading to the CR is the CS's last word:      *)
(* whichever channel is drained last, it leaves the newest row behind.      *)

\* The last notification in q about u is n.
Ends(q, u, n) ==
  \E i \in 1..Len(q) : q[i].aid = u /\ q[i] = n
                         /\ \A j \in 1..Len(q) : j > i => q[j].aid # u

\* The row a notification installs.
Row(n) == [mapped_rid |-> n.new_mapped_rid, remote_cr_rid |-> n.new_cr_rid]

\* The CS's registry is what its last notification about the user says.
RegistryMatches ==
  \A u \in User : last[u] # None => last[u].aid = u /\ mappings[u] = Row(last[u])

\* Only a relay fills a core link, and no CR relays to itself.
CoreOnlyRelays ==
  \A p, t \in CR : core[p][t] # <<>> => <<p, t>> \in Relay /\ p # t

\* What p's port still holds for c about u ends in the CS's last word; when
\* it holds nothing, what p has relayed to c does.
ChannelEnds(p, c, u) ==
  IF Mentions(mgmt[p][c], u)
  THEN Ends(mgmt[p][c], u, last[u])
  ELSE Mentions(core[p][c], u) => Ends(core[p][c], u, last[u])

\* c's tables agree with the CS's last word about u.
Agrees(c, u) ==
  /\ remote_mappings[c][u] = Row(last[u])
  /\ last[u].new_cr_rid = CRRID[c]
       => /\ user_statuses[c][u] # None
          /\ user_statuses[c][u].ap_aid = MatchAP(c, last[u].ap_rid)

LastWordAt(c, u) ==
  /\ \A p \in Feeders(c) : ChannelEnds(p, c, u)
  /\ Settled(c, u) => Agrees(c, u)

LastWord ==
  lost = 0 => \A c \in CR, u \in User :
                Listens(c) /\ last[u] # None => LastWordAt(c, u)

ConvergenceInv == TypeOK /\ RegistryMatches /\ CoreOnlyRelays /\ LastWord
-----------------------------------------------------------------------------
(* What taking the oldest notification off a queue and adding one at its   *)
(* end do to Mentions and Ends.                                            *)

LEMMA TailMentions ==
  ASSUME NEW q \in Seq(Notification), q # <<>>, NEW u \in User
  PROVE  Mentions(q, u) <=> Head(q).aid = u \/ Mentions(Tail(q), u)
<1>1. /\ Len(q) \in Nat \ {0} /\ Len(Tail(q)) = Len(q) - 1 /\ Head(q) = q[1]
      /\ \A i \in 1..Len(Tail(q)) : Tail(q)[i] = q[i + 1]
  BY HeadTailProperties, EmptySeq
<1>2. ASSUME Mentions(q, u)
      PROVE  Head(q).aid = u \/ Mentions(Tail(q), u)
  <2>1. PICK i \in 1..Len(q) : q[i].aid = u
    BY <1>2 DEF Mentions
  <2>2. CASE i = 1
    BY <1>1, <2>1, <2>2
  <2>3. CASE i # 1
    <3>1. i - 1 \in 1..Len(Tail(q)) /\ Tail(q)[i - 1] = q[i]
      BY <1>1, <2>3
    <3> QED
      BY <2>1, <3>1 DEF Mentions
  <2> QED
    BY <2>2, <2>3
<1>3. ASSUME Head(q).aid = u
      PROVE  Mentions(q, u)
  BY <1>1, <1>3 DEF Mentions
<1>4. ASSUME Mentions(Tail(q), u)
      PROVE  Mentions(q, u)
  <2>1. PICK i \in 1..Len(Tail(q)) : Tail(q)[i].aid = u
    BY <1>4 DEF Mentions
  <2>2. i + 1 \in 1..Len(q) /\ q[i + 1] = Tail(q)[i]
    BY <1>1
  <2> QED
    BY <2>1, <2>2 DEF Mentions
<1> QED
  BY <1>2, <1>3, <1>4

LEMMA TailEnds ==
  ASSUME NEW q \in Seq(Notification), q # <<>>, NEW u \in User, NEW n, Ends(q, u, n)
  PROVE  IF Mentions(Tail(q), u) THEN Ends(Tail(q), u, n) ELSE Head(q) = n
<1>1. /\ Len(q) \in Nat \ {0} /\ Len(Tail(q)) = Len(q) - 1 /\ Head(q) = q[1]
      /\ \A i \in 1..Len(Tail(q)) : Tail(q)[i] = q[i + 1]
  BY HeadTailProperties, EmptySeq
<1>2. PICK i \in 1..Len(q) : q[i].aid = u /\ q[i] = n
                               /\ \A j \in 1..Len(q) : j > i => q[j].aid # u
  BY DEF Ends
<1>3. CASE i = 1
  <2>1. ~Mentions(Tail(q), u)
    <3>1. ASSUME NEW k \in 1..Len(Tail(q))
          PROVE  Tail(q)[k].aid # u
      <4>1. k + 1 \in 1..Len(q) /\ k + 1 > i /\ Tail(q)[k] = q[k + 1]
        BY <1>1, <1>3
      <4> QED
        BY <1>2, <4>1
    <3> QED
      BY <3>1 DEF Mentions
  <2> QED
    BY <1>1, <1>2, <1>3, <2>1
<1>4. CASE i # 1
  <2>1. i - 1 \in 1..Len(Tail(q)) /\ Tail(q)[i - 1] = q[i]
    BY <1>1, <1>4
  <2>2. ASSUME NEW j \in 1..Len(Tail(q)), j > i - 1
        PROVE  Tail(q)[j].aid # u
    <3>1. j + 1 \in 1..Len(q) /\ j + 1 > i /\ Tail(q)[j] = q[j + 1]
      BY <1>1, <2>2
    <3> QED
      BY <1>2, <3>1
  <2>3. Ends(Tail(q), u, n)
    BY <1>2, <2>1, <2>2 DEF Ends
  <2>4. Mentions(Tail(q), u)
    BY <1>2, <2>1 DEF Mentions
  <2> QED
    BY <2>3, <2>4
<1> QED
  BY <1>3, <1>4

LEMMA AppendMentions ==
  ASSUME NEW q \in Seq(Notification), NEW m \in Notification, NEW u \in User
  PROVE  Mentions(Append(q, m), u) <=> Mentions(q, u) \/ m.aid = u
<1>1. /\ Len(q) \in Nat /\ Len(Append(q, m)) = Len(q) + 1
      /\ \A i \in 1..Len(q) : Append(q, m)[i] = q[i]
      /\ Append(q, m)[Len(q) + 1] = m
  BY AppendProperties, LenProperties
<1>2. \A i : i \in 1..(Len(q) + 1) <=> i \in 1..Len(q) \/ i = Len(q) + 1
  BY <1>1
<1> QED
  BY <1>1, <1>2 DEF Mentions

LEMMA AppendEnds ==
  ASSUME NEW q \in Seq(Notification), NEW m \in Notification, NEW u \in User, NEW n,
         IF m.aid = u THEN m = n ELSE Ends(q, u, n)
  PROVE  Ends(Append(q, m), u, n)
<1> DEFINE r == Append(q, m)
<1>1. /\ Len(q) \in Nat /\ Len(r) = Len(q) + 1
      /\ \A i \in 1..Len(q) : r[i] = q[i]
      /\ r[Len(q) + 1] = m
  BY AppendProperties, LenProperties
<1>2. CASE m.aid = u
  <2>1. Len(q) + 1 \in 1..Len(r) /\ \A j \in 1..Len(r) : ~(j > Len(q) + 1)
    BY <1>1
  <2> HIDE DEF r
  <2>2. Ends(r, u, n)
    BY <1>1, <1>2, <2>1 DEF Ends
  <2> QED
    BY <2>2 DEF r
<1>3. CASE m.aid # u
  <2>1. PICK i \in 1..Len(q) : q[i].aid = u /\ q[i] = n
                                 /\ \A j \in 1..Len(q) : j > i => q[j].aid # u
    BY <1>3 DEF Ends
  <2> HIDE DEF r
  <2>2. i \in 1..Len(r) /\ r[i] = q[i]
    BY <1>1
  <2>3. ASSUME NEW j \in 1..Len(r), j > i
        PROVE  r[j].aid # u
    <3>1. CASE j = Len(q) + 1
      BY <1>1, <1>3, <3>1
    <3>2. CASE j # Len(q) + 1
      <4>1. j \in 1..Len(q) /\ r[j] = q[j]
        BY <1>1, <3>2
      <4> QED
        BY <2>1, <2>3, <4>1
    <3> QED
      BY <3>1, <3>2
  <2>4. Ends(r, u, n)
    BY <2>1, <2>2, <2>3 DEF Ends
  <2> QED
    BY <2>4 DEF r
<1> QED
  BY <1>2, <1>3
-----------------------------------------------------------------------------
LEMMA InitConvergence == Init => ConvergenceInv
<1> SUFFICES ASSUME Init PROVE ConvergenceInv
  OBVIOUS
<1>1. TypeOK
  BY InitTypeOK
<1>2. \A u \in User : last[u] = None
  BY DEF Init
<1>3. CoreOnlyRelays
  BY DEF Init, CoreOnlyRelays
<1> QED
  BY <1>1, <1>2, <1>3 DEF ConvergenceInv, RegistryMatches, LastWord

\* What a step of the CS leaves in the registry.
LEMMA PublishRegistry ==
  ASSUME TypeOK, RegistryMatches, NEW u \in User, NEW mapped, NEW cr, NEW ap,
         Publish(u, mapped, cr, ap),
         mappings' = [mappings EXCEPT ![u] = [mapped_rid |-> mapped, remote_cr_rid |-> cr]]
  PROVE  RegistryMatches'
<1> DEFINE n == [aid |-> u, new_mapped_rid |-> mapped, new_cr_rid |-> cr,
                 ap_rid |-> ap]
<1>1. last' = [last EXCEPT ![u] = n]
  BY DEF Publish
<1>2. n.aid = u /\ Row(n) = [mapped_rid |-> mapped, remote_cr_rid |-> cr]
  BY DEF Row
<1> HIDE DEF n
<1>3. ASSUME NEW v \in User, last'[v] # None
      PROVE  last'[v].aid = v /\ mappings'[v] = Row(last'[v])
  <2>1. CASE v = u
    BY <1>1, <1>2, <2>1 DEF TypeOK
  <2>2. CASE v # u
    <3>1. last'[v] = last[v] /\ mappings'[v] = mappings[v]
      BY <1>1, <2>2 DEF TypeOK
    <3> QED
      BY <1>3, <3>1 DEF RegistryMatches
  <2> QED
    BY <2>1, <2>2
<1> QED
  BY <1>3 DEF RegistryMatches, Row

\* The message at the head of the CS's queue, by its type.
LEMMA HeadOfCSQueue ==
  ASSUME TypeOK, csq # <<>>
  PROVE  /\ Head(csq).type = "register" => Head(csq) \in RegisterRequest
         /\ Head(csq).type = "alert" => Head(csq) \in MobilityAlert
<1>1. Head(csq) \in Messages
  BY HeadTailProperties DEF TypeOK
<1> QED
  BY <1>1 DEF Messages, RegisterRequest, MobilityAlert

LEMMA NextRegistry == TypeOK /\ RegistryMatches /\ [Next]_vars => RegistryMatches'
<1> SUFFICES ASSUME TypeOK, RegistryMatches, [Next]_vars PROVE RegistryMatches'
  OBVIOUS
<1>1. CASE HandleRegister
  <2>1. Head(csq) \in RegisterRequest
    BY <1>1, HeadOfCSQueue DEF HandleRegister
  <2>2. Head(csq).aid \in User
    BY <2>1 DEF RegisterRequest
  <2> QED
    BY <1>1, <2>2, PublishRegistry DEF HandleRegister
<1>2. CASE HandleMobility
  <2>1. Head(csq) \in MobilityAlert
    BY <1>2, HeadOfCSQueue DEF HandleMobility
  <2>2. Head(csq).user_aid \in User
    BY <2>1 DEF MobilityAlert
  <2> QED
    BY <1>2, <2>2, PublishRegistry DEF HandleMobility
<1>3. CASE last' = last /\ mappings' = mappings
  BY <1>3 DEF RegistryMatches, Row
<1> QED
  BY <1>1, <1>2, <1>3 DEF Next, ControlStep, vars, ActivateUser, PostAuthProcedures, ForwardToCS, HandleNotification,
     HandleFlooded, HandleRelayed, SetUserStatus, RedirectAndAlert, DropNewest

LEMMA NextCoreOnlyRelays ==
  TypeOK /\ CoreOnlyRelays /\ [Next]_vars => CoreOnlyRelays'
<1> SUFFICES ASSUME TypeOK, CoreOnlyRelays, [Next]_vars PROVE CoreOnlyRelays'
  OBVIOUS
<1>1. ASSUME NEW p \in CR, NEW t \in CR, HandleFlooded(p, t)
      PROVE  CoreOnlyRelays'
  BY <1>1 DEF HandleFlooded, CoreOnlyRelays, TypeOK
<1>2. ASSUME NEW p \in CR, NEW t \in CR, HandleRelayed(p, t)
      PROVE  CoreOnlyRelays'
  BY <1>2 DEF HandleRelayed, CoreOnlyRelays, TypeOK
<1>3. ASSUME NEW p \in CR, NEW t \in CR, DropNewest(p, t)
      PROVE  CoreOnlyRelays'
  <2>1. ASSUME NEW d \in CR, NEW e \in CR, core'[d][e] # <<>>
        PROVE  core[d][e] # <<>>
    <3>1. CASE d = p /\ e = t
      BY <1>3, <2>1, <3>1 DEF DropNewest
    <3>2. CASE ~(d = p /\ e = t)
      <4> DEFINE q == SubSeq(core[p][t], 1, Len(core[p][t]) - 1)
      <4>1. core' = core \/ core' = [core EXCEPT ![p][t] = q]
        BY <1>3 DEF DropNewest
      <4> HIDE DEF q
      <4>2. CASE core' = [core EXCEPT ![p][t] = q]
        BY <2>1, <3>2, <4>2 DEF TypeOK
      <4> QED
        BY <2>1, <4>1, <4>2
    <3> QED
      BY <3>1, <3>2
  <2> QED
    BY <2>1 DEF CoreOnlyRelays
<1>4. CASE core' = core
  BY <1>4 DEF CoreOnlyRelays
<1> QED
  BY <1>1, <1>2, <1>3, <1>4 DEF Next, ControlStep, vars, wireVars, ActivateUser, PostAuthProcedures, ForwardToCS,
     HandleRegister, HandleMobility, HandleNotification, SetUserStatus, RedirectAndAlert
-----------------------------------------------------------------------------
(* How single steps act on one CR and one user.                            *)

LEMMA ChannelEndsKept ==
  ASSUME NEW p \in CR, NEW c \in CR, NEW u \in User, ChannelEnds(p, c, u),
         mgmt'[p][c] = mgmt[p][c], core'[p][c] = core[p][c], last'[u] = last[u]
  PROVE  ChannelEnds(p, c, u)'
  BY DEF ChannelEnds, Mentions, Ends

LEMMA AgreesKept ==
  ASSUME NEW c \in CR, NEW u \in User, Agrees(c, u),
         last'[u] = last[u], remote_mappings'[c][u] = remote_mappings[c][u],
         user_statuses[c][u] # None => /\ user_statuses'[c][u] # None
                                       /\ user_statuses'[c][u].ap_aid = user_statuses[c][u].ap_aid
  PROVE  Agrees(c, u)'
  BY DEF Agrees, Row, MatchAP, AssociatedAPs

\* A frame for another CR, or about another user, changes nothing here.
LEMMA ReceiveElsewhere ==
  ASSUME TypeOK, NEW c \in CR, NEW u \in User, NEW t \in CR, NEW n \in Notification,
         Receive(t, n), t # c \/ n.aid # u
  PROVE  /\ remote_mappings'[c][u] = remote_mappings[c][u]
         /\ user_statuses'[c][u] = user_statuses[c][u]
<1>1. CASE Absorbs(t)
  BY <1>1 DEF Receive, cacheVars
<1>2. CASE ~Absorbs(t)
  <2>1. ApplyNotification(t, n)
    BY <1>2 DEF Receive
  <2>2. n.aid \in User
    BY DEF Notification
  <2>3. remote_mappings'[c][u] = remote_mappings[c][u]
    BY <2>1, <2>2 DEF ApplyNotification, TypeOK
  <2>4. user_statuses'[c][u] = user_statuses[c][u]
    BY <2>1, <2>2 DEF ApplyNotification, TypeOK
  <2> QED
    BY <2>3, <2>4
<1> QED
  BY <1>1, <1>2

\* A listening CR that applies the CS's last word agrees with it.
LEMMA ReceiveLastWord ==
  ASSUME TypeOK, NEW c \in CR, NEW u \in User, Listens(c),
         last[u] \in Notification, last[u].aid = u, last' = last, Receive(c, last[u])
  PROVE  Agrees(c, u)'
<1>1. ApplyNotification(c, last[u])
  BY DEF Receive, Listens
<1>2. remote_mappings'[c][u] = Row(last[u])
  BY <1>1 DEF ApplyNotification, TypeOK, Row
<1>3. ASSUME last[u].new_cr_rid = CRRID[c]
      PROVE  /\ user_statuses'[c][u] # None
             /\ user_statuses'[c][u].ap_aid = MatchAP(c, last[u].ap_rid)
  <2> DEFINE s == [ap_aid |-> MatchAP(c, last[u].ap_rid), status |-> "ONLINE"]
  <2>1. s \in UserStatus /\ s.ap_aid = MatchAP(c, last[u].ap_rid)
    BY MatchAPType DEF UserStatus, Status
  <2>2. user_statuses' = [user_statuses EXCEPT ![c][u] = s]
    BY <1>1, <1>3 DEF ApplyNotification
  <2> HIDE DEF s
  <2>3. user_statuses'[c][u] = s
    BY <2>2 DEF TypeOK
  <2>4. s # None
    BY <2>1, ConfigTypes
  <2> QED
    BY <2>1, <2>3, <2>4
<1> QED
  BY <1>2, <1>3 DEF Agrees, Row, MatchAP, AssociatedAPs
\* A step that leaves every channel to c and c's tables alone.
LEMMA QuietStep ==
  ASSUME NEW c \in CR, NEW u \in User, LastWordAt(c, u),
         mgmt' = mgmt, core' = core, last' = last,
         remote_mappings'[c][u] = remote_mappings[c][u],
         user_statuses[c][u] # None => /\ user_statuses'[c][u] # None
                                       /\ user_statuses'[c][u].ap_aid = user_statuses[c][u].ap_aid
  PROVE  LastWordAt(c, u)'
<1>1. \A p \in Feeders(c) : ChannelEnds(p, c, u)'
  BY DEF LastWordAt, ChannelEnds, Mentions, Ends
<1>2. ASSUME Settled(c, u)'
      PROVE  Agrees(c, u)'
  <2>1. Settled(c, u)
    BY <1>2 DEF Settled, Mentions, Feeders
  <2> QED
    BY <2>1, AgreesKept DEF LastWordAt
<1> QED
  BY <1>1, <1>2 DEF LastWordAt, Feeders

\* The CS floods a new notification: it becomes the last word of every channel.
LEMMA PublishStep ==
  ASSUME TypeOK, NEW c \in CR, NEW u \in User, Listens(c),
         last[u] # None => LastWordAt(c, u),
         NEW w \in User, NEW mapped \in RID, NEW cr \in RID, NEW ap \in RID,
         Publish(w, mapped, cr, ap), UNCHANGED cacheVars, core' = core,
         last'[u] # None
  PROVE  LastWordAt(c, u)'
<1> DEFINE n == [aid |-> w, new_mapped_rid |-> mapped, new_cr_rid |-> cr,
                 ap_rid |-> ap]
<1>2. n \in Notification /\ n.aid = w
  BY DEF Notification
<1>3. last' = [last EXCEPT ![w] = n]
  BY DEF Publish
<1>4. \A p \in CR : mgmt'[p][c] = Append(mgmt[p][c], n)
  BY DEF Publish, Listens
<1> HIDE DEF n
<1>5. \A p \in CR : mgmt[p][c] \in Seq(Notification)
  BY DEF TypeOK
<1>6. CASE u = w
  <2>1. last'[u] = n
    BY <1>3, <1>6 DEF TypeOK
  <2>2. ASSUME NEW p \in CR
        PROVE  Mentions(mgmt'[p][c], u) /\ Ends(mgmt'[p][c], u, n)
    <3>1. Mentions(Append(mgmt[p][c], n), u)
      BY <1>2, <1>5, <1>6, AppendMentions
    <3>2. Ends(Append(mgmt[p][c], n), u, n)
      BY <1>2, <1>5, <1>6, AppendEnds
    <3> QED
      BY <1>4, <3>1, <3>2
  <2>3. \A p \in CR : ChannelEnds(p, c, u)'
    BY <2>1, <2>2 DEF ChannelEnds, Mentions, Ends
  <2>4. ~Settled(c, u)'
    BY <2>2 DEF Settled, Feeders, Mentions
  <2> QED
    BY <2>3, <2>4 DEF LastWordAt, Feeders
<1>7. CASE u # w
  <2>1. last'[u] = last[u]
    BY <1>3, <1>7 DEF TypeOK
  <2>2. LastWordAt(c, u)
    BY <2>1
  <2>3. ASSUME NEW p \in CR
        PROVE  /\ Mentions(mgmt'[p][c], u) <=> Mentions(mgmt[p][c], u)
               /\ Ends(mgmt[p][c], u, last[u]) => Ends(mgmt'[p][c], u, last[u])
    <3>1. Mentions(Append(mgmt[p][c], n), u) <=> Mentions(mgmt[p][c], u)
      BY <1>2, <1>5, <1>7, AppendMentions
    <3>2. Ends(mgmt[p][c], u, last[u]) => Ends(Append(mgmt[p][c], n), u, last[u])
      BY <1>2, <1>5, <1>7, AppendEnds
    <3> QED
      BY <1>4, <3>1, <3>2
  <2>4. ASSUME NEW p \in CR, ChannelEnds(p, c, u)
        PROVE  ChannelEnds(p, c, u)'
    BY <2>1, <2>3, <2>4 DEF ChannelEnds, Mentions, Ends
  <2>5. \A p \in Feeders(c) : ChannelEnds(p, c, u)'
    BY <2>2, <2>4 DEF LastWordAt, Feeders
  <2>6. ASSUME Settled(c, u)'
        PROVE  Agrees(c, u)'
    <3>1. Settled(c, u)
      BY <2>3, <2>6 DEF Settled, Feeders, Mentions
    <3>2. Agrees(c, u)
      BY <2>2, <3>1 DEF LastWordAt
    <3> QED
      BY <2>1, <3>2, AgreesKept DEF cacheVars
  <2> QED
    BY <2>5, <2>6 DEF LastWordAt, Feeders
<1> QED
  BY <1>6, <1>7
\* Some CR takes the oldest flooded frame off its port and handles it.
LEMMA HandleNotificationStep ==
  ASSUME TypeOK, RegistryMatches, CoreOnlyRelays, NEW c \in CR, NEW u \in User,
         Listens(c), last[u] # None, LastWordAt(c, u),
         NEW t \in CR, HandleNotification(t)
  PROVE  LastWordAt(c, u)'
<1> DEFINE q == mgmt[t][t]
<1>1. q \in Seq(Notification) /\ q # <<>> /\ Head(q) \in Notification /\ Tail(q) \in Seq(Notification)
  BY HeadTailProperties DEF HandleNotification, TypeOK
<1>2. mgmt' = [mgmt EXCEPT ![t][t] = Tail(q)] /\ Receive(t, Head(q))
      /\ core' = core /\ last' = last
  BY DEF HandleNotification
<1>3. mgmt'[t][t] = Tail(q) /\ \A p \in CR : p # c \/ t # c => mgmt'[p][c] = mgmt[p][c]
  BY <1>2 DEF TypeOK
<1>4. core[c][c] = <<>>
  BY DEF CoreOnlyRelays
<1>5. Feeders(c) \subseteq CR /\ c \in Feeders(c)
  BY DEF Feeders
<1> HIDE DEF q
<1>6. ASSUME NEW p \in Feeders(c)
      PROVE  ChannelEnds(p, c, u)'
  <2>1. ChannelEnds(p, c, u)
    BY DEF LastWordAt
  <2>2. CASE p # c \/ t # c
    BY <1>2, <1>3, <1>5, <2>1, <2>2, ChannelEndsKept
  <2>3. CASE p = c /\ t = c
    <3>1. ~Mentions(core'[p][c], u)
      BY <1>2, <1>4, <2>3 DEF Mentions
    <3>2. Mentions(Tail(q), u) => Ends(Tail(q), u, last[u])
      <4>1. Mentions(Tail(q), u) => Mentions(q, u)
        BY <1>1, TailMentions
      <4>2. Mentions(Tail(q), u) => Ends(q, u, last[u])
        BY <2>1, <2>3, <4>1 DEF ChannelEnds, q
      <4> QED
        BY <1>1, <4>2, TailEnds
    <3>3. mgmt'[p][c] = Tail(q) /\ last' = last
      BY <1>2, <1>3, <2>3
    <3> QED
      BY <3>1, <3>2, <3>3 DEF ChannelEnds, Mentions, Ends
  <2> QED
    BY <2>2, <2>3
<1>7. ASSUME Settled(c, u)'
      PROVE  Agrees(c, u)'
  <2>1. \A p \in Feeders(c) : ~Mentions(mgmt'[p][c], u) /\ ~Mentions(core'[p][c], u)
    BY <1>7 DEF Settled, Mentions, Feeders
  <2>2. CASE t = c /\ Head(q).aid = u
    <3>1. ~Mentions(Tail(q), u)
      BY <1>3, <1>5, <2>1, <2>2
    <3>2. Mentions(q, u)
      BY <1>1, <2>2, TailMentions
    <3>3. Ends(q, u, last[u])
      BY <1>5, <2>2, <3>2 DEF LastWordAt, ChannelEnds, q
    <3>4. Head(q) = last[u]
      BY <1>1, <3>1, <3>3, TailEnds
    <3> QED
      BY <1>1, <1>2, <2>2, <3>4, ReceiveLastWord DEF RegistryMatches
  <2>3. CASE t # c \/ Head(q).aid # u
    <3>1. /\ remote_mappings'[c][u] = remote_mappings[c][u]
          /\ user_statuses'[c][u] = user_statuses[c][u]
      BY <1>1, <1>2, <2>3, ReceiveElsewhere
    <3>2. Mentions(mgmt[c][c], u) => Mentions(mgmt'[c][c], u)
      BY <1>1, <1>3, <2>3, TailMentions DEF q
    <3>3. Settled(c, u)
      BY <1>2, <1>3, <1>5, <2>1, <3>2 DEF Settled
    <3> QED
      BY <1>2, <3>1, <3>3, AgreesKept DEF LastWordAt
  <2> QED
    BY <2>2, <2>3
<1> QED
  BY <1>6, <1>7 DEF LastWordAt, Feeders
\* A frame changes from p's port to the link p relays it on, or ends there.
LEMMA HandleFloodedStep ==
  ASSUME TypeOK, NEW c \in CR, NEW u \in User, last[u] # None, LastWordAt(c, u),
         NEW p \in CR, NEW t \in CR, HandleFlooded(p, t)
  PROVE  LastWordAt(c, u)'
<1> DEFINE q == mgmt[p][t]
           m == Head(q)
           r == core[p][t]
<1>1. /\ q \in Seq(Notification) /\ q # <<>> /\ r \in Seq(Notification)
      /\ m \in Notification /\ Tail(q) \in Seq(Notification)
  BY HeadTailProperties DEF HandleFlooded, TypeOK
<1>2. /\ mgmt' = [mgmt EXCEPT ![p][t] = Tail(q)]
      /\ core' = IF <<p, t>> \in Relay THEN [core EXCEPT ![p][t] = Append(r, m)] ELSE core
      /\ last' = last /\ UNCHANGED cacheVars /\ p # t
  BY DEF HandleFlooded
<1> HIDE DEF q, m, r
<1>3. ASSUME NEW d \in CR, d # p \/ t # c
      PROVE  mgmt'[d][c] = mgmt[d][c] /\ core'[d][c] = core[d][c]
  <2>1. mgmt'[d][c] = mgmt[d][c]
    BY <1>2, <1>3 DEF TypeOK
  <2>2. core'[d][c] = core[d][c]
    BY <1>2, <1>3 DEF TypeOK
  <2> QED
    BY <2>1, <2>2
<1>4. Feeders(c) \subseteq CR /\ \A d \in Feeders(c) : d # c => <<d, c>> \in Relay
  BY DEF Feeders
<1>5. mgmt'[p][t] = Tail(q) /\ (<<p, t>> \in Relay => core'[p][t] = Append(r, m))
  BY <1>2 DEF TypeOK
<1>6. m.aid = u \/ Mentions(Tail(q), u) <=> Mentions(q, u)
  BY <1>1, TailMentions DEF m
<1>7. Mentions(Append(r, m), u) <=> Mentions(r, u) \/ m.aid = u
  BY <1>1, AppendMentions
<1>8. CASE p \in Feeders(c) /\ t = c
  <2>1. core'[p][c] = Append(r, m) /\ mgmt'[p][c] = Tail(q)
    BY <1>2, <1>4, <1>5, <1>8
  <2>2. IF Mentions(q, u) THEN Ends(q, u, last[u])
                          ELSE Mentions(r, u) => Ends(r, u, last[u])
    BY <1>8 DEF LastWordAt, ChannelEnds, q, r
  <2>3. IF Mentions(Tail(q), u) THEN Ends(Tail(q), u, last[u])
        ELSE Mentions(Append(r, m), u) => Ends(Append(r, m), u, last[u])
    <3>1. CASE Mentions(Tail(q), u)
      BY <1>1, <1>6, <2>2, <3>1, TailEnds
    <3>2. CASE ~Mentions(Tail(q), u) /\ m.aid = u
      <4>1. m = last[u]
        BY <1>1, <1>6, <2>2, <3>2, TailEnds DEF m
      <4> QED
        BY <1>1, <3>2, <4>1, AppendEnds
    <3>3. CASE ~Mentions(Tail(q), u) /\ m.aid # u
      BY <1>1, <1>6, <1>7, <2>2, <3>3, AppendEnds
    <3> QED
      BY <3>1, <3>2, <3>3
  <2>4. ChannelEnds(p, c, u)'
    <3>1. IF Mentions(mgmt'[p][c], u)
          THEN Ends(mgmt'[p][c], u, last'[u])
          ELSE Mentions(core'[p][c], u) => Ends(core'[p][c], u, last'[u])
      BY <1>2, <2>1, <2>3
    <3> QED
      BY <3>1 DEF ChannelEnds, Mentions, Ends
  <2>5. \A d \in Feeders(c) : ChannelEnds(d, c, u)'
    BY <1>2, <1>3, <1>4, <2>4, ChannelEndsKept DEF LastWordAt
  <2>6. ASSUME Settled(c, u)'
        PROVE  Settled(c, u)
    <3>1. \A d \in Feeders(c) : ~Mentions(mgmt'[d][c], u) /\ ~Mentions(core'[d][c], u)
      BY <2>6 DEF Settled, Mentions, Feeders
    <3>2. ~Mentions(q, u) /\ ~Mentions(r, u)
      BY <1>6, <1>7, <1>8, <2>1, <3>1
    <3> QED
      BY <1>3, <1>4, <1>8, <3>1, <3>2 DEF Settled, q, r
  <2>7. ASSUME Settled(c, u)'
        PROVE  Agrees(c, u)'
    BY <1>2, <2>6, <2>7, AgreesKept DEF LastWordAt, cacheVars
  <2> QED
    BY <2>5, <2>7 DEF LastWordAt, Feeders
<1>9. CASE ~(p \in Feeders(c) /\ t = c)
  <2>1. \A d \in Feeders(c) : mgmt'[d][c] = mgmt[d][c] /\ core'[d][c] = core[d][c]
    BY <1>3, <1>4, <1>9
  <2>2. \A d \in Feeders(c) : ChannelEnds(d, c, u)'
    BY <1>2, <1>4, <2>1, ChannelEndsKept DEF LastWordAt
  <2>3. ASSUME Settled(c, u)'
        PROVE  Agrees(c, u)'
    <3>1. \A d \in Feeders(c) : ~Mentions(mgmt'[d][c], u) /\ ~Mentions(core'[d][c], u)
      BY <2>3 DEF Settled, Mentions, Feeders
    <3>2. Settled(c, u)
      BY <2>1, <3>1 DEF Settled
    <3> QED
      BY <1>2, <3>2, AgreesKept DEF LastWordAt, cacheVars
  <2> QED
    BY <2>2, <2>3 DEF LastWordAt, Feeders
<1> QED
  BY <1>8, <1>9
\* Some CR takes the oldest frame off the link from a relay and handles it.
LEMMA HandleRelayedStep ==
  ASSUME TypeOK, RegistryMatches, CoreOnlyRelays, NEW c \in CR, NEW u \in User,
         Listens(c), last[u] # None, LastWordAt(c, u),
         NEW p \in CR, NEW t \in CR, HandleRelayed(p, t)
  PROVE  LastWordAt(c, u)'
<1> DEFINE r == core[p][t]
<1>1. r \in Seq(Notification) /\ r # <<>> /\ Head(r) \in Notification /\ Tail(r) \in Seq(Notification)
  BY HeadTailProperties DEF HandleRelayed, TypeOK
<1>2. /\ core' = [core EXCEPT ![p][t] = Tail(r)] /\ Receive(t, Head(r))
      /\ mgmt' = mgmt /\ last' = last
  BY DEF HandleRelayed
<1>3. core'[p][t] = Tail(r) /\ \A d \in CR : d # p \/ t # c => core'[d][c] = core[d][c]
  BY <1>2 DEF TypeOK
<1>4. p \in Feeders(t) /\ Feeders(c) \subseteq CR
  BY DEF CoreOnlyRelays, HandleRelayed, Feeders
<1> HIDE DEF r
<1>5. ASSUME NEW d \in Feeders(c)
      PROVE  ChannelEnds(d, c, u)'
  <2>1. ChannelEnds(d, c, u)
    BY DEF LastWordAt
  <2>2. CASE d # p \/ t # c
    BY <1>2, <1>3, <1>4, <2>1, <2>2, ChannelEndsKept
  <2>3. CASE d = p /\ t = c
    <3>1. Mentions(Tail(r), u) => Mentions(r, u)
      BY <1>1, TailMentions
    <3>2. Mentions(Tail(r), u) /\ ~Mentions(mgmt[p][c], u) => Ends(Tail(r), u, last[u])
      <4>1. Mentions(Tail(r), u) /\ ~Mentions(mgmt[p][c], u) => Ends(r, u, last[u])
        BY <2>1, <2>3, <3>1 DEF ChannelEnds, r
      <4> QED
        BY <1>1, <4>1, TailEnds
    <3>3. IF Mentions(mgmt'[p][c], u)
          THEN Ends(mgmt'[p][c], u, last'[u])
          ELSE Mentions(core'[p][c], u) => Ends(core'[p][c], u, last'[u])
      <4>1. Mentions(mgmt[p][c], u) => Ends(mgmt[p][c], u, last[u])
        BY <2>1, <2>3 DEF ChannelEnds
      <4> QED
        BY <1>2, <1>3, <2>3, <3>2, <4>1
    <3> QED
      BY <2>3, <3>3 DEF ChannelEnds, Mentions, Ends
  <2> QED
    BY <2>2, <2>3
<1>6. ASSUME Settled(c, u)'
      PROVE  Agrees(c, u)'
  <2>1. \A d \in Feeders(c) : ~Mentions(mgmt'[d][c], u) /\ ~Mentions(core'[d][c], u)
    BY <1>6 DEF Settled, Mentions, Feeders
  <2>2. CASE t = c /\ Head(r).aid = u
    <3>1. ~Mentions(Tail(r), u) /\ ~Mentions(mgmt[p][c], u)
      BY <1>2, <1>3, <1>4, <2>1, <2>2
    <3>2. Mentions(r, u)
      BY <1>1, <2>2, TailMentions
    <3>3. Ends(r, u, last[u])
      BY <1>4, <2>2, <3>1, <3>2 DEF LastWordAt, ChannelEnds, r
    <3>4. Head(r) = last[u]
      BY <1>1, <3>1, <3>3, TailEnds
    <3> QED
      BY <1>1, <1>2, <2>2, <3>4, ReceiveLastWord DEF RegistryMatches
  <2>3. CASE t # c \/ Head(r).aid # u
    <3>1. /\ remote_mappings'[c][u] = remote_mappings[c][u]
          /\ user_statuses'[c][u] = user_statuses[c][u]
      BY <1>1, <1>2, <2>3, ReceiveElsewhere
    <3>2. \A d \in Feeders(c) : Mentions(core[d][c], u) => Mentions(core'[d][c], u)
      <4>1. t = c => (Mentions(r, u) <=> Mentions(Tail(r), u))
        BY <1>1, <2>3, TailMentions
      <4> QED
        BY <1>3, <1>4, <4>1 DEF r
    <3>3. Settled(c, u)
      BY <1>2, <2>1, <3>2 DEF Settled
    <3> QED
      BY <1>2, <3>1, <3>3, AgreesKept DEF LastWordAt
  <2> QED
    BY <2>2, <2>3
<1> QED
  BY <1>5, <1>6 DEF LastWordAt, Feeders
-----------------------------------------------------------------------------
LEMMA NextLastWord == ConvergenceInv /\ [Next]_vars => LastWord'
<1> SUFFICES ASSUME ConvergenceInv, [Next]_vars, lost' = 0,
                    NEW c \in CR, NEW u \in User, Listens(c), last'[u] # None
             PROVE  LastWordAt(c, u)'
  BY DEF LastWord, Listens, Absorbs, AssociatedAPs
<1> USE DEF cacheVars, wireVars, envVars
<1>1. TypeOK /\ RegistryMatches /\ CoreOnlyRelays
  BY DEF ConvergenceInv
<1>2. ASSUME NEW p \in CR, NEW t \in CR, DropNewest(p, t)
      PROVE  FALSE
  BY <1>1, <1>2 DEF DropNewest, TypeOK
<1>3. lost = 0
  BY <1>1, <1>2 DEF Next, ControlStep, vars, ActivateUser, PostAuthProcedures, ForwardToCS, HandleRegister,
     HandleMobility, HandleNotification, HandleFlooded, HandleRelayed,
     SetUserStatus, RedirectAndAlert
<1>4. last[u] # None => LastWordAt(c, u)
  BY <1>3 DEF ConvergenceInv, LastWord
<1>5. CASE HandleRegister
  <2>1. Head(csq) \in RegisterRequest
    BY <1>1, <1>5, HeadOfCSQueue DEF HandleRegister
  <2>2. /\ Head(csq).aid \in User /\ Head(csq).mapped_rid \in RID
        /\ Head(csq).ap_rid \in RID /\ CrOfAp(Head(csq).ap_rid) \in RID
    BY <2>1, CrOfApType DEF RegisterRequest
  <2>3. /\ Publish(Head(csq).aid, Head(csq).mapped_rid,
                   CrOfAp(Head(csq).ap_rid), Head(csq).ap_rid)
        /\ UNCHANGED cacheVars /\ core' = core
    BY <1>5 DEF HandleRegister
  <2> QED
    BY <1>1, <1>4, <2>2, <2>3, PublishStep
<1>6. CASE HandleMobility
  <2>1. Head(csq) \in MobilityAlert
    BY <1>1, <1>6, HeadOfCSQueue DEF HandleMobility
  <2>2. /\ Head(csq).user_aid \in User /\ Head(csq).new_rid \in RID
        /\ Head(csq).new_cr_rid \in RID /\ NoRID \in RID
    BY <2>1, ConfigTypes DEF MobilityAlert
  <2>3. /\ Publish(Head(csq).user_aid, Head(csq).new_rid, Head(csq).new_cr_rid, NoRID)
        /\ UNCHANGED cacheVars /\ core' = core
    BY <1>6 DEF HandleMobility
  <2> QED
    BY <1>1, <1>4, <2>2, <2>3, PublishStep
<1>7. CASE last' = last
  <2>1. LastWordAt(c, u) /\ last[u] # None
    BY <1>4, <1>7
  <2>2. ASSUME NEW t \in CR, HandleNotification(t)
        PROVE  LastWordAt(c, u)'
    BY <1>1, <2>1, <2>2, HandleNotificationStep
  <2>3. ASSUME NEW p \in CR, NEW t \in CR, HandleFlooded(p, t)
        PROVE  LastWordAt(c, u)'
    BY <1>1, <2>1, <2>3, HandleFloodedStep
  <2>4. ASSUME NEW p \in CR, NEW t \in CR, HandleRelayed(p, t)
        PROVE  LastWordAt(c, u)'
    BY <1>1, <2>1, <2>4, HandleRelayedStep
  <2>5. ASSUME NEW d \in CR, NEW v \in User, NEW s \in Status, SetUserStatus(d, v, s)
        PROVE  LastWordAt(c, u)'
    <3>1. user_statuses[c][u] # None
            => /\ user_statuses'[c][u] # None
               /\ user_statuses'[c][u].ap_aid = user_statuses[c][u].ap_aid
      <4>1. PICK a \in NamedAP(d, v) : Written(d, v, [ap_aid |-> a, status |-> s])
        BY <1>1, <2>5, SetUserStatusStep
      <4>2. CASE c = d /\ u = v /\ user_statuses[c][u] # None
        <5>1. a = user_statuses[c][u].ap_aid
          BY <4>2 DEF NamedAP
        <5>2. user_statuses[c][u] \in UserStatus
          BY <1>1, <4>2 DEF TypeOK
        <5> DEFINE e == [ap_aid |-> a, status |-> s]
        <5>3. e \in UserStatus /\ e.ap_aid = a
          BY <5>1, <5>2 DEF UserStatus
        <5>4. user_statuses'[c][u] = e
          BY <4>1, <4>2 DEF Written
        <5> QED
          BY <5>1, <5>3, <5>4, ConfigTypes
      <4>3. CASE ~(c = d /\ u = v)
        BY <4>1, <4>3 DEF Written
      <4> QED
        BY <4>2, <4>3
    <3>2. mgmt' = mgmt /\ core' = core /\ remote_mappings' = remote_mappings
      BY <2>5 DEF SetUserStatus
    <3> QED
      BY <1>7, <2>1, <3>1, <3>2, QuietStep
  <2>6. CASE /\ mgmt' = mgmt /\ core' = core /\ remote_mappings' = remote_mappings
             /\ user_statuses' = user_statuses
    BY <1>7, <2>1, <2>6, QuietStep
  <2> QED
    BY <1>2, <1>5, <1>6, <2>2, <2>3, <2>4, <2>5, <2>6
    DEF Next, ControlStep, vars, ActivateUser, PostAuthProcedures, ForwardToCS, RedirectAndAlert
<1> QED
  BY <1>2, <1>5, <1>6, <1>7 DEF Next, ControlStep, vars, ActivateUser, PostAuthProcedures, ForwardToCS,
     HandleNotification, HandleFlooded, HandleRelayed, SetUserStatus, RedirectAndAlert

LEMMA ConvergenceInvImplies == ConvergenceInv => Converged /\ BindingAgrees
  BY DEF ConvergenceInv, LastWord, LastWordAt, Agrees, RegistryMatches, Converged,
     BindingAgrees

LEMMA ConvergenceInvariant == Spec => []ConvergenceInv
<1>1. ConvergenceInv /\ [Next]_vars => ConvergenceInv'
  BY NextTypeOK, NextRegistry, NextCoreOnlyRelays, NextLastWord DEF ConvergenceInv
<1> QED
  BY <1>1, InitConvergence, PTL DEF Spec

\* A CR that nothing about a user is on its way to caches the registry's row,
\* in every deployment, for every number of routers, users and handovers.
THEOREM ConvergedAlways == Spec => []Converged
<1> QED
  BY ConvergenceInvariant, ConvergenceInvImplies, PTL

\* The CR such a row names binds the user to the AP the CS last announced.
THEOREM BindingAgreesAlways == Spec => []BindingAgrees
<1> QED
  BY ConvergenceInvariant, ConvergenceInvImplies, PTL
=============================================================================
