--------------------------- MODULE MobilityControl ---------------------------
(***************************************************************************)
(* The mapping and mobility control plane: access points register where a  *)
(* user is, the control server (CS) keeps the registry and floods every    *)
(* change to the core routers (CRs), and a CR that still receives traffic  *)
(* for a user marked MOVED_AWAY raises a MobilityAlert that rewrites the   *)
(* registry from that CR's own cache.                                      *)
(*                                                                         *)
(* A handler never yields between reading a frame and its last send: a put *)
(* on a queue that is not full and a raw-socket send both complete at      *)
(* once.  So one handler is one action.  Left out are the frames no        *)
(* receiver acts on: the MappingRegisterRequest an AP sends to its CR,     *)
(* which _handle_control_signal ignores, and the NeighborAdvertisement the *)
(* CS only logs.                                                           *)
(***************************************************************************)
EXTENDS Naturals, Sequences

CONSTANTS
  User, AP, CR,     \* AIDs of users, access points, core routers
  RID,              \* routing identifiers
  APRID, CRRID,     \* ap.rid and cr.my_rid
  HomeCR,           \* the CR an AP is wired to (ap.cr_rid, associated_aps)
  ApToCr,           \* cs.db.ap_to_cr, a function on some RIDs
  ManagedCR,        \* cs.db.managed_crs
  Relay,            \* <<p, c>>: p has a route or neighbour row leading to c
  LocalMapping,     \* tables.local_mappings, [CR -> [User -> RID or None]]
  NoRID, NoAP,      \* RID(0, 0) and AID(0)
  None,             \* a missing dictionary entry
  MaxActivations, MaxMarks, MaxAlerts, MaxLost   \* bounds on the environment

Mapping == [mapped_rid : RID, remote_cr_rid : RID]
Status == {"ONLINE", "MOVED_AWAY"}
UserStatus == [ap_aid : AP \cup {NoAP}, status : Status]

Notification == [aid : User, new_mapped_rid : RID, new_cr_rid : RID, ap_rid : RID]

RegisterRequest == [type : {"register"}, aid : User, mapped_rid : RID, ap_rid : RID]
MobilityAlert   == [type : {"alert"}, user_aid : User, new_rid : RID, new_cr_rid : RID]

\* db.ap_to_cr.get(ap_rid, ap_rid)
CrOfAp(r) == IF r \in DOMAIN ApToCr THEN ApToCr[r] ELSE r

ASSUME ConfigTypes ==
  /\ APRID \in [AP -> RID] /\ CRRID \in [CR -> RID] /\ HomeCR \in [AP -> CR]
  /\ NoRID \in RID /\ NoAP \notin AP
  /\ \A r \in DOMAIN ApToCr : ApToCr[r] \in RID
  /\ ManagedCR \subseteq CR /\ Relay \subseteq CR \X CR
  /\ LocalMapping \in [CR -> [User -> RID \cup {None}]]
  /\ None \notin RID /\ None \notin Mapping /\ None \notin UserStatus
  /\ None \notin Notification

\* Identifiers are assigned by hand in the YAML files: no two CRs share one,
\* no two APs of one CR do, an AP may have that of its own CR but of no other,
\* nothing has (0, 0), and cs.yaml lists every AP.
ASSUME ConfigIdentifiers ==
  /\ \A c, d \in CR : CRRID[c] = CRRID[d] => c = d
  /\ \A a, b \in AP : HomeCR[a] = HomeCR[b] /\ APRID[a] = APRID[b] => a = b
  /\ \A a \in AP : APRID[a] # NoRID /\ CrOfAp(APRID[a]) = CRRID[HomeCR[a]]
  /\ \A a \in AP, c \in CR : APRID[a] = CRRID[c] => HomeCR[a] = c
  /\ \A c \in CR : CRRID[c] # NoRID

ASSUME BoundTypes ==
  /\ MaxActivations \in Nat /\ MaxMarks \in Nat
  /\ MaxAlerts \in Nat /\ MaxLost \in Nat

VARIABLES
  local_users,      \* [AP -> SUBSET User], the users an AP serves
  mappings,         \* cs.db.mappings
  remote_mappings,  \* tables.remote_mappings of every CR
  user_statuses,    \* tables.user_statuses of every CR
  acc,              \* acc[c]: registrations queued at c's access interface
  csq,              \* frames queued at the CS
  \* The one queue of a CR's management port is split by the CR a frame is
  \* addressed to, which only adds behaviours: the handlers of frames for
  \* different CRs touch different state.
  mgmt,             \* mgmt[p][t]: flooded frames at p's port, for t
  core,             \* core[p][t]: frames p has relayed to t, not yet handled
  last,             \* history: the last notification the CS sent per user
  activations, marks, alerts, lost

cacheVars == <<remote_mappings, user_statuses>>
wireVars  == <<acc, csq, mgmt, core>>
envVars   == <<activations, marks, alerts, lost>>
vars == <<local_users, mappings, cacheVars, wireVars, last, envVars>>
-----------------------------------------------------------------------------
\* The configured tables: a user is unknown everywhere, or is a configured
\* user of one AP, online at that AP's CR and a static remote row elsewhere.
Init ==
  /\ \E home \in [User -> AP \cup {NoAP}] :
       /\ local_users = [a \in AP |-> {u \in User : home[u] = a}]
       /\ remote_mappings = [c \in CR |-> [u \in User |->
            IF home[u] = NoAP \/ c = HomeCR[home[u]] THEN None
            ELSE [mapped_rid |-> APRID[home[u]],
                  remote_cr_rid |-> CRRID[HomeCR[home[u]]]]]]
       /\ user_statuses = [c \in CR |-> [u \in User |->
            IF home[u] = NoAP \/ c # HomeCR[home[u]] THEN None
            ELSE [ap_aid |-> home[u], status |-> "ONLINE"]]]
  /\ mappings = [u \in User |-> None]
  /\ acc = [c \in CR |-> <<>>]
  /\ csq = <<>>
  /\ mgmt = [p \in CR |-> [t \in CR |-> <<>>]]
  /\ core = [p \in CR |-> [t \in CR |-> <<>>]]
  /\ last = [u \in User |-> None]
  /\ activations = 0 /\ marks = 0 /\ alerts = 0 /\ lost = 0
-----------------------------------------------------------------------------
\* What an AP tells of a new user: the registration for the CS, through its CR.  The
\* CR ignores the note to itself, and the CS the advertisement to other APs.
PostAuthProcedures(a, u) ==
  acc' = [acc EXCEPT ![HomeCR[a]] =
            Append(@, [type |-> "register", aid |-> u,
                       mapped_rid |-> CRRID[HomeCR[a]], ap_rid |-> APRID[a]])]

\* A user attaches to an AP, by a handover or after authenticating there: the
\* AP records it and tells of it.  The previous AP keeps its entry.
ActivateUser(a, u) ==
  /\ activations < MaxActivations
  /\ activations' = activations + 1
  /\ local_users' = [local_users EXCEPT ![a] = @ \cup {u}]
  /\ PostAuthProcedures(a, u)
  /\ UNCHANGED <<mappings, cacheVars, csq, mgmt, core, last, marks, alerts, lost>>

\* A CR takes an AP's frame for the CS off its access interface and passes it
\* to its CS neighbour.
ForwardToCS(c) ==
  /\ acc[c] # <<>>
  /\ csq' = Append(csq, Head(acc[c]))
  /\ acc' = [acc EXCEPT ![c] = Tail(@)]
  /\ UNCHANGED <<local_users, mappings, cacheVars, mgmt, core, last, envVars>>
-----------------------------------------------------------------------------
\* One notification per managed CR, each sent to the broadcast MAC address:
\* every CR's management port receives every one of them.
Publish(u, mapped, cr, ap) ==
  LET n == [aid |-> u, new_mapped_rid |-> mapped, new_cr_rid |-> cr,
            ap_rid |-> ap]
  IN /\ mgmt' = [p \in CR |-> [t \in CR |->
                   IF t \in ManagedCR THEN Append(mgmt[p][t], n) ELSE mgmt[p][t]]]
     /\ last' = [last EXCEPT ![u] = n]

\* Mutant: the AP's RID is entered as the router's, without ap_to_cr.
HandleRegisterRaw ==
  /\ csq # <<>>
  /\ Head(csq).type = "register"
  /\ csq' = Tail(csq)
  /\ LET m == Head(csq)
     IN /\ mappings' = [mappings EXCEPT ![m.aid] =
                          [mapped_rid |-> m.mapped_rid, remote_cr_rid |-> m.ap_rid]]
        /\ Publish(m.aid, m.mapped_rid, m.ap_rid, m.ap_rid)
  /\ UNCHANGED <<local_users, cacheVars, acc, core, envVars>>

HandleRegister ==
  /\ csq # <<>>
  /\ Head(csq).type = "register"
  /\ csq' = Tail(csq)
  /\ LET m == Head(csq)
         cr == CrOfAp(m.ap_rid)
     IN /\ mappings' = [mappings EXCEPT ![m.aid] =
                          [mapped_rid |-> m.mapped_rid, remote_cr_rid |-> cr]]
        /\ Publish(m.aid, m.mapped_rid, cr, m.ap_rid)
  /\ UNCHANGED <<local_users, cacheVars, acc, core, envVars>>

\* The alert carries no AP: the notification goes out with ap_rid (0, 0).
HandleMobility ==
  /\ csq # <<>>
  /\ Head(csq).type = "alert"
  /\ csq' = Tail(csq)
  /\ LET m == Head(csq)
     IN /\ mappings' = [mappings EXCEPT ![m.user_aid] =
                          [mapped_rid |-> m.new_rid, remote_cr_rid |-> m.new_cr_rid]]
        /\ Publish(m.user_aid, m.new_rid, m.new_cr_rid, NoRID)
  /\ UNCHANGED <<local_users, cacheVars, acc, core, envVars>>
-----------------------------------------------------------------------------
AssociatedAPs(c) == {a \in AP : HomeCR[a] = c}

\* Branch 0 of _handle_rid runs before the test for the router's own RID: a
\* CR with an AP configured under the CR's RID hands that AP its own control
\* frames, and the AP ignores them.
Absorbs(c) == \E a \in AssociatedAPs(c) : APRID[a] = CRRID[c]

\* Mutant: without a match the RID stands in for the AP's identifier.
MatchAPOrRID(c, r) ==
  IF \E a \in AssociatedAPs(c) : APRID[a] = r
  THEN CHOOSE a \in AssociatedAPs(c) : APRID[a] = r
  ELSE r

\* Mutant: the first AP of the CR, whichever the notification names.
MatchFirstAP(c, r) ==
  IF AssociatedAPs(c) # {} THEN CHOOSE a \in AssociatedAPs(c) : TRUE ELSE NoAP

\* The AP named by a notification, AID(0) when this CR has no such AP.
MatchAP(c, r) ==
  IF \E a \in AssociatedAPs(c) : APRID[a] = r
  THEN CHOOSE a \in AssociatedAPs(c) : APRID[a] = r
  ELSE NoAP

\* Mutant: a router keeps its row when it is named itself.
ApplyElsewhere(c, n) ==
  /\ remote_mappings' = IF n.new_cr_rid = CRRID[c] THEN remote_mappings
       ELSE [remote_mappings EXCEPT ![c][n.aid] =
               [mapped_rid |-> n.new_mapped_rid, remote_cr_rid |-> n.new_cr_rid]]
  /\ user_statuses' = IF n.new_cr_rid = CRRID[c]
       THEN [user_statuses EXCEPT ![c][n.aid] =
               [ap_aid |-> MatchAP(c, n.ap_rid), status |-> "ONLINE"]]
       ELSE user_statuses

\* Mutant: a router that is named drops its row, as the user is local to it.
ApplyDropping(c, n) ==
  /\ remote_mappings' = [remote_mappings EXCEPT ![c][n.aid] =
       IF n.new_cr_rid = CRRID[c] THEN None
       ELSE [mapped_rid |-> n.new_mapped_rid, remote_cr_rid |-> n.new_cr_rid]]
  /\ user_statuses' = IF n.new_cr_rid = CRRID[c]
       THEN [user_statuses EXCEPT ![c][n.aid] =
               [ap_aid |-> MatchAP(c, n.ap_rid), status |-> "ONLINE"]]
       ELSE user_statuses

\* Mutant: a user that has a status keeps the AP it was bound to.
ApplyFirstBinding(c, n) ==
  /\ remote_mappings' = [remote_mappings EXCEPT ![c][n.aid] =
       [mapped_rid |-> n.new_mapped_rid, remote_cr_rid |-> n.new_cr_rid]]
  /\ user_statuses' = IF n.new_cr_rid = CRRID[c] /\ user_statuses[c][n.aid] = None
       THEN [user_statuses EXCEPT ![c][n.aid] =
               [ap_aid |-> MatchAP(c, n.ap_rid), status |-> "ONLINE"]]
       ELSE user_statuses

\* Mutant: updates about a user marked MOVED_AWAY are ignored.
ApplyUnlessMoved(c, n) ==
  IF user_statuses[c][n.aid] # None /\ user_statuses[c][n.aid].status = "MOVED_AWAY"
  THEN UNCHANGED cacheVars
  ELSE /\ remote_mappings' = [remote_mappings EXCEPT ![c][n.aid] =
            [mapped_rid |-> n.new_mapped_rid, remote_cr_rid |-> n.new_cr_rid]]
       /\ user_statuses' = IF n.new_cr_rid = CRRID[c]
            THEN [user_statuses EXCEPT ![c][n.aid] =
                    [ap_aid |-> MatchAP(c, n.ap_rid), status |-> "ONLINE"]]
            ELSE user_statuses

\* _handle_control_signal: the cached row is overwritten whatever it holds; a
\* user the notification places here becomes ONLINE; one that it places
\* elsewhere keeps the status it had.
ApplyNotification(c, n) ==
  /\ remote_mappings' = [remote_mappings EXCEPT ![c][n.aid] =
       [mapped_rid |-> n.new_mapped_rid, remote_cr_rid |-> n.new_cr_rid]]
  /\ user_statuses' = IF n.new_cr_rid = CRRID[c]
       THEN [user_statuses EXCEPT ![c][n.aid] =
               [ap_aid |-> MatchAP(c, n.ap_rid), status |-> "ONLINE"]]
       ELSE user_statuses

\* c handles a frame addressed to it.
Receive(c, n) == IF Absorbs(c) THEN UNCHANGED cacheVars ELSE ApplyNotification(c, n)

\* c handles a flooded frame that is addressed to it.
HandleNotification(c) ==
  /\ mgmt[c][c] # <<>>
  /\ Receive(c, Head(mgmt[c][c]))
  /\ mgmt' = [mgmt EXCEPT ![c][c] = Tail(@)]
  /\ UNCHANGED <<local_users, mappings, acc, csq, core, last, envVars>>

\* p handles a flooded frame addressed to another CR: it relays the frame when
\* it knows a way to that CR, so the addressee receives it twice.
HandleFlooded(p, t) ==
  /\ p # t
  /\ mgmt[p][t] # <<>>
  /\ core' = IF <<p, t>> \in Relay
             THEN [core EXCEPT ![p][t] = Append(@, Head(mgmt[p][t]))]
             ELSE core
  /\ mgmt' = [mgmt EXCEPT ![p][t] = Tail(@)]
  /\ UNCHANGED <<local_users, mappings, cacheVars, acc, csq, last, envVars>>

\* t handles a copy that p relayed.
HandleRelayed(p, t) ==
  /\ core[p][t] # <<>>
  /\ Receive(t, Head(core[p][t]))
  /\ core' = [core EXCEPT ![p][t] = Tail(@)]
  /\ UNCHANGED <<local_users, mappings, acc, csq, mgmt, last, envVars>>
-----------------------------------------------------------------------------
\* The AP an operator names for u at c: the one c has u at, or one of c's that has u.
NamedAP(c, u) ==
  IF user_statuses[c][u] # None THEN {user_statuses[c][u].ap_aid}
  ELSE {a \in AssociatedAPs(c) : u \in local_users[a]}

\* An operator (a scenario script) calls set_user_status, the only way a user becomes
\* MOVED_AWAY: an entry is written, whatever there was.  (A call that writes what is there
\* changes nothing, and is left out.)
SetUserStatus(c, u, s) ==
  /\ marks < MaxMarks
  /\ marks' = marks + 1
  /\ \E a \in NamedAP(c, u) :
       user_statuses' = [user_statuses EXCEPT ![c][u] = [ap_aid |-> a, status |-> s]]
  /\ user_statuses' # user_statuses
  /\ UNCHANGED <<local_users, mappings, remote_mappings, wireVars, last,
                 activations, alerts, lost>>

\* cr_lookup_any_mapping: a local row hides the cached one.
LookupAnyMapping(c, u) ==
  IF LocalMapping[c][u] # None
  THEN [mapped_rid |-> LocalMapping[c][u], remote_cr_rid |-> NoRID]
  ELSE remote_mappings[c][u]

\* Data for a user marked MOVED_AWAY reaches c.  Besides redirecting the
\* packet c reports what its own tables say to the CS.
RedirectAndAlert(c, u) ==
  /\ alerts < MaxAlerts
  /\ alerts' = alerts + 1
  /\ user_statuses[c][u] # None
  /\ user_statuses[c][u].status = "MOVED_AWAY"
  /\ LookupAnyMapping(c, u) # None
  /\ csq' = Append(csq, [type |-> "alert", user_aid |-> u,
                         new_rid |-> LookupAnyMapping(c, u).mapped_rid,
                         new_cr_rid |-> LookupAnyMapping(c, u).remote_cr_rid])
  /\ UNCHANGED <<local_users, mappings, cacheVars, acc, mgmt, core, last,
                 activations, marks, lost>>

\* A link loses a frame it is given (loss_rate, a full socket buffer): the
\* newest on it.  A registration lost before the CS is as if never made.
DropNewest(p, t) ==
  /\ lost < MaxLost
  /\ lost' = lost + 1
  /\ \/ /\ mgmt[p][t] # <<>>
        /\ mgmt' = [mgmt EXCEPT ![p][t] = SubSeq(@, 1, Len(@) - 1)]
        /\ UNCHANGED core
     \/ /\ core[p][t] # <<>>
        /\ core' = [core EXCEPT ![p][t] = SubSeq(@, 1, Len(@) - 1)]
        /\ UNCHANGED mgmt
  /\ UNCHANGED <<local_users, mappings, cacheVars, acc, csq, last,
                 activations, marks, alerts>>
-----------------------------------------------------------------------------
\* What the nodes, the operator and the links do on their own.
ControlStep ==
  \/ \E c \in CR : ForwardToCS(c)
  \/ HandleRegister
  \/ HandleMobility
  \/ \E c \in CR : HandleNotification(c)
  \/ \E p, t \in CR : HandleFlooded(p, t)
  \/ \E p, t \in CR : HandleRelayed(p, t)
  \/ \E c \in CR, u \in User, s \in Status : SetUserStatus(c, u, s)
  \/ \E p, t \in CR : DropNewest(p, t)

Next ==
  \/ \E a \in AP, u \in User : ActivateUser(a, u)
  \/ \E c \in CR, u \in User : RedirectAndAlert(c, u)
  \/ ControlStep

Spec == Init /\ [][Next]_vars

HandleControl ==
  \/ HandleRegister \/ HandleMobility
  \/ \E c \in CR : ForwardToCS(c) \/ HandleNotification(c)
  \/ \E p, t \in CR : HandleFlooded(p, t) \/ HandleRelayed(p, t)

\* As long as frames are queued some are handled: less than what the receive loops, one
\* per interface, guarantee.  Users, operators and losses owe nothing.
Fairness == WF_vars(HandleControl)

FairSpec == Spec /\ Fairness
-----------------------------------------------------------------------------
(***************************************************************************)
(* Properties.                                                             *)
(***************************************************************************)
Messages == RegisterRequest \cup MobilityAlert

\* Every table, queue and counter holds values of its type; in particular a
\* user status names an AP of the network or AID(0), never an RID.
TypeOK ==
  /\ local_users \in [AP -> SUBSET User]
  /\ mappings \in [User -> Mapping \cup {None}]
  /\ remote_mappings \in [CR -> [User -> Mapping \cup {None}]]
  /\ user_statuses \in [CR -> [User -> UserStatus \cup {None}]]
  /\ acc \in [CR -> Seq(RegisterRequest)]
  /\ csq \in Seq(Messages)
  /\ mgmt \in [CR -> [CR -> Seq(Notification)]]
  /\ core \in [CR -> [CR -> Seq(Notification)]]
  /\ last \in [User -> Notification \cup {None}]
  /\ activations \in Nat /\ marks \in Nat /\ alerts \in Nat /\ lost \in Nat

\* The CRs that hand frames to c: c's own management port, and the relays.
Feeders(c) == {c} \cup {p \in CR : <<p, c>> \in Relay}

Mentions(q, u) == \E i \in 1..Len(q) : q[i].aid = u

\* No notification about u is on its way to c.
Settled(c, u) ==
  \A p \in Feeders(c) : ~Mentions(mgmt[p][c], u) /\ ~Mentions(core[p][c], u)

\* The CRs that the CS notifies and that can hear it.
Listens(c) == c \in ManagedCR /\ ~Absorbs(c)

\* As long as no frame is lost, a router with nothing about a user on its way
\* to it caches what the CS has registered for that user, although relayed
\* copies reach it out of order and overwrite newer rows in between.
Converged ==
  lost = 0 => \A c \in CR, u \in User :
    Listens(c) /\ last[u] # None /\ Settled(c, u)
      => remote_mappings[c][u] = mappings[u]

\* In the same situation the CR the registry names serves the user, bound to
\* the AP of the last notification, unless the operator marked the user away.
BindingAgrees ==
  lost = 0 => \A c \in CR, u \in User :
    Listens(c) /\ last[u] # None /\ Settled(c, u) /\ last[u].new_cr_rid = CRRID[c]
      => /\ user_statuses[c][u] # None
         /\ user_statuses[c][u].ap_aid = MatchAP(c, last[u].ap_rid)

\* The CRs of the APs that have served u.
Visited(u) == {CRRID[HomeCR[a]] : a \in {b \in AP : u \in local_users[b]}}

\* No alert, stale copy or loss invents a location: the registry and every
\* cache name a CR that u has really been at.  (For users no CR has a local
\* mapping row for.)
LocationsVisited ==
  \A u \in User : (\A c \in CR : LocalMapping[c][u] = None) =>
    /\ mappings[u] # None => mappings[u].remote_cr_rid \in Visited(u)
    /\ \A c \in CR : remote_mappings[c][u] # None
                       => remote_mappings[c][u].remote_cr_rid \in Visited(u)

\* A CR binds a user only to an AP that has it, however late the notification
\* and whoever it stems from.  An AP passes what it gets for a user it does
\* not have straight back to the CR.
ServingAPHasUser ==
  \A c \in CR, u \in User :
    user_statuses[c][u] # None /\ user_statuses[c][u].ap_aid \in AP
      => u \in local_users[user_statuses[c][u].ap_aid]

\* The tables as Registry has them: of a row, the router it names.
PlaceOf(row) == IF row = None THEN None ELSE row.remote_cr_rid

Promised == INSTANCE Registry WITH
  Copy <- CR, Place <- RID,
  visited <- [u \in User |-> Visited(u)],
  registry <- [u \in User |-> PlaceOf(mappings[u])],
  copies <- [c \in CR |-> [u \in User |-> PlaceOf(remote_mappings[c][u])]]

\* Where no CR has a local mapping row, which an alert would report as place (0, 0),
\* the control plane implements Registry: no loss, relay or late alert
\* removes an entry, changes two at once or enters a place where the user never was.
RegistryRefined == Promised!Spec

\* Once users stop moving, every listening router ends up with the registry's
\* mapping and keeps it, if no frame was lost.
EventuallyConverged ==
  <>[](lost = 0 => \A c \in CR, u \in User :
         Listens(c) /\ last[u] # None => remote_mappings[c][u] = mappings[u])

(***************************************************************************)
(* What comments and scripts say and the code does not do.                 *)
(***************************************************************************)
\* signaling.py:328, the notification's ap_rid is there "so the receiving CR
\* can find the right AP interface": a served user is bound to some AP.
ServedUserHasAP ==
  \A c \in CR, u \in User :
    user_statuses[c][u] # None => user_statuses[c][u].ap_aid \in AP
=============================================================================
