------------------------------ MODULE AuthProxy ------------------------------
(***************************************************************************)
(* User authentication: the hosts of one access point, the AP as a proxy,  *)
(* and the control server (CS) that checks the credentials.                *)
(*                                                                         *)
(* The AP's handler of a request suspends in the middle, on a future in    *)
(* _pending_auth, until an AuthResponse or a timer completes the future.   *)
(* Everything else is one step per handler: a send on a queue that is not  *)
(* full never suspends.  The AP passes every answer to its hosts by        *)
(* broadcast.  The AP's registration of the user with the CS, which        *)
(* follows a success, is MobilityControl's ActivateUser.                   *)
(***************************************************************************)
EXTENDS Naturals, Sequences, FiniteSets

CONSTANTS
  Host,         \* the hosts of the AP, named by their AIDs
  Cached,       \* keys of ap._neighbor_cache, which no running node fills
  Loops,        \* what a suspended handler holds up, see HoldsUp
  HostsHearCS,  \* the CS's broadcast reaches the hosts too (one switch)
  Duplicated,   \* a second CR relays the CS's answers: each arrives twice
  Passwords,    \* may users type the right one (TRUE), a wrong one (FALSE)?
  MaxCalls      \* bound on authenticate() calls of one host

ASSUME ConfigTypes ==
  /\ Cached \subseteq Host
  /\ Loops \in {"shared", "per_interface", "tasks"}
  /\ HostsHearCS \in BOOLEAN /\ Duplicated \in BOOLEAN
  /\ Passwords \subseteq BOOLEAN /\ MaxCalls \in Nat

Request  == [user : Host, right : BOOLEAN]
Response == [user : Host, success : BOOLEAN]

VARIABLES
  phase,          \* host: authenticate() is "idle", "waiting" or "answered"
  result,         \* host: what _auth_future holds once answered
  authenticated,  \* host: _authenticated
  calls,          \* host: number of authenticate() calls so far
  hq,             \* AuthResponses queued at a host
  up, down,       \* AuthRequests and AuthResponses queued at the AP; kept
                  \* apart, which on a shared interface only adds behaviours
  copies,         \* AuthResponses still on the way through the second CR
  csq,            \* AuthRequests queued at the CS
  tasks,          \* the suspended and finished handlers, tasks[request_id]
  pending,        \* keys of _pending_auth; request ids grow, so the key
                  \* inserted last is the largest
  local_users,    \* AP: is_authenticated of each user, "absent" without entry
  accepts,        \* history: the AuthRequests the CS has accepted, by user
  hurried         \* history: a timer has fired with something else to do

hostVars == <<phase, result, authenticated, calls>>
apVars   == <<tasks, pending, local_users>>
history  == <<accepts, hurried>>
vars == <<hostVars, hq, up, down, copies, csq, apVars, history>>

Init ==
  /\ phase = [h \in Host |-> "idle"]
  /\ result = [h \in Host |-> FALSE]
  /\ authenticated = [h \in Host |-> FALSE]
  /\ calls = [h \in Host |-> 0]
  /\ hq = [h \in Host |-> <<>>]
  /\ up = <<>> /\ down = <<>> /\ copies = <<>> /\ csq = <<>>
  /\ tasks = <<>> /\ pending = {}
  /\ local_users = [h \in Host |-> "absent"]
  /\ accepts = [h \in Host |-> 0] /\ hurried = FALSE
-----------------------------------------------------------------------------
Suspended == {s \in DOMAIN tasks : tasks[s].future # "done"}

\* real_deploy.py and its NIC callbacks start a task per frame.
TaskPerFrame == Loops = "tasks"

\* One interface read by one loop, as every simulated AP has: a suspended handler
\* holds up everything.  Two interfaces with a loop each: only further requests.
HoldsUp(what) ==
  /\ Suspended # {} /\ ~TaskPerFrame
  /\ Loops = "shared" \/ what = "requests"

\* No handler has a frame to handle and no coroutine can resume.
Quiet ==
  /\ up = <<>> \/ HoldsUp("requests")
  /\ down = <<>> \/ HoldsUp("responses")
  /\ copies = <<>> /\ csq = <<>>
  /\ \A s \in Suspended : tasks[s].future = "pending"
  /\ \A h \in Host : hq[h] = <<>> /\ phase[h] # "answered"

Broadcast(queues, m) == [h \in Host |-> Append(queues[h], m)]
-----------------------------------------------------------------------------
(* The host.                                                               *)

Authenticate(h, right) ==
  /\ phase[h] = "idle" /\ calls[h] < MaxCalls
  /\ calls' = [calls EXCEPT ![h] = @ + 1]
  /\ phase' = [phase EXCEPT ![h] = "waiting"]
  /\ up' = Append(up, [user |-> h, right |-> right])
  /\ UNCHANGED <<result, authenticated, hq, down, copies, csq, apVars, history>>

\* Any AuthResponse completes the future, whoever it is for.
HostReceive(h) ==
  /\ hq[h] # <<>>
  /\ hq' = [hq EXCEPT ![h] = Tail(@)]
  /\ IF phase[h] = "waiting"
     THEN /\ phase' = [phase EXCEPT ![h] = "answered"]
          /\ result' = [result EXCEPT ![h] = Head(hq[h]).success]
     ELSE UNCHANGED <<phase, result>>
  /\ UNCHANGED <<authenticated, calls, up, down, copies, csq, apVars, history>>

HostResume(h) ==
  /\ phase[h] = "answered"
  /\ phase' = [phase EXCEPT ![h] = "idle"]
  /\ authenticated' = [authenticated EXCEPT ![h] = result[h]]
  /\ UNCHANGED <<result, calls, hq, up, down, copies, csq, apVars, history>>

\* wait_for's timer.  Since Python 3.12 it also wins against an answer whose
\* coroutine has not resumed.
HostTimeout(h) ==
  /\ phase[h] # "idle"
  /\ hurried' = (hurried \/ ~Quiet)
  /\ phase' = [phase EXCEPT ![h] = "idle"]
  /\ authenticated' = [authenticated EXCEPT ![h] = FALSE]
  /\ UNCHANGED <<result, calls, hq, up, down, copies, csq, apVars, accepts>>
-----------------------------------------------------------------------------
(* The access point.                                                       *)

\* Mutant: whoever gets an answer is entered as authenticated.
FinishAnyway(u, r) ==
  /\ local_users' = [local_users EXCEPT ![u] = "authenticated"]
  /\ hq' = Broadcast(hq, r)

\* A handler finishes: the outcome is entered in the table and broadcast.
Finish(u, r) ==
  /\ local_users' = [local_users EXCEPT ![u] =
                       IF r.success THEN "authenticated" ELSE "refused"]
  /\ hq' = Broadcast(hq, r)

\* Mutant: the request id is used one too late.
APRequestLate ==
  /\ up # <<>> /\ ~HoldsUp("requests")
  /\ up' = Tail(up)
  /\ LET req == Head(up)
     IN IF req.user \in Cached
        THEN /\ Finish(req.user, [user |-> req.user, success |-> TRUE])
             /\ UNCHANGED <<tasks, pending, csq>>
        ELSE /\ tasks' = Append(tasks, [user |-> req.user, right |-> req.right,
                                        future |-> "pending",
                                        answer |-> [user |-> req.user, success |-> FALSE]])
             /\ pending' = pending \cup {Len(tasks) + 2}
             /\ csq' = Append(csq, req)
             /\ UNCHANGED <<local_users, hq>>
  /\ UNCHANGED <<hostVars, down, copies, history>>

\* A request of a user in the neighbour cache is answered at once; any other
\* goes to the CS under a new request id.
APRequest ==
  /\ up # <<>> /\ ~HoldsUp("requests")
  /\ up' = Tail(up)
  /\ LET req == Head(up)
     IN IF req.user \in Cached
        THEN /\ Finish(req.user, [user |-> req.user, success |-> TRUE])
             /\ UNCHANGED <<tasks, pending, csq>>
        ELSE /\ tasks' = Append(tasks, [user |-> req.user, right |-> req.right,
                                        future |-> "pending",
                                        answer |-> [user |-> req.user, success |-> FALSE]])
             /\ pending' = pending \cup {Len(tasks) + 1}
             /\ csq' = Append(csq, req)
             /\ UNCHANGED <<local_users, hq>>
  /\ UNCHANGED <<hostVars, down, copies, history>>

\* Mutant: the answer completes every waiting future.
APResponseAll ==
  /\ down # <<>> /\ ~HoldsUp("responses")
  /\ down' = Tail(down)
  /\ pending' = {}
  /\ tasks' = [s \in DOMAIN tasks |->
                 IF tasks[s].future = "pending"
                 THEN [tasks[s] EXCEPT !.future = "answered", !.answer = Head(down)]
                 ELSE tasks[s]]
  /\ UNCHANGED <<hostVars, hq, up, copies, csq, local_users, history>>

\* Mutant: the entry is looked at and left where it is.
APResponsePeek ==
  /\ down # <<>> /\ ~HoldsUp("responses")
  /\ down' = Tail(down)
  /\ \/ pending = {} /\ UNCHANGED tasks
     \/ \E s \in pending :
          /\ \A k \in pending : k <= s
          /\ tasks' = IF tasks[s].future = "pending"
                      THEN [tasks EXCEPT ![s] = [@ EXCEPT !.future = "answered",
                                                          !.answer = Head(down)]]
                      ELSE tasks
  /\ UNCHANGED <<pending, hostVars, hq, up, copies, csq, local_users, history>>

\* popitem takes the request that was sent last; a response that finds its
\* future cancelled is used up all the same.
APResponse ==
  /\ down # <<>> /\ ~HoldsUp("responses")
  /\ down' = Tail(down)
  /\ \/ pending = {} /\ UNCHANGED <<tasks, pending>>
     \/ \E s \in pending :
          /\ \A k \in pending : k <= s
          /\ pending' = pending \ {s}
          /\ tasks' = IF tasks[s].future = "pending"
                      THEN [tasks EXCEPT ![s] = [@ EXCEPT !.future = "answered",
                                                          !.answer = Head(down)]]
                      ELSE tasks
  /\ UNCHANGED <<hostVars, hq, up, copies, csq, local_users, history>>

\* Mutant: the handler awaits the future without a timer.
APNoTimer(s) ==
  /\ s \in Suspended /\ tasks[s].future = "answered"
  /\ hurried' = (hurried \/ ~Quiet)
  /\ tasks' = [tasks EXCEPT ![s] = [@ EXCEPT !.future = "cancelled"]]
  /\ UNCHANGED <<hostVars, hq, up, down, copies, csq, pending, local_users, accepts>>

\* The timer of a suspended handler fires; the handler resumes later.
APTimer(s) ==
  /\ s \in Suspended /\ tasks[s].future # "cancelled"
  /\ hurried' = (hurried \/ ~Quiet)
  /\ tasks' = [tasks EXCEPT ![s] = [@ EXCEPT !.future = "cancelled"]]
  /\ UNCHANGED <<hostVars, hq, up, down, copies, csq, pending, local_users, accepts>>

\* Mutant: a handler that times out leaves its entry behind.
APResumeLeak(s) ==
  LET answer == IF tasks[s].future = "answered" THEN tasks[s].answer
                ELSE [user |-> tasks[s].user, success |-> FALSE]
  IN /\ s \in Suspended /\ tasks[s].future # "pending"
     /\ tasks' = [tasks EXCEPT ![s] = [@ EXCEPT !.future = "done", !.answer = answer]]
     /\ Finish(tasks[s].user, answer)
     /\ UNCHANGED <<pending, hostVars, up, down, copies, csq, history>>

\* A suspended handler resumes, with the answer or, once cancelled, with a
\* failure of its own; it removes what is left of its entry.
APResume(s) ==
  LET answer == IF tasks[s].future = "answered" THEN tasks[s].answer
                ELSE [user |-> tasks[s].user, success |-> FALSE]
  IN /\ s \in Suspended /\ tasks[s].future # "pending"
     /\ tasks' = [tasks EXCEPT ![s] = [@ EXCEPT !.future = "done", !.answer = answer]]
     /\ pending' = pending \ {s}
     /\ Finish(tasks[s].user, answer)
     /\ UNCHANGED <<hostVars, up, down, copies, csq, history>>
-----------------------------------------------------------------------------
(* The control server and the network.                                     *)

CSHandleAuth ==
  /\ csq # <<>>
  /\ csq' = Tail(csq)
  /\ LET req == Head(csq)
         r == [user |-> req.user, success |-> req.right]
     IN /\ accepts' = IF req.right THEN [accepts EXCEPT ![req.user] = @ + 1] ELSE accepts
        /\ down' = Append(down, r)
        /\ copies' = IF Duplicated THEN Append(copies, r) ELSE copies
        /\ hq' = IF HostsHearCS THEN Broadcast(hq, r) ELSE hq
  /\ UNCHANGED <<hostVars, up, apVars, hurried>>

\* The copy relayed by the other CR reaches the AP.
DeliverCopy ==
  /\ copies # <<>>
  /\ copies' = Tail(copies)
  /\ down' = Append(down, Head(copies))
  /\ UNCHANGED <<hostVars, hq, up, csq, apVars, history>>
-----------------------------------------------------------------------------
Next ==
  \/ \E h \in Host, right \in Passwords : Authenticate(h, right)
  \/ \E h \in Host : HostReceive(h)
  \/ \E h \in Host : HostResume(h)
  \/ \E h \in Host : HostTimeout(h)
  \/ APRequest
  \/ APResponse
  \/ \E s \in DOMAIN tasks : APTimer(s)
  \/ \E s \in DOMAIN tasks : APResume(s)
  \/ CSHandleAuth
  \/ DeliverCopy

Spec == Init /\ [][Next]_vars

\* Request ids that the bounds allow.
Ids == 1..(MaxCalls * Cardinality(Host))

\* The event loop runs every callback that is due; users owe no calls.
Fairness ==
  /\ \A h \in Host : /\ WF_vars(HostReceive(h)) /\ WF_vars(HostResume(h))
                     /\ WF_vars(HostTimeout(h))
  /\ \A s \in Ids : WF_vars(APTimer(s)) /\ WF_vars(APResume(s))
  /\ WF_vars(APRequest) /\ WF_vars(APResponse)
  /\ WF_vars(CSHandleAuth) /\ WF_vars(DeliverCopy)

FairSpec == Spec /\ Fairness
-----------------------------------------------------------------------------
Task == [user : Host, right : BOOLEAN, answer : Response,
         future : {"pending", "answered", "cancelled", "done"}]

\* Every variable holds values of its type.
TypeOK ==
  /\ phase \in [Host -> {"idle", "waiting", "answered"}]
  /\ result \in [Host -> BOOLEAN] /\ authenticated \in [Host -> BOOLEAN]
  /\ calls \in [Host -> Nat] /\ accepts \in [Host -> Nat] /\ hurried \in BOOLEAN
  /\ hq \in [Host -> Seq(Response)]
  /\ up \in Seq(Request) /\ csq \in Seq(Request)
  /\ down \in Seq(Response) /\ copies \in Seq(Response)
  /\ tasks \in Seq(Task) /\ pending \subseteq DOMAIN tasks
  /\ local_users \in [Host -> {"absent", "authenticated", "refused"}]

\* _pending_auth neither leaks nor loses a request: every handler that still
\* waits is in it, and only handlers that have not resumed are.
PendingExact ==
  \A s \in DOMAIN tasks :
    /\ tasks[s].future = "pending" => s \in pending
    /\ s \in pending => tasks[s].future \in {"pending", "cancelled"}

\* Each success the AP passes on uses up an acceptance of its own: without
\* duplicates, as many handlers end in success as the CS has accepted.
GrantsBacked ==
  ~Duplicated =>
    \A u \in Host :
      Cardinality({s \in DOMAIN tasks : /\ tasks[s].future \in {"answered", "done"}
                                        /\ tasks[s].answer = [user |-> u, success |-> TRUE]})
        <= accepts[u]

\* Whatever is late, doubled or timed out, a user the AP lets through is in the
\* neighbour cache or has a handler of its own that ended with an acceptance the CS
\* has given, if perhaps to another user.
OnlyVerifiedUsers ==
  \A h \in Host \ Cached : local_users[h] = "authenticated" =>
    \E s \in DOMAIN tasks :
      /\ tasks[s].user = h /\ tasks[s].future = "done"
      /\ tasks[s].answer.success /\ accepts[tasks[s].answer.user] > 0

\* While no timer fires early and nobody types a wrong password, no handler ends
\* in failure, although the AP gives answers to requests by order of arrival.
ValidCredentialsGranted ==
  ~hurried /\ (\A s \in DOMAIN tasks : tasks[s].right) =>
    \A s \in DOMAIN tasks : tasks[s].future = "done" => tasks[s].answer.success

\* Every authenticate() call returns and every handler at the AP ends.
EverythingEnds ==
  /\ \A h \in Host : phase[h] # "idle" ~> phase[h] = "idle"
  /\ \A s \in Ids : s \in Suspended ~> s \notin Suspended

\* access_point.py:65, _pending_auth maps "request_id -> future": an answer
\* completes the future of the request it answers.
AnswerMatchesRequest ==
  \A s \in DOMAIN tasks : tasks[s].future = "answered"
                            => tasks[s].answer.user = tasks[s].user
=============================================================================
