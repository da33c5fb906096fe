--------------------------- MODULE AuthProxyProofs ---------------------------
(***************************************************************************)
(* Theorems about AuthProxy, for any number of hosts and calls, every way  *)
(* of running the AP and every network.                                    *)
(***************************************************************************)
EXTENDS AuthProxy, SequenceTheorems, FiniteSetTheorems, TLAPS

LEMMA BroadcastType ==
  ASSUME NEW queues \in [Host -> Seq(Response)], NEW m \in Response
  PROVE  Broadcast(queues, m) \in [Host -> Seq(Response)]
<1>1. \A h \in Host : Append(queues[h], m) \in Seq(Response)
  BY AppendProperties
<1> QED
  BY <1>1 DEF Broadcast

\* Completing or cancelling a future keeps the list of handlers well-formed.
LEMMA SetTask ==
  ASSUME NEW T, NEW ts \in Seq(T), NEW s \in DOMAIN ts, NEW t \in T
  PROVE  /\ [ts EXCEPT ![s] = t] \in Seq(T)
         /\ DOMAIN [ts EXCEPT ![s] = t] = DOMAIN ts
  BY ExceptSeq, LenProperties

LEMMA InitTypeOK == Init => TypeOK
<1> SUFFICES ASSUME Init PROVE TypeOK
  OBVIOUS
<1>1. hurried \in BOOLEAN
  BY DEF Init
<1>2. tasks = <<>> /\ tasks \in Seq(Task) /\ pending \subseteq DOMAIN tasks
  BY EmptySeq DEF Init
<1> QED
  BY <1>1, <1>2, EmptySeq DEF Init, TypeOK

LEMMA NextTypeOK == TypeOK /\ [Next]_vars => TypeOK'
<1> SUFFICES ASSUME TypeOK, [Next]_vars PROVE TypeOK'
  OBVIOUS
<1> USE DEF hostVars, apVars, history
<1>1. ASSUME NEW h \in Host, NEW right \in Passwords, Authenticate(h, right)
      PROVE  TypeOK'
  <2> DEFINE m == [user |-> h, right |-> right]
  <2>1. m \in Request
    BY ConfigTypes DEF Request
  <2>2. up' = Append(up, m)
    BY <1>1 DEF Authenticate
  <2> HIDE DEF m
  <2>3. up' \in Seq(Request)
    BY <2>1, <2>2, AppendProperties DEF TypeOK
  <2> QED
    BY <1>1, <2>3 DEF Authenticate, TypeOK
<1>2. ASSUME NEW h \in Host, HostReceive(h)
      PROVE  TypeOK'
  <2>1. Head(hq[h]) \in Response /\ Tail(hq[h]) \in Seq(Response)
    BY <1>2, HeadTailProperties DEF HostReceive, TypeOK
  <2>2. Head(hq[h]).success \in BOOLEAN
    BY <2>1 DEF Response
  <2>3. hq' \in [Host -> Seq(Response)]
    BY <1>2, <2>1 DEF HostReceive, TypeOK
  <2>4. phase' \in [Host -> {"idle", "waiting", "answered"}] /\ result' \in [Host -> BOOLEAN]
    BY <1>2, <2>2 DEF HostReceive, TypeOK
  <2> QED
    BY <1>2, <2>3, <2>4 DEF HostReceive, TypeOK
<1>3. ASSUME NEW h \in Host, HostResume(h)
      PROVE  TypeOK'
  BY <1>3 DEF HostResume, TypeOK
<1>4. ASSUME NEW h \in Host, HostTimeout(h)
      PROVE  TypeOK'
  BY <1>4 DEF HostTimeout, TypeOK
<1>5. CASE APRequest
  <2>1. Head(up) \in Request /\ up' \in Seq(Request)
    BY <1>5, HeadTailProperties DEF APRequest, TypeOK
  <2>2. Head(up).user \in Host /\ Head(up).right \in BOOLEAN
    BY <2>1 DEF Request
  <2>3. CASE Head(up).user \in Cached
    <3> DEFINE r == [user |-> Head(up).user, success |-> TRUE]
    <3>1. r \in Response
      BY <2>2 DEF Response
    <3>2. /\ local_users' = [local_users EXCEPT ![Head(up).user] =
                               IF r.success THEN "authenticated" ELSE "refused"]
          /\ hq' = Broadcast(hq, r)
          /\ UNCHANGED <<tasks, pending, csq>>
      BY <1>5, <2>3 DEF APRequest, Finish
    <3> HIDE DEF r
    <3>3. hq' \in [Host -> Seq(Response)]
      BY <3>1, <3>2, BroadcastType DEF TypeOK
    <3> QED
      BY <1>5, <2>1, <2>2, <3>2, <3>3 DEF APRequest, TypeOK
  <2>4. CASE Head(up).user \notin Cached
    <3> DEFINE t == [user |-> Head(up).user, right |-> Head(up).right,
                     future |-> "pending",
                     answer |-> [user |-> Head(up).user, success |-> FALSE]]
    <3>1. t \in Task
      BY <2>2 DEF Task, Response
    <3>2. /\ tasks' = Append(tasks, t)
          /\ pending' = pending \cup {Len(tasks) + 1}
          /\ csq' = Append(csq, Head(up))
          /\ UNCHANGED <<local_users, hq>>
      BY <1>5, <2>4 DEF APRequest
    <3> HIDE DEF t
    <3>3. tasks' \in Seq(Task) /\ csq' \in Seq(Request)
      BY <2>1, <3>1, <3>2, AppendProperties DEF TypeOK
    <3>4. pending' \subseteq DOMAIN tasks'
      <4>1. Len(tasks) \in Nat /\ DOMAIN tasks = 1..Len(tasks)
        BY LenProperties DEF TypeOK
      <4>2. Len(tasks') = Len(tasks) + 1 /\ DOMAIN tasks' = 1..Len(tasks')
        BY <3>1, <3>2, <3>3, AppendProperties, LenProperties DEF TypeOK
      <4> QED
        BY <3>2, <4>1, <4>2 DEF TypeOK
    <3> QED
      BY <1>5, <2>1, <3>2, <3>3, <3>4 DEF APRequest, TypeOK
  <2> QED
    BY <2>3, <2>4
<1>6. CASE APResponse
  <2>1. Head(down) \in Response /\ down' \in Seq(Response)
    BY <1>6, HeadTailProperties DEF APResponse, TypeOK
  <2>2. tasks' \in Seq(Task) /\ pending' \subseteq DOMAIN tasks'
    <3>1. CASE UNCHANGED <<tasks, pending>>
      BY <3>1 DEF TypeOK
    <3>2. ASSUME NEW s \in pending, pending' = pending \ {s},
                 tasks' = IF tasks[s].future = "pending"
                          THEN [tasks EXCEPT ![s] = [@ EXCEPT !.future = "answered",
                                                              !.answer = Head(down)]]
                          ELSE tasks
          PROVE  tasks' \in Seq(Task) /\ pending' \subseteq DOMAIN tasks'
      <4>1. s \in DOMAIN tasks /\ tasks[s] \in Task
        BY ElementOfSeq, LenProperties DEF TypeOK
      <4> DEFINE t == [tasks[s] EXCEPT !.future = "answered", !.answer = Head(down)]
      <4>2. t \in Task
        BY <2>1, <4>1 DEF Task
      <4>3. tasks' = tasks \/ tasks' = [tasks EXCEPT ![s] = t]
        BY <3>2, <4>1
      <4> HIDE DEF t
      <4> QED
        BY <3>2, <4>1, <4>2, <4>3, SetTask DEF TypeOK
    <3> QED
      BY <1>6, <3>1, <3>2 DEF APResponse
  <2> QED
    BY <1>6, <2>1, <2>2 DEF APResponse, TypeOK
<1>7. ASSUME NEW s \in DOMAIN tasks, APTimer(s)
      PROVE  TypeOK'
  <2>1. tasks[s] \in Task
    BY ElementOfSeq, LenProperties DEF TypeOK
  <2> DEFINE t == [tasks[s] EXCEPT !.future = "cancelled"]
  <2>2. t \in Task
    BY <2>1 DEF Task
  <2>3. tasks' = [tasks EXCEPT ![s] = t]
    BY <1>7 DEF APTimer
  <2> HIDE DEF t
  <2>4. tasks' \in Seq(Task) /\ DOMAIN tasks' = DOMAIN tasks
    BY <2>2, <2>3, SetTask DEF TypeOK
  <2> QED
    BY <1>7, <2>4 DEF APTimer, TypeOK
<1>8. ASSUME NEW s \in DOMAIN tasks, APResume(s)
      PROVE  TypeOK'
  <2>1. tasks[s] \in Task
    BY ElementOfSeq, LenProperties DEF TypeOK
  <2> DEFINE answer == IF tasks[s].future = "answered" THEN tasks[s].answer
                       ELSE [user |-> tasks[s].user, success |-> FALSE]
  <2>2. answer \in Response /\ tasks[s].user \in Host
    BY <2>1 DEF Task, Response
  <2>3. /\ tasks' = [tasks EXCEPT ![s] = [@ EXCEPT !.future = "done", !.answer = answer]]
        /\ pending' = pending \ {s}
        /\ local_users' = [local_users EXCEPT ![tasks[s].user] =
                             IF answer.success THEN "authenticated" ELSE "refused"]
        /\ hq' = Broadcast(hq, answer)
    BY <1>8 DEF APResume, Finish
  <2> HIDE DEF answer
  <2> DEFINE t == [tasks[s] EXCEPT !.future = "done", !.answer = answer]
  <2>4. t \in Task
    BY <2>1, <2>2 DEF Task
  <2>5. tasks' = [tasks EXCEPT ![s] = t]
    BY <2>3
  <2> HIDE DEF t
  <2>6. tasks' \in Seq(Task) /\ DOMAIN tasks' = DOMAIN tasks
    BY <2>4, <2>5, SetTask DEF TypeOK
  <2>7. hq' \in [Host -> Seq(Response)]
    BY <2>2, <2>3, BroadcastType DEF TypeOK
  <2>8. pending' \subseteq DOMAIN tasks'
    BY <2>3, <2>6 DEF TypeOK
  <2>9. local_users' \in [Host -> {"absent", "authenticated", "refused"}]
    BY <2>2, <2>3 DEF TypeOK
  <2> QED
    BY <1>8, <2>6, <2>7, <2>8, <2>9 DEF APResume, TypeOK
<1>9. CASE CSHandleAuth
  <2> DEFINE req == Head(csq)
             r == [user |-> req.user, success |-> req.right]
  <2>1. req \in Request /\ csq' \in Seq(Request)
    BY <1>9, HeadTailProperties DEF CSHandleAuth, TypeOK
  <2>2. r \in Response /\ req.user \in Host
    BY <2>1 DEF Request, Response
  <2>3. /\ accepts' = IF req.right THEN [accepts EXCEPT ![req.user] = @ + 1] ELSE accepts
        /\ down' = Append(down, r)
        /\ copies' = IF Duplicated THEN Append(copies, r) ELSE copies
        /\ hq' = IF HostsHearCS THEN Broadcast(hq, r) ELSE hq
    BY <1>9 DEF CSHandleAuth
  <2> HIDE DEF req, r
  <2>4. down' \in Seq(Response) /\ copies' \in Seq(Response)
    BY <2>2, <2>3, AppendProperties DEF TypeOK
  <2>5. hq' \in [Host -> Seq(Response)]
    BY <2>2, <2>3, BroadcastType DEF TypeOK
  <2>6. accepts' \in [Host -> Nat]
    BY <2>2, <2>3 DEF TypeOK
  <2> QED
    BY <1>9, <2>1, <2>4, <2>5, <2>6 DEF CSHandleAuth, TypeOK
<1>10. CASE DeliverCopy
  <2>1. Head(copies) \in Response /\ copies' \in Seq(Response)
    BY <1>10, HeadTailProperties DEF DeliverCopy, TypeOK
  <2>2. down' \in Seq(Response)
    BY <1>10, <2>1, AppendProperties DEF DeliverCopy, TypeOK
  <2> QED
    BY <1>10, <2>1, <2>2 DEF DeliverCopy, TypeOK
<1>11. CASE UNCHANGED vars
  BY <1>11 DEF vars, TypeOK
<1> QED
  BY <1>1, <1>2, <1>3, <1>4, <1>5, <1>6, <1>7, <1>8, <1>9, <1>10, <1>11 DEF Next

\* Type correctness of the hosts, the AP, the CS and the queues between them.
THEOREM TypeCorrect == Spec => []TypeOK
<1> QED
  BY InitTypeOK, NextTypeOK, PTL DEF Spec
-----------------------------------------------------------------------------
\* What the steps that change one future do to the list of handlers.
LEMMA TaskStep ==
  ASSUME TypeOK, NEW s \in DOMAIN tasks, NEW t, tasks' = [tasks EXCEPT ![s] = t]
  PROVE  /\ DOMAIN tasks' = DOMAIN tasks
         /\ tasks'[s] = t
         /\ \A k \in DOMAIN tasks : k # s => tasks'[k] = tasks[k]
  BY LenProperties DEF TypeOK

LEMMA NextPendingExact == TypeOK /\ PendingExact /\ [Next]_vars => PendingExact'
<1> SUFFICES ASSUME TypeOK, PendingExact, [Next]_vars PROVE PendingExact'
  OBVIOUS
<1> USE DEF hostVars, apVars, history
<1>1. \A k \in DOMAIN tasks : tasks[k] \in Task
  BY ElementOfSeq, LenProperties DEF TypeOK
<1>2. CASE APRequest
  <2>1. CASE UNCHANGED <<tasks, pending>>
    BY <2>1 DEF PendingExact
  <2>2. CASE Head(up).user \notin Cached
    <3> DEFINE t == [user |-> Head(up).user, right |-> Head(up).right,
                     future |-> "pending",
                     answer |-> [user |-> Head(up).user, success |-> FALSE]]
    <3>1. tasks' = Append(tasks, t) /\ pending' = pending \cup {Len(tasks) + 1}
      BY <1>2, <2>2 DEF APRequest
    <3>2. t.future = "pending"
      OBVIOUS
    <3>3. t \in Task
      <4>1. Head(up) \in Request
        BY <1>2, HeadTailProperties DEF APRequest, TypeOK
      <4> QED
        BY <4>1 DEF Request, Response, Task
    <3> HIDE DEF t
    <3>4. /\ Len(tasks) \in Nat /\ DOMAIN tasks = 1..Len(tasks)
          /\ DOMAIN tasks' = 1..(Len(tasks) + 1)
          /\ tasks'[Len(tasks) + 1] = t
          /\ \A k \in 1..Len(tasks) : tasks'[k] = tasks[k]
      BY <3>1, <3>3, AppendProperties, LenProperties DEF TypeOK
    <3>5. pending \subseteq 1..Len(tasks)
      BY <3>4 DEF TypeOK
    <3>6. ASSUME NEW k \in DOMAIN tasks'
          PROVE  /\ tasks'[k].future = "pending" => k \in pending'
                 /\ k \in pending' => tasks'[k].future \in {"pending", "cancelled"}
      <4>1. CASE k = Len(tasks) + 1
        BY <3>1, <3>2, <3>4, <4>1
      <4>2. CASE k # Len(tasks) + 1
        <5>1. k \in DOMAIN tasks /\ tasks'[k] = tasks[k]
          BY <3>4, <4>2
        <5> QED
          BY <3>1, <4>2, <5>1 DEF PendingExact
      <4> QED
        BY <4>1, <4>2
    <3> QED
      BY <3>6 DEF PendingExact
  <2> QED
    BY <1>2, <2>1, <2>2 DEF APRequest
<1>3. CASE APResponse
  <2>1. CASE UNCHANGED <<tasks, pending>>
    BY <2>1 DEF PendingExact
  <2>2. ASSUME NEW s \in pending, pending' = pending \ {s},
               tasks' = IF tasks[s].future = "pending"
                        THEN [tasks EXCEPT ![s] = [@ EXCEPT !.future = "answered",
                                                            !.answer = Head(down)]]
                        ELSE tasks
        PROVE  PendingExact'
    <3>1. s \in DOMAIN tasks
      BY DEF TypeOK
    <3>2. CASE tasks[s].future = "pending"
      <4> DEFINE t == [tasks[s] EXCEPT !.future = "answered", !.answer = Head(down)]
      <4>1. t.future = "answered"
        BY <1>1, <3>1 DEF Task
      <4>2. tasks' = [tasks EXCEPT ![s] = t]
        BY <2>2, <3>2
      <4> HIDE DEF t
      <4> QED
        BY <2>2, <3>1, <4>1, <4>2, TaskStep DEF PendingExact
    <3>3. CASE tasks[s].future # "pending"
      BY <2>2, <3>3 DEF PendingExact
    <3> QED
      BY <3>2, <3>3
  <2> QED
    BY <1>3, <2>1, <2>2 DEF APResponse
<1>4. ASSUME NEW s \in DOMAIN tasks, APTimer(s)
      PROVE  PendingExact'
  <2> DEFINE t == [tasks[s] EXCEPT !.future = "cancelled"]
  <2>1. t.future = "cancelled"
    BY <1>1 DEF Task
  <2>2. tasks' = [tasks EXCEPT ![s] = t] /\ pending' = pending
    BY <1>4 DEF APTimer
  <2> HIDE DEF t
  <2> QED
    BY <2>1, <2>2, TaskStep DEF PendingExact
<1>5. ASSUME NEW s \in DOMAIN tasks, APResume(s)
      PROVE  PendingExact'
  <2> DEFINE answer == IF tasks[s].future = "answered" THEN tasks[s].answer
                       ELSE [user |-> tasks[s].user, success |-> FALSE]
             t == [tasks[s] EXCEPT !.future = "done", !.answer = answer]
  <2>1. t.future = "done"
    BY <1>1 DEF Task
  <2>2. tasks' = [tasks EXCEPT ![s] = t] /\ pending' = pending \ {s}
    BY <1>5 DEF APResume
  <2> HIDE DEF t
  <2> QED
    BY <2>1, <2>2, TaskStep DEF PendingExact
<1>6. CASE UNCHANGED <<tasks, pending>>
  BY <1>6 DEF PendingExact
<1> QED
  BY <1>2, <1>3, <1>4, <1>5, <1>6 DEF Next, vars, Authenticate, HostReceive, HostResume,
     HostTimeout, CSHandleAuth, DeliverCopy

\* However answers, duplicates and timers interleave, _pending_auth holds
\* every request that still waits and no request whose handler has resumed.
THEOREM PendingExactAlways == Spec => []PendingExact
<1>1. Init => PendingExact
  BY DEF Init, PendingExact
<1>2. TypeOK /\ PendingExact /\ [Next]_vars => TypeOK' /\ PendingExact'
  BY NextTypeOK, NextPendingExact
<1> QED
  BY <1>1, <1>2, InitTypeOK, PTL DEF Spec
-----------------------------------------------------------------------------
(* Where acceptances come from.                                             *)

\* The answers the AP holds, in its queue, on their way and at its handlers.
Answers ==
  {down[i] : i \in 1..Len(down)} \cup {copies[i] : i \in 1..Len(copies)}
    \cup {tasks[s].answer : s \in 1..Len(tasks)}

\* An answer that says yes stems from an acceptance of the user it names.
Genuine == \A r \in Answers : r.success => accepts[r.user] > 0

LEMMA TaskIndices ==
  ASSUME TypeOK
  PROVE  DOMAIN tasks = 1..Len(tasks) /\ \A s \in 1..Len(tasks) : tasks[s] \in Task
  BY ElementOfSeq, LenProperties DEF TypeOK

\* What is appended to a queue or left of it is new or was in it.
LEMMA AppendElements ==
  ASSUME NEW T, NEW q \in Seq(T), NEW x \in T
  PROVE  \A i \in 1..Len(Append(q, x)) :
           Append(q, x)[i] = x \/ (i \in 1..Len(q) /\ Append(q, x)[i] = q[i])
  BY AppendProperties, LenProperties

LEMMA TailElements ==
  ASSUME NEW T, NEW q \in Seq(T), q # <<>>
  PROVE  /\ 1 \in 1..Len(q) /\ Head(q) = q[1] /\ Head(q) \in T
         /\ \A i \in 1..Len(Tail(q)) : i + 1 \in 1..Len(q) /\ Tail(q)[i] = q[i + 1]
<1>1. Len(q) \in Nat \ {0} /\ Head(q) = q[1]
  BY EmptySeq
<1> QED
  BY <1>1, HeadTailProperties

LEMMA GenuineKept ==
  ASSUME Genuine, \A r \in Answers' : r \in Answers \/ ~r.success,
         \A u : accepts[u] > 0 => accepts'[u] > 0
  PROVE  Genuine'
  BY DEF Genuine

\* The users let through stay verified while their handlers' results stay.
LEMMA VerifiedKept ==
  ASSUME OnlyVerifiedUsers, UNCHANGED local_users,
         \A s \in DOMAIN tasks : tasks[s].future = "done" => s \in DOMAIN tasks' /\ tasks'[s] = tasks[s],
         \A u : accepts[u] > 0 => accepts'[u] > 0
  PROVE  OnlyVerifiedUsers'
  BY DEF OnlyVerifiedUsers

\* A new handler has no answer yet, and the fast path lets in cached users only
\* (AccessPoint.handle_auth_request).
LEMMA GenuineRequest ==
  ASSUME TypeOK, Genuine, OnlyVerifiedUsers, APRequest
  PROVE  Genuine' /\ OnlyVerifiedUsers'
<1>1. Head(up) \in Request
  BY HeadTailProperties DEF APRequest, TypeOK
<1>2. UNCHANGED <<down, copies, accepts>>
  BY DEF APRequest, history
<1>3. CASE Head(up).user \in Cached
  <2>1. /\ UNCHANGED tasks
        /\ \A h \in Host \ Cached : local_users'[h] = local_users[h]
    BY <1>3 DEF APRequest, Finish, TypeOK
  <2> QED
    BY <1>2, <2>1 DEF Genuine, Answers, OnlyVerifiedUsers
<1>4. CASE Head(up).user \notin Cached
  <2> DEFINE t == [user |-> Head(up).user, right |-> Head(up).right, future |-> "pending",
                   answer |-> [user |-> Head(up).user, success |-> FALSE]]
  <2>1. tasks' = Append(tasks, t) /\ UNCHANGED local_users
    BY <1>4 DEF APRequest
  <2>2. t \in Task /\ ~t.answer.success
    BY <1>1 DEF Request, Response, Task
  <2> HIDE DEF t
  <2>3. /\ DOMAIN tasks = 1..Len(tasks) /\ DOMAIN tasks' = 1..(Len(tasks) + 1)
        /\ Len(tasks) \in Nat /\ Len(tasks') = Len(tasks) + 1
        /\ tasks'[Len(tasks) + 1] = t
        /\ \A s \in 1..Len(tasks) : tasks'[s] = tasks[s]
    BY <2>1, <2>2, AppendProperties, LenProperties DEF TypeOK
  <2>4. OnlyVerifiedUsers'
    BY <1>2, <2>1, <2>3, VerifiedKept
  <2>5. \A s \in 1..Len(tasks') : (s \in 1..Len(tasks) /\ tasks'[s] = tasks[s]) \/ tasks'[s] = t
    BY <2>3
  <2>6. \A r \in Answers' : r \in Answers \/ ~r.success
    BY <1>2, <2>2, <2>5 DEF Answers
  <2> QED
    BY <1>2, <2>4, <2>6, GenuineKept
<1> QED
  BY <1>3, <1>4

\* An answer completes a handler that waits, or is dropped
\* (AccessPoint._dispatch_control_signal).
LEMMA GenuineResponse ==
  ASSUME TypeOK, Genuine, OnlyVerifiedUsers, APResponse
  PROVE  Genuine' /\ OnlyVerifiedUsers'
<1>1. /\ down # <<>> /\ down' = Tail(down) /\ down \in Seq(Response)
      /\ UNCHANGED <<copies, accepts, local_users>>
  BY DEF APResponse, history, TypeOK
<1>2. /\ Head(down) \in Response /\ Head(down) \in Answers
      /\ \A i \in 1..Len(down') : down'[i] \in Answers
  BY <1>1, TailElements DEF Answers
<1> DEFINE Completed ==
       /\ DOMAIN tasks' = DOMAIN tasks
       /\ \A s \in DOMAIN tasks : \/ tasks'[s] = tasks[s]
                                  \/ tasks[s].future = "pending" /\ tasks'[s].answer = Head(down)
<1>3. Completed
  <2>1. CASE UNCHANGED tasks
    BY <2>1
  <2>2. ASSUME NEW s \in pending, tasks[s].future = "pending",
               tasks' = [tasks EXCEPT ![s] = [@ EXCEPT !.future = "answered", !.answer = Head(down)]]
        PROVE  Completed
    <3> DEFINE t == [tasks[s] EXCEPT !.future = "answered", !.answer = Head(down)]
    <3>1. s \in DOMAIN tasks /\ tasks[s] \in Task
      BY TaskIndices DEF TypeOK
    <3>2. t.answer = Head(down) /\ tasks' = [tasks EXCEPT ![s] = t]
      BY <2>2, <3>1 DEF Task
    <3> HIDE DEF t
    <3> QED
      BY <2>2, <3>1, <3>2
  <2>3. ASSUME NEW s \in pending, tasks[s].future # "pending", tasks' = tasks
        PROVE  Completed
    BY <2>3
  <2> HIDE DEF Completed
  <2> QED
    BY <2>1, <2>2, <2>3 DEF APResponse
<1>4. OnlyVerifiedUsers'
  BY <1>1, <1>3, VerifiedKept
<1>5. tasks' \in Seq(Task)
  BY NextTypeOK DEF TypeOK, Next
<1>6. 1..Len(tasks') = 1..Len(tasks)
  BY <1>3, <1>5, TaskIndices, LenProperties
<1>7. \A s \in 1..Len(tasks') : tasks'[s].answer \in Answers
  BY <1>2, <1>3, <1>6, TaskIndices DEF Answers
<1>8. \A r \in Answers' : r \in Answers
  BY <1>1, <1>2, <1>7 DEF Answers
<1> QED
  BY <1>1, <1>4, <1>8, GenuineKept

\* A timer only marks its handler.
LEMMA GenuineTimer ==
  ASSUME TypeOK, Genuine, OnlyVerifiedUsers, NEW s \in DOMAIN tasks, APTimer(s)
  PROVE  Genuine' /\ OnlyVerifiedUsers'
<1> DEFINE t == [tasks[s] EXCEPT !.future = "cancelled"]
<1>1. /\ UNCHANGED <<down, copies, accepts, local_users>>
      /\ tasks' = [tasks EXCEPT ![s] = t] /\ tasks[s].future # "done"
  BY DEF APTimer, Suspended
<1>2. t.answer = tasks[s].answer /\ t \in Task
  BY TaskIndices DEF Task
<1> HIDE DEF t
<1>3. /\ DOMAIN tasks' = DOMAIN tasks /\ 1..Len(tasks') = 1..Len(tasks)
      /\ \A k \in DOMAIN tasks : tasks'[k] = IF k = s THEN t ELSE tasks[k]
  BY <1>1, <1>2, SetTask, LenProperties DEF TypeOK
<1>4. OnlyVerifiedUsers'
  BY <1>1, <1>3, VerifiedKept
<1>5. \A k \in 1..Len(tasks') : tasks'[k].answer = tasks[k].answer
  BY <1>2, <1>3, TaskIndices
<1>6. \A r \in Answers' : r \in Answers
  BY <1>1, <1>3, <1>5 DEF Answers
<1> QED
  BY <1>1, <1>4, <1>6, GenuineKept

\* A handler that lets its user through has an answer that says yes
\* (AccessPoint.handle_auth_request).
LEMMA GenuineResume ==
  ASSUME TypeOK, Genuine, OnlyVerifiedUsers, NEW s \in DOMAIN tasks, APResume(s)
  PROVE  Genuine' /\ OnlyVerifiedUsers'
<1> DEFINE answer == IF tasks[s].future = "answered" THEN tasks[s].answer
                     ELSE [user |-> tasks[s].user, success |-> FALSE]
           t == [tasks[s] EXCEPT !.future = "done", !.answer = answer]
<1>1. /\ UNCHANGED <<down, copies, accepts>>
      /\ tasks' = [tasks EXCEPT ![s] = t] /\ tasks[s].future # "done"
      /\ local_users' = [local_users EXCEPT ![tasks[s].user] =
                           IF answer.success THEN "authenticated" ELSE "refused"]
  BY DEF APResume, Suspended, Finish, history
<1>2. tasks[s] \in Task /\ tasks[s].answer \in Answers
  BY TaskIndices DEF Answers
<1>3. answer \in Response /\ (answer \in Answers \/ ~answer.success)
  BY <1>2 DEF Task, Response
<1>4. answer.success => accepts[answer.user] > 0
  BY <1>3 DEF Genuine
<1> HIDE DEF answer
<1>5. t.answer = answer /\ t.future = "done" /\ t.user = tasks[s].user /\ t \in Task
  BY <1>2, <1>3 DEF Task
<1> HIDE DEF t
<1>6. /\ DOMAIN tasks' = DOMAIN tasks /\ 1..Len(tasks') = 1..Len(tasks)
      /\ \A k \in DOMAIN tasks : tasks'[k] = IF k = s THEN t ELSE tasks[k]
  BY <1>1, <1>5, SetTask, LenProperties DEF TypeOK
<1>7. OnlyVerifiedUsers'
  <2> SUFFICES ASSUME NEW h \in Host \ Cached, local_users'[h] = "authenticated"
               PROVE  \E k \in DOMAIN tasks' :
                        /\ tasks'[k].user = h /\ tasks'[k].future = "done"
                        /\ tasks'[k].answer.success /\ accepts'[tasks'[k].answer.user] > 0
    BY DEF OnlyVerifiedUsers
  <2>1. CASE h = tasks[s].user
    <3>1. answer.success
      BY <1>1, <2>1 DEF TypeOK
    <3> QED
      BY <1>1, <1>4, <1>5, <1>6, <2>1, <3>1
  <2>2. CASE h # tasks[s].user
    <3>1. local_users[h] = "authenticated"
      BY <1>1, <2>2 DEF TypeOK
    <3>2. PICK k \in DOMAIN tasks :
            /\ tasks[k].user = h /\ tasks[k].future = "done"
            /\ tasks[k].answer.success /\ accepts[tasks[k].answer.user] > 0
      BY <3>1 DEF OnlyVerifiedUsers
    <3> QED
      BY <1>1, <1>6, <3>2
  <2> QED
    BY <2>1, <2>2
<1>8. \A k \in 1..Len(tasks') : tasks'[k].answer \in Answers \/ ~tasks'[k].answer.success
  BY <1>3, <1>5, <1>6, TaskIndices DEF Answers
<1>9. \A r \in Answers' : r \in Answers \/ ~r.success
  BY <1>1, <1>8 DEF Answers
<1> QED
  BY <1>1, <1>7, <1>9, GenuineKept

\* The CS says yes only to what it counts as accepted
\* (ControlServer.handle_auth_request).
LEMMA GenuineCS ==
  ASSUME TypeOK, Genuine, OnlyVerifiedUsers, CSHandleAuth
  PROVE  Genuine' /\ OnlyVerifiedUsers'
<1> DEFINE req == Head(csq)
           r == [user |-> req.user, success |-> req.right]
<1>1. req \in Request
  BY HeadTailProperties DEF CSHandleAuth, TypeOK
<1>2. /\ accepts' = IF req.right THEN [accepts EXCEPT ![req.user] = @ + 1] ELSE accepts
      /\ down' = Append(down, r) /\ (copies' = Append(copies, r) \/ copies' = copies)
      /\ UNCHANGED <<tasks, local_users>>
  BY DEF CSHandleAuth, apVars
<1>3. /\ \A u : accepts[u] > 0 => accepts'[u] > 0
      /\ r.success => accepts'[r.user] > 0
  BY <1>1, <1>2 DEF TypeOK, Request
<1>4. r \in Response
  BY <1>1 DEF Request, Response
<1> HIDE DEF r, req
<1>5. \A a \in Answers' : a \in Answers \/ a = r
  <2>1. down \in Seq(Response) /\ copies \in Seq(Response)
    BY DEF TypeOK
  <2>2. \A i \in 1..Len(down') : down'[i] \in Answers \/ down'[i] = r
    BY <1>2, <1>4, <2>1, AppendElements DEF Answers
  <2>3. CASE copies' = Append(copies, r)
    <3>1. \A i \in 1..Len(copies') : copies'[i] \in Answers \/ copies'[i] = r
      BY <1>4, <2>1, <2>3, AppendElements DEF Answers
    <3> QED
      BY <1>2, <2>2, <3>1 DEF Answers
  <2>4. CASE copies' = copies
    BY <1>2, <2>2, <2>4 DEF Answers
  <2> QED
    BY <1>2, <2>3, <2>4
<1> QED
  BY <1>2, <1>3, <1>5, VerifiedKept DEF Genuine

\* A copy is an answer too.
LEMMA GenuineCopy ==
  ASSUME TypeOK, Genuine, OnlyVerifiedUsers, DeliverCopy
  PROVE  Genuine' /\ OnlyVerifiedUsers'
<1>1. /\ copies # <<>> /\ copies' = Tail(copies) /\ down' = Append(down, Head(copies))
      /\ UNCHANGED <<tasks, accepts, local_users>>
      /\ copies \in Seq(Response) /\ down \in Seq(Response)
  BY DEF DeliverCopy, apVars, history, TypeOK
<1>2. /\ Head(copies) \in Response /\ Head(copies) \in Answers
      /\ \A i \in 1..Len(copies') : copies'[i] \in Answers
  BY <1>1, TailElements DEF Answers
<1>3. \A i \in 1..Len(down') : down'[i] \in Answers
  <2>1. \A i \in 1..Len(down) : down[i] \in Answers
    BY DEF Answers
  <2>2. \A i \in 1..Len(down') : down'[i] = Head(copies) \/ (i \in 1..Len(down) /\ down'[i] = down[i])
    BY <1>1, <1>2, AppendElements
  <2> QED
    BY <1>2, <2>1, <2>2
<1>4. \A r \in Answers' : r \in Answers
  BY <1>1, <1>2, <1>3 DEF Answers
<1> QED
  BY <1>1, <1>4, GenuineKept, VerifiedKept

LEMMA NextGenuine ==
  TypeOK /\ Genuine /\ OnlyVerifiedUsers /\ [Next]_vars => Genuine' /\ OnlyVerifiedUsers'
<1> SUFFICES ASSUME TypeOK, Genuine, OnlyVerifiedUsers, [Next]_vars
             PROVE  Genuine' /\ OnlyVerifiedUsers'
  OBVIOUS
<1>1. CASE UNCHANGED <<down, copies, tasks, accepts, local_users>>
  BY <1>1 DEF Genuine, Answers, OnlyVerifiedUsers
<1>2. CASE Next
  <2>1. ASSUME NEW h \in Host,
               \/ \E right \in Passwords : Authenticate(h, right)
               \/ HostReceive(h) \/ HostResume(h) \/ HostTimeout(h)
        PROVE  UNCHANGED <<down, copies, tasks, accepts, local_users>>
    BY <2>1 DEF Authenticate, HostReceive, HostResume, HostTimeout, apVars, history
  <2> QED
    BY <1>1, <1>2, <2>1, GenuineRequest, GenuineResponse, GenuineTimer, GenuineResume,
       GenuineCS, GenuineCopy DEF Next
<1> QED
  BY <1>1, <1>2 DEF vars, apVars, history

\* Nobody outside the neighbour cache is let through unless a handler of his own
\* ended with an acceptance that the CS has given to somebody.
THEOREM OnlyVerifiedUsersAlways == Spec => []OnlyVerifiedUsers
<1>1. Init => Genuine /\ OnlyVerifiedUsers
  BY EmptySeq DEF Init, Genuine, Answers, OnlyVerifiedUsers
<1> QED
  BY <1>1, InitTypeOK, NextTypeOK, NextGenuine, PTL DEF Spec
-----------------------------------------------------------------------------
(* No acceptance is used twice.                                             *)

Yes(u) == [user |-> u, success |-> TRUE]

\* The places of x in the queue q, and the handlers that have been given Yes(u).
At(q, x) == {i \in 1..Len(q) : q[i] = x}
Given(u) == {s \in DOMAIN tasks : /\ tasks[s].future \in {"answered", "done"}
                                  /\ tasks[s].answer = Yes(u)}

\* The acceptances that are given away or wait at the AP are different ones.
Backed ==
  ~Duplicated =>
    /\ copies = <<>>
    /\ \A u \in Host : Cardinality(Given(u)) + Cardinality(At(down, Yes(u))) <= accepts[u]

LEMMA AtFinite ==
  ASSUME NEW T, NEW q \in Seq(T), NEW x
  PROVE  IsFiniteSet(At(q, x)) /\ Cardinality(At(q, x)) \in Nat
<1>1. Len(q) \in Nat /\ At(q, x) \in SUBSET (1..Len(q))
  BY LenProperties DEF At
<1>2. IsFiniteSet(1..Len(q))
  BY <1>1, FS_Interval
<1>3. IsFiniteSet(At(q, x))
  BY <1>1, <1>2, FS_Subset
<1> QED
  BY <1>3, FS_CardinalityType

LEMMA GivenFinite ==
  ASSUME TypeOK, NEW u
  PROVE  IsFiniteSet(Given(u)) /\ Cardinality(Given(u)) \in Nat
<1>1. tasks \in Seq(Task)
  BY DEF TypeOK
<1>2. Len(tasks) \in Nat /\ Given(u) \in SUBSET (1..Len(tasks))
  BY <1>1, LenProperties DEF Given
<1>3. IsFiniteSet(1..Len(tasks))
  BY <1>2, FS_Interval
<1>4. IsFiniteSet(Given(u))
  BY <1>2, <1>3, FS_Subset
<1> QED
  BY <1>4, FS_CardinalityType

\* Appending adds at most one place, and only for the element appended.
LEMMA AtAppend ==
  ASSUME NEW T, NEW q \in Seq(T), NEW y \in T, NEW x
  PROVE  Cardinality(At(Append(q, y), x)) <= Cardinality(At(q, x)) + (IF y = x THEN 1 ELSE 0)
<1>1. /\ Len(q) \in Nat /\ Len(Append(q, y)) = Len(q) + 1 /\ Append(q, y)[Len(q) + 1] = y
      /\ \A i \in 1..Len(q) : Append(q, y)[i] = q[i]
  BY AppendProperties, LenProperties
<1>2. IsFiniteSet(At(q, x)) /\ Cardinality(At(q, x)) \in Nat
  BY AtFinite
<1>3. CASE y = x
  <2>1. At(Append(q, y), x) = At(q, x) \cup {Len(q) + 1} /\ Len(q) + 1 \notin At(q, x)
    BY <1>1, <1>3 DEF At
  <2>2. Cardinality(At(q, x) \cup {Len(q) + 1}) = Cardinality(At(q, x)) + 1
    BY <1>2, <2>1, FS_AddElement
  <2> QED
    BY <1>2, <1>3, <2>1, <2>2
<1>4. CASE y # x
  <2>1. At(Append(q, y), x) = At(q, x)
    BY <1>1, <1>4 DEF At
  <2> QED
    BY <1>2, <1>4, <2>1
<1> QED
  BY <1>3, <1>4

\* Taking the head off removes its place.
LEMMA AtTail ==
  ASSUME NEW T, NEW q \in Seq(T), q # <<>>, NEW x
  PROVE  Cardinality(At(Tail(q), x)) + (IF Head(q) = x THEN 1 ELSE 0) <= Cardinality(At(q, x))
<1> DEFINE shift == [i \in At(Tail(q), x) |-> i + 1]
<1>1. /\ 1 \in 1..Len(q) /\ Head(q) = q[1]
      /\ \A i \in 1..Len(Tail(q)) : i + 1 \in 1..Len(q) /\ Tail(q)[i] = q[i + 1]
  BY TailElements
<1>2. IsFiniteSet(At(q, x)) /\ Cardinality(At(q, x)) \in Nat
  BY AtFinite
<1>3. Tail(q) \in Seq(T) /\ Len(Tail(q)) \in Nat
  BY HeadTailProperties, LenProperties
<1>4. \A i \in At(Tail(q), x) : i \in Nat \ {0} /\ i + 1 \in At(q, x) \ {1}
  BY <1>1, <1>3 DEF At
<1>5. shift \in Injection(At(Tail(q), x), At(q, x) \ {1})
  BY <1>4 DEF Injection, IsInjective
<1>6. /\ IsFiniteSet(At(q, x) \ {1})
      /\ Cardinality(At(q, x) \ {1}) = Cardinality(At(q, x)) - (IF 1 \in At(q, x) THEN 1 ELSE 0)
  BY <1>2, FS_RemoveElement
<1>7. Cardinality(At(Tail(q), x)) <= Cardinality(At(q, x) \ {1})
  BY <1>5, <1>6, FS_Injection
<1>8. 1 \in At(q, x) <=> Head(q) = x
  BY <1>1 DEF At
<1>9. Cardinality(At(Tail(q), x)) \in Nat
  BY <1>3, AtFinite
<1> QED
  BY <1>2, <1>6, <1>7, <1>8, <1>9

\* A step that gives nothing away and leaves the queue and the CS alone.
LEMMA BackedKept ==
  ASSUME TypeOK, Backed, UNCHANGED <<down, copies, accepts>>,
         \A u \in Host : Given(u)' \subseteq Given(u)
  PROVE  Backed'
<1> SUFFICES ASSUME ~Duplicated, NEW u \in Host
             PROVE  /\ copies' = <<>>
                    /\ Cardinality(Given(u)') + Cardinality(At(down, Yes(u))) <= accepts[u]
  BY DEF Backed, At
<1>1. Cardinality(Given(u)') <= Cardinality(Given(u)) /\ Cardinality(Given(u)') \in Nat
  BY GivenFinite, FS_Subset, FS_CardinalityType
<1>2. Cardinality(At(down, Yes(u))) \in Nat /\ Cardinality(Given(u)) \in Nat /\ accepts[u] \in Nat
  BY AtFinite, GivenFinite DEF TypeOK
<1>3. copies = <<>> /\ Cardinality(Given(u)) + Cardinality(At(down, Yes(u))) <= accepts[u]
  BY DEF Backed
<1> QED
  BY <1>1, <1>2, <1>3

\* A new handler has been given nothing.
LEMMA BackedRequest == ASSUME TypeOK, Backed, APRequest PROVE Backed'
<1>1. Head(up) \in Request /\ tasks \in Seq(Task)
  BY HeadTailProperties DEF APRequest, TypeOK
<1>2. UNCHANGED <<down, copies, accepts>>
  BY DEF APRequest, history
<1>3. CASE Head(up).user \in Cached
  <2>1. tasks' = tasks
    BY <1>3 DEF APRequest
  <2>2. \A u \in Host : Given(u)' \subseteq Given(u)
    BY <2>1 DEF Given
  <2> QED
    BY <1>2, <2>2, BackedKept
<1>4. CASE Head(up).user \notin Cached
  <2> DEFINE t == [user |-> Head(up).user, right |-> Head(up).right, future |-> "pending",
                   answer |-> [user |-> Head(up).user, success |-> FALSE]]
  <2>1. tasks' = Append(tasks, t)
    BY <1>4 DEF APRequest
  <2>2. t \in Task /\ t.future = "pending"
    BY <1>1 DEF Request, Response, Task
  <2> HIDE DEF t
  <2>3. /\ DOMAIN tasks' = DOMAIN tasks \cup {Len(tasks) + 1}
        /\ tasks'[Len(tasks) + 1] = t
        /\ \A s \in DOMAIN tasks : tasks'[s] = tasks[s]
    BY <1>1, <2>1, <2>2, AppendProperties, LenProperties
  <2>4. \A u \in Host : Given(u)' \subseteq Given(u)
    BY <2>2, <2>3 DEF Given
  <2> QED
    BY <1>2, <2>4, BackedKept
<1> QED
  BY <1>3, <1>4

\* A timer takes back what its handler has not seen yet.
LEMMA BackedTimer ==
  ASSUME TypeOK, Backed, NEW s \in DOMAIN tasks, APTimer(s) PROVE Backed'
<1> DEFINE t == [tasks[s] EXCEPT !.future = "cancelled"]
<1>1. /\ UNCHANGED <<down, copies, accepts>>
      /\ tasks' = [tasks EXCEPT ![s] = t]
  BY DEF APTimer
<1>2. t.future = "cancelled"
  BY TaskIndices DEF Task
<1> HIDE DEF t
<1>3. \A u \in Host : Given(u)' \subseteq Given(u)
  BY <1>1, <1>2 DEF Given
<1> QED
  BY <1>1, <1>3, BackedKept

\* A handler that resumes keeps the answer it was given.
LEMMA BackedResume ==
  ASSUME TypeOK, Backed, NEW s \in DOMAIN tasks, APResume(s) PROVE Backed'
<1> DEFINE answer == IF tasks[s].future = "answered" THEN tasks[s].answer
                     ELSE [user |-> tasks[s].user, success |-> FALSE]
           t == [tasks[s] EXCEPT !.future = "done", !.answer = answer]
<1>1. /\ UNCHANGED <<down, copies, accepts>>
      /\ tasks' = [tasks EXCEPT ![s] = t]
  BY DEF APResume, history
<1>2. t.answer = answer
  BY TaskIndices DEF Task
<1>3. (tasks[s].future = "answered" /\ answer = tasks[s].answer) \/ ~answer.success
  OBVIOUS
<1> HIDE DEF answer, t
<1>4. \A u \in Host : Given(u)' \subseteq Given(u)
  BY <1>1, <1>2, <1>3 DEF Given, Yes
<1> QED
  BY <1>1, <1>4, BackedKept

\* An answer leaves the queue and is given to one handler at most
\* (AccessPoint._dispatch_control_signal).
LEMMA BackedResponse == ASSUME TypeOK, Backed, APResponse PROVE Backed'
<1>1. /\ down # <<>> /\ down' = Tail(down) /\ down \in Seq(Response)
      /\ UNCHANGED <<copies, accepts>>
  BY DEF APResponse, history, TypeOK
<1>2. \/ tasks' = tasks
      \/ \E s \in DOMAIN tasks : /\ \A k \in DOMAIN tasks : k # s => tasks'[k] = tasks[k]
                                 /\ DOMAIN tasks' = DOMAIN tasks
                                 /\ tasks[s].future = "pending"
                                 /\ tasks'[s].answer = Head(down)
  <2>1. ASSUME NEW s \in pending, tasks[s].future = "pending",
               tasks' = [tasks EXCEPT ![s] = [@ EXCEPT !.future = "answered", !.answer = Head(down)]]
        PROVE  /\ s \in DOMAIN tasks /\ DOMAIN tasks' = DOMAIN tasks
               /\ \A k \in DOMAIN tasks : k # s => tasks'[k] = tasks[k]
               /\ tasks'[s].answer = Head(down)
    <3> DEFINE t == [tasks[s] EXCEPT !.future = "answered", !.answer = Head(down)]
    <3>1. s \in DOMAIN tasks /\ tasks[s] \in Task
      BY TaskIndices DEF TypeOK
    <3>2. t.answer = Head(down) /\ tasks' = [tasks EXCEPT ![s] = t]
      BY <2>1, <3>1 DEF Task
    <3> HIDE DEF t
    <3> QED
      BY <3>1, <3>2
  <2> QED
    BY <2>1 DEF APResponse
<1> SUFFICES ASSUME ~Duplicated, NEW u \in Host
             PROVE  /\ copies' = <<>>
                    /\ Cardinality(Given(u)') + Cardinality(At(down', Yes(u))) <= accepts[u]
  BY <1>1 DEF Backed, At
<1> DEFINE one == IF Head(down) = Yes(u) THEN 1 ELSE 0
<1>3. copies' = <<>> /\ Cardinality(Given(u)) + Cardinality(At(down, Yes(u))) <= accepts[u]
  BY <1>1 DEF Backed
<1>4. /\ Cardinality(At(down, Yes(u))) \in Nat /\ Cardinality(At(down', Yes(u))) \in Nat
      /\ Cardinality(Given(u)) \in Nat /\ accepts[u] \in Nat
  BY <1>1, AtFinite, GivenFinite, HeadTailProperties DEF TypeOK
<1>5. Cardinality(At(down', Yes(u))) + one <= Cardinality(At(down, Yes(u)))
  BY <1>1, AtTail
<1>6. Cardinality(Given(u)') \in Nat /\ Cardinality(Given(u)') <= Cardinality(Given(u)) + one
  <2>1. CASE tasks' = tasks
    <3>1. Given(u)' = Given(u)
      BY <2>1 DEF Given
    <3> QED
      BY <1>4, <3>1
  <2>2. ASSUME NEW s \in DOMAIN tasks, DOMAIN tasks' = DOMAIN tasks,
               \A k \in DOMAIN tasks : k # s => tasks'[k] = tasks[k],
               tasks[s].future = "pending", tasks'[s].answer = Head(down)
        PROVE  <1>6
    <3>1. CASE Head(down) = Yes(u)
      <4>1. Given(u)' \in SUBSET (Given(u) \cup {s})
        BY <2>2 DEF Given
      <4>2. /\ IsFiniteSet(Given(u) \cup {s})
            /\ Cardinality(Given(u) \cup {s}) <= Cardinality(Given(u)) + 1
            /\ Cardinality(Given(u) \cup {s}) \in Nat
        <5>1. IsFiniteSet(Given(u))
          BY GivenFinite
        <5>2. /\ IsFiniteSet(Given(u) \cup {s})
              /\ Cardinality(Given(u) \cup {s}) =
                   IF s \in Given(u) THEN Cardinality(Given(u)) ELSE Cardinality(Given(u)) + 1
          BY <5>1, FS_AddElement
        <5> QED
          BY <1>4, <5>2
      <4>3. IsFiniteSet(Given(u)') /\ Cardinality(Given(u)') <= Cardinality(Given(u) \cup {s})
        BY <4>1, <4>2, FS_Subset
      <4>4. Cardinality(Given(u)') \in Nat
        BY <4>3, FS_CardinalityType
      <4> QED
        BY <1>4, <3>1, <4>2, <4>3, <4>4
    <3>2. CASE Head(down) # Yes(u)
      <4>1. Given(u)' \in SUBSET Given(u)
        BY <2>2, <3>2 DEF Given
      <4>2. IsFiniteSet(Given(u)') /\ Cardinality(Given(u)') <= Cardinality(Given(u))
        BY <4>1, GivenFinite, FS_Subset
      <4>3. Cardinality(Given(u)') \in Nat
        BY <4>2, FS_CardinalityType
      <4> QED
        BY <1>4, <3>2, <4>2, <4>3
    <3> QED
      BY <3>1, <3>2
  <2> QED
    BY <1>2, <2>1, <2>2
<1> HIDE DEF one
<1>7. one \in {0, 1}
  BY DEF one
<1> QED
  BY <1>3, <1>4, <1>5, <1>6, <1>7

\* The CS sends one success per acceptance (ControlServer.handle_auth_request).
LEMMA BackedCS == ASSUME TypeOK, Backed, CSHandleAuth PROVE Backed'
<1> DEFINE req == Head(csq)
           r == [user |-> req.user, success |-> req.right]
<1>1. req \in Request /\ down \in Seq(Response)
  BY HeadTailProperties DEF CSHandleAuth, TypeOK
<1>2. /\ accepts' = IF req.right THEN [accepts EXCEPT ![req.user] = @ + 1] ELSE accepts
      /\ down' = Append(down, r) /\ (~Duplicated => copies' = copies)
      /\ UNCHANGED tasks
  BY DEF CSHandleAuth, apVars
<1>3. r \in Response
  BY <1>1 DEF Request, Response
<1> SUFFICES ASSUME ~Duplicated, NEW u \in Host
             PROVE  /\ copies' = <<>>
                    /\ Cardinality(Given(u)) + Cardinality(At(down', Yes(u))) <= accepts'[u]
  BY <1>2 DEF Backed, At, Given
<1> DEFINE one == IF r = Yes(u) THEN 1 ELSE 0
<1>4. accepts'[u] = accepts[u] + one
  <2>1. (r = Yes(u)) <=> (req.right /\ req.user = u)
    BY <1>1 DEF Yes, Request
  <2>2. accepts \in [Host -> Nat] /\ req.user \in Host
    BY <1>1 DEF TypeOK, Request
  <2> HIDE DEF r, req
  <2> QED
    BY <1>2, <2>1, <2>2
<1>5. copies' = <<>> /\ Cardinality(Given(u)) + Cardinality(At(down, Yes(u))) <= accepts[u]
  BY <1>2 DEF Backed
<1> HIDE DEF r, req
<1>6. Cardinality(At(down', Yes(u))) <= Cardinality(At(down, Yes(u))) + one
  BY <1>1, <1>2, <1>3, AtAppend
<1>7. /\ Cardinality(At(down, Yes(u))) \in Nat /\ Cardinality(At(down', Yes(u))) \in Nat
      /\ Cardinality(Given(u)) \in Nat /\ accepts[u] \in Nat
  BY <1>1, <1>2, <1>3, AtFinite, GivenFinite, AppendProperties DEF TypeOK
<1>8. one \in {0, 1}
  OBVIOUS
<1> HIDE DEF one
<1> QED
  BY <1>4, <1>5, <1>6, <1>7, <1>8

LEMMA NextBacked == TypeOK /\ Backed /\ [Next]_vars => Backed'
<1> SUFFICES ASSUME TypeOK, Backed, [Next]_vars PROVE Backed'
  OBVIOUS
<1>1. CASE UNCHANGED <<down, copies, tasks, accepts>>
  <2>1. \A u \in Host : Given(u)' \subseteq Given(u)
    BY <1>1 DEF Given
  <2> QED
    BY <1>1, <2>1, BackedKept
<1>2. CASE Next
  <2>1. ASSUME NEW h \in Host,
               \/ \E right \in Passwords : Authenticate(h, right)
               \/ HostReceive(h) \/ HostResume(h) \/ HostTimeout(h)
        PROVE  UNCHANGED <<down, copies, tasks, accepts>>
    BY <2>1 DEF Authenticate, HostReceive, HostResume, HostTimeout, apVars, history
  <2>2. CASE DeliverCopy
    BY <2>2 DEF DeliverCopy, Backed
  <2> QED
    BY <1>1, <1>2, <2>1, <2>2, BackedRequest, BackedResponse, BackedTimer, BackedResume,
       BackedCS DEF Next
<1> QED
  BY <1>1, <1>2 DEF vars, apVars, history

\* Unless a second router doubles the answers, the AP gives every acceptance to one
\* handler at most, however requests, answers and timers interleave.
THEOREM GrantsBackedAlways == Spec => []GrantsBacked
<1>1. Init => Backed
  <2> SUFFICES ASSUME Init, NEW u \in Host
               PROVE  Cardinality(Given(u)) + Cardinality(At(down, Yes(u))) <= accepts[u]
    BY DEF Init, Backed
  <2>1. Given(u) = {} /\ At(down, Yes(u)) = {} /\ accepts[u] = 0
    BY EmptySeq DEF Init, Given, At
  <2> QED
    BY <2>1, FS_EmptySet
<1>2. TypeOK /\ Backed => GrantsBacked
  <2> SUFFICES ASSUME TypeOK, Backed, ~Duplicated, NEW u \in Host
               PROVE  Cardinality(Given(u)) <= accepts[u]
    BY DEF GrantsBacked, Given, Yes
  <2>1. /\ Cardinality(Given(u)) \in Nat /\ Cardinality(At(down, Yes(u))) \in Nat
        /\ accepts[u] \in Nat
    BY GivenFinite, AtFinite DEF TypeOK
  <2> QED
    BY <2>1 DEF Backed
<1> QED
  BY <1>1, <1>2, InitTypeOK, NextTypeOK, NextBacked, PTL DEF Spec
-----------------------------------------------------------------------------
(* No request is refused for want of time.                                  *)

\* While no timer has fired early no future is cancelled, and a request or an
\* answer is under way for every entry of _pending_auth.
Awaited ==
  ~hurried =>
    /\ \A s \in DOMAIN tasks : tasks[s].future # "cancelled"
    /\ Cardinality(pending) <= Len(csq) + Len(down)

AllRight == \A s \in DOMAIN tasks : tasks[s].right

\* While nobody types a wrong password no answer says no.
Unrefused ==
  AllRight =>
    /\ \A i \in 1..Len(csq) : csq[i].right
    /\ \A i \in 1..Len(down) : down[i].success
    /\ \A i \in 1..Len(copies) : copies[i].success
    /\ \A s \in DOMAIN tasks : tasks[s].future = "answered" => tasks[s].answer.success

LEMMA AwaitedTypes ==
  ASSUME TypeOK
  PROVE  /\ IsFiniteSet(pending) /\ Cardinality(pending) \in Nat
         /\ Len(csq) \in Nat /\ Len(down) \in Nat
<1>1. tasks \in Seq(Task) /\ Len(csq) \in Nat /\ Len(down) \in Nat
  BY LenProperties DEF TypeOK
<1>2. Len(tasks) \in Nat /\ pending \in SUBSET (1..Len(tasks))
  BY <1>1, LenProperties DEF TypeOK
<1>3. IsFiniteSet(1..Len(tasks))
  BY <1>2, FS_Interval
<1>4. IsFiniteSet(pending)
  BY <1>2, <1>3, FS_Subset
<1> QED
  BY <1>1, <1>4, FS_CardinalityType

\* A request that is passed on enters its entry and is under way to the CS.
LEMMA GrantedRequest ==
  ASSUME TypeOK, Awaited, Unrefused, ValidCredentialsGranted, APRequest
  PROVE  Awaited' /\ Unrefused' /\ ValidCredentialsGranted'
<1>1. Head(up) \in Request /\ UNCHANGED <<down, copies, hurried>>
  BY HeadTailProperties DEF APRequest, TypeOK, history
<1>2. CASE Head(up).user \in Cached
  <2>1. UNCHANGED <<tasks, pending, csq>>
    BY <1>2 DEF APRequest
  <2> QED
    BY <1>1, <2>1 DEF Awaited, Unrefused, AllRight, ValidCredentialsGranted
<1>3. CASE Head(up).user \notin Cached
  <2> DEFINE t == [user |-> Head(up).user, right |-> Head(up).right, future |-> "pending",
                   answer |-> [user |-> Head(up).user, success |-> FALSE]]
  <2>1. /\ tasks' = Append(tasks, t) /\ csq' = Append(csq, Head(up))
        /\ pending' = pending \cup {Len(tasks) + 1}
    BY <1>3 DEF APRequest
  <2>2. t \in Task /\ t.future = "pending" /\ t.right = Head(up).right
    BY <1>1 DEF Request, Response, Task
  <2> HIDE DEF t
  <2>3. /\ DOMAIN tasks = 1..Len(tasks) /\ DOMAIN tasks' = 1..(Len(tasks) + 1)
        /\ Len(tasks) \in Nat /\ tasks'[Len(tasks) + 1] = t
        /\ \A s \in DOMAIN tasks : s \in DOMAIN tasks' /\ tasks'[s] = tasks[s]
        /\ \A s \in DOMAIN tasks' : s \in DOMAIN tasks \/ s = Len(tasks) + 1
    BY <2>1, <2>2, AppendProperties, LenProperties DEF TypeOK
  <2>4. csq \in Seq(Request) /\ Len(csq') = Len(csq) + 1
    BY <1>1, <2>1, AppendProperties DEF TypeOK
  <2>5. Awaited'
    <3>1. Cardinality(pending') = Cardinality(pending) + 1
      <4>1. Len(tasks) + 1 \notin pending
        BY <2>3 DEF TypeOK
      <4> QED
        BY <2>1, <4>1, AwaitedTypes, FS_AddElement
    <3> QED
      BY <1>1, <2>2, <2>3, <2>4, <3>1, AwaitedTypes DEF Awaited
  <2>6. AllRight' => AllRight /\ Head(up).right
    BY <2>2, <2>3 DEF AllRight
  <2>7. Unrefused'
    <3>1. AllRight' => \A i \in 1..Len(csq') : csq'[i].right
      BY <1>1, <2>1, <2>4, <2>6, AppendElements DEF Unrefused
    <3> QED
      BY <1>1, <2>2, <2>3, <2>6, <3>1 DEF Unrefused
  <2>8. ValidCredentialsGranted'
    BY <1>1, <2>2, <2>3, <2>6 DEF ValidCredentialsGranted, AllRight
  <2> QED
    BY <2>5, <2>7, <2>8
<1> QED
  BY <1>2, <1>3

\* An answer is used up with an entry, so those left still suffice.
LEMMA GrantedResponse ==
  ASSUME TypeOK, Awaited, Unrefused, ValidCredentialsGranted, APResponse
  PROVE  Awaited' /\ Unrefused' /\ ValidCredentialsGranted'
<1>1. /\ down # <<>> /\ down' = Tail(down) /\ down \in Seq(Response)
      /\ UNCHANGED <<csq, copies, hurried>>
  BY DEF APResponse, history, TypeOK
<1>2. /\ Len(down') = Len(down) - 1
      /\ AllRight => Head(down).success /\ \A i \in 1..Len(down') : down'[i].success
  BY <1>1, TailElements, HeadTailProperties DEF Unrefused
<1>3. CASE pending = {} /\ UNCHANGED <<tasks, pending>>
  <2>1. Cardinality(pending') <= Len(csq') + Len(down')
    BY <1>1, <1>2, <1>3, AwaitedTypes, FS_EmptySet, HeadTailProperties, LenProperties
  <2> QED
    BY <1>1, <1>2, <1>3, <2>1 DEF Awaited, Unrefused, AllRight, ValidCredentialsGranted
<1>4. ASSUME NEW s \in pending, pending' = pending \ {s},
             tasks' = IF tasks[s].future = "pending"
                      THEN [tasks EXCEPT ![s] = [@ EXCEPT !.future = "answered",
                                                          !.answer = Head(down)]]
                      ELSE tasks
      PROVE  Awaited' /\ Unrefused' /\ ValidCredentialsGranted'
  <2>1. s \in DOMAIN tasks /\ tasks[s] \in Task
    BY TaskIndices DEF TypeOK
  <2>2. Cardinality(pending') = Cardinality(pending) - 1
    BY <1>4, AwaitedTypes, FS_RemoveElement
  <2>3. /\ DOMAIN tasks' = DOMAIN tasks
        /\ \A k \in DOMAIN tasks :
             /\ tasks'[k].right = tasks[k].right
             /\ \/ tasks'[k] = tasks[k]
                \/ tasks'[k].future = "answered" /\ tasks'[k].answer = Head(down)
    <3>1. CASE tasks[s].future = "pending"
      <4> DEFINE t == [tasks[s] EXCEPT !.future = "answered", !.answer = Head(down)]
      <4>1. t.future = "answered" /\ t.answer = Head(down) /\ t.right = tasks[s].right
        BY <2>1 DEF Task
      <4>2. tasks' = [tasks EXCEPT ![s] = t]
        BY <1>4, <3>1
      <4> HIDE DEF t
      <4> QED
        BY <2>1, <4>1, <4>2
    <3>2. CASE tasks[s].future # "pending"
      BY <1>4, <3>2
    <3> QED
      BY <3>1, <3>2
  <2>4. AllRight' = AllRight
    BY <2>3 DEF AllRight
  <2>5. Awaited'
    BY <1>1, <1>2, <2>2, <2>3, AwaitedTypes DEF Awaited
  <2>6. Unrefused'
    BY <1>1, <1>2, <2>3, <2>4 DEF Unrefused
  <2>7. ValidCredentialsGranted'
    BY <1>1, <2>3, <2>4 DEF ValidCredentialsGranted, AllRight
  <2> QED
    BY <2>5, <2>6, <2>7
<1> QED
  BY <1>3, <1>4 DEF APResponse

\* With a loop that can read the answer, a handler that waits has one under way,
\* so its timer is early.
LEMMA GrantedTimer ==
  ASSUME Loops # "shared", TypeOK, PendingExact, Awaited, Unrefused, ValidCredentialsGranted,
         NEW s \in DOMAIN tasks, APTimer(s)
  PROVE  Awaited' /\ Unrefused' /\ ValidCredentialsGranted'
<1>1. hurried'
  <2> SUFFICES ASSUME ~hurried' PROVE FALSE
    OBVIOUS
  <2>1. ~hurried /\ Quiet /\ s \in Suspended
    BY DEF APTimer, TypeOK
  <2>2. csq = <<>> /\ down = <<>>
    BY <2>1 DEF Quiet, HoldsUp
  <2>3. Cardinality(pending) = 0
    BY <2>1, <2>2, AwaitedTypes, EmptySeq DEF Awaited
  <2>4. pending = {}
    BY <2>3, AwaitedTypes, FS_EmptySet
  <2>5. tasks[s].future = "pending"
    BY <2>1 DEF Quiet
  <2> QED
    BY <2>4, <2>5 DEF PendingExact
<1> DEFINE t == [tasks[s] EXCEPT !.future = "cancelled"]
<1>2. t.future = "cancelled" /\ t.right = tasks[s].right
  BY TaskIndices DEF Task
<1>3. tasks' = [tasks EXCEPT ![s] = t] /\ UNCHANGED <<csq, down, copies>>
  BY DEF APTimer
<1> HIDE DEF t
<1>4. DOMAIN tasks' = DOMAIN tasks /\ \A k \in DOMAIN tasks : tasks'[k].right = tasks[k].right
  BY <1>2, <1>3
<1>5. AllRight' = AllRight
  BY <1>4 DEF AllRight
<1>6. Unrefused'
  BY <1>2, <1>3, <1>4, <1>5 DEF Unrefused
<1> QED
  BY <1>1, <1>6 DEF Awaited, ValidCredentialsGranted

\* A handler that was not cancelled resumes with the answer it was given.
LEMMA GrantedResume ==
  ASSUME TypeOK, PendingExact, Awaited, Unrefused, ValidCredentialsGranted,
         NEW s \in DOMAIN tasks, APResume(s)
  PROVE  Awaited' /\ Unrefused' /\ ValidCredentialsGranted'
<1> DEFINE answer == IF tasks[s].future = "answered" THEN tasks[s].answer
                     ELSE [user |-> tasks[s].user, success |-> FALSE]
           t == [tasks[s] EXCEPT !.future = "done", !.answer = answer]
<1>1. /\ tasks' = [tasks EXCEPT ![s] = t] /\ pending' = pending \ {s}
      /\ UNCHANGED <<csq, down, copies, hurried>>
      /\ tasks[s].future # "done" /\ tasks[s].future # "pending"
  BY DEF APResume, history, Suspended
<1>2. /\ t.future = "done" /\ t.answer = answer /\ t.right = tasks[s].right
      /\ tasks[s].future \in {"answered", "cancelled"}
  BY <1>1, TaskIndices DEF Task
<1>3. ~hurried => answer = tasks[s].answer /\ tasks[s].future = "answered"
  BY <1>2 DEF Awaited
<1> HIDE DEF answer, t
<1>4. DOMAIN tasks' = DOMAIN tasks /\ \A k \in DOMAIN tasks : tasks'[k].right = tasks[k].right
  BY <1>1, <1>2
<1>5. AllRight' = AllRight
  BY <1>4 DEF AllRight
<1>6. Awaited'
  <2>1. Cardinality(pending') \in Nat /\ Cardinality(pending') <= Cardinality(pending)
    BY <1>1, AwaitedTypes, FS_RemoveElement, FS_Subset, FS_CardinalityType
  <2> QED
    BY <1>1, <1>2, <1>4, <2>1, AwaitedTypes DEF Awaited
<1>7. Unrefused'
  BY <1>1, <1>2, <1>4, <1>5 DEF Unrefused
<1>8. ValidCredentialsGranted'
  BY <1>1, <1>2, <1>3, <1>4, <1>5 DEF ValidCredentialsGranted, Unrefused, AllRight
<1> QED
  BY <1>6, <1>7, <1>8

\* The CS turns a request into an answer that says yes when the password is right.
LEMMA GrantedCS ==
  ASSUME TypeOK, Awaited, Unrefused, ValidCredentialsGranted, CSHandleAuth
  PROVE  Awaited' /\ Unrefused' /\ ValidCredentialsGranted'
<1> DEFINE req == Head(csq)
           r == [user |-> req.user, success |-> req.right]
<1>1. /\ csq # <<>> /\ csq' = Tail(csq) /\ down' = Append(down, r)
      /\ copies' = IF Duplicated THEN Append(copies, r) ELSE copies
      /\ UNCHANGED <<tasks, pending, hurried>>
  BY DEF CSHandleAuth, apVars
<1>2. /\ csq \in Seq(Request) /\ req \in Request
      /\ down \in Seq(Response) /\ copies \in Seq(Response)
  BY <1>1, HeadTailProperties DEF TypeOK
<1>3. r \in Response /\ r.success = req.right
  BY <1>2 DEF Request, Response
<1>4. /\ AllRight => req.right /\ \A i \in 1..Len(csq') : csq'[i].right
      /\ Len(csq') = Len(csq) - 1 /\ Len(csq) \in Nat
  BY <1>1, <1>2, TailElements, HeadTailProperties, LenProperties DEF Unrefused
<1> HIDE DEF r, req
<1>5. Len(down') = Len(down) + 1 /\ Len(down) \in Nat
  BY <1>1, <1>2, <1>3, AppendProperties, LenProperties
<1>6. Awaited'
  BY <1>1, <1>4, <1>5, AwaitedTypes DEF Awaited
<1>7. AllRight => \A i \in 1..Len(down') : down'[i].success
  BY <1>1, <1>2, <1>3, <1>4, AppendElements DEF Unrefused
<1>8. AllRight => \A i \in 1..Len(copies') : copies'[i].success
  BY <1>1, <1>2, <1>3, <1>4, AppendElements DEF Unrefused
<1>9. Unrefused' /\ ValidCredentialsGranted'
  BY <1>1, <1>4, <1>7, <1>8 DEF Unrefused, AllRight, ValidCredentialsGranted
<1> QED
  BY <1>6, <1>9

\* A copy is one more answer under way.
LEMMA GrantedCopy ==
  ASSUME TypeOK, Awaited, Unrefused, ValidCredentialsGranted, DeliverCopy
  PROVE  Awaited' /\ Unrefused' /\ ValidCredentialsGranted'
<1>1. /\ copies # <<>> /\ copies' = Tail(copies) /\ down' = Append(down, Head(copies))
      /\ UNCHANGED <<csq, tasks, pending, hurried>>
      /\ copies \in Seq(Response) /\ down \in Seq(Response)
  BY DEF DeliverCopy, apVars, history, TypeOK
<1>2. /\ Head(copies) \in Response
      /\ AllRight => Head(copies).success /\ \A i \in 1..Len(copies') : copies'[i].success
  BY <1>1, TailElements, HeadTailProperties DEF Unrefused
<1>3. /\ Len(down') = Len(down) + 1
      /\ AllRight => \A i \in 1..Len(down') : down'[i].success
  BY <1>1, <1>2, AppendElements, AppendProperties DEF Unrefused
<1> QED
  BY <1>1, <1>2, <1>3, AwaitedTypes DEF Awaited, Unrefused, AllRight, ValidCredentialsGranted

LEMMA NextGranted ==
  ASSUME Loops # "shared", TypeOK, PendingExact, Awaited, Unrefused, ValidCredentialsGranted,
         [Next]_vars
  PROVE  Awaited' /\ Unrefused' /\ ValidCredentialsGranted'
<1>1. ASSUME UNCHANGED <<down, copies, csq, tasks, pending>>, hurried => hurried'
      PROVE  Awaited' /\ Unrefused' /\ ValidCredentialsGranted'
  BY <1>1 DEF Awaited, Unrefused, AllRight, ValidCredentialsGranted
<1>2. ASSUME NEW h \in Host,
             \/ \E right \in Passwords : Authenticate(h, right)
             \/ HostReceive(h) \/ HostResume(h) \/ HostTimeout(h)
      PROVE  UNCHANGED <<down, copies, csq, tasks, pending>> /\ (hurried => hurried')
  <2>1. CASE HostTimeout(h)
    <3>1. hurried => hurried'
      BY <2>1, Zenon DEF HostTimeout
    <3> QED
      BY <2>1, <3>1 DEF HostTimeout, apVars
  <2>2. ASSUME NEW right \in Passwords, Authenticate(h, right)
        PROVE  UNCHANGED <<down, copies, csq, tasks, pending, hurried>>
    BY <2>2 DEF Authenticate, apVars, history
  <2>3. CASE HostReceive(h) \/ HostResume(h)
    BY <2>3 DEF HostReceive, HostResume, apVars, history
  <2> QED
    BY <1>2, <2>1, <2>2, <2>3
<1>3. CASE UNCHANGED vars
  BY <1>1, <1>3 DEF vars, apVars, history
<1> QED
  BY <1>1, <1>2, <1>3, GrantedRequest, GrantedResponse, GrantedTimer, GrantedResume,
     GrantedCS, GrantedCopy DEF Next

\* Where the loop that reads the AP's answers is not the one its handlers suspend
\* (AccessPoint.handle_auth_request), no handler ends in failure while passwords
\* are right and no timer is early; with one shared loop auth_blocked refutes it.
THEOREM ValidCredentialsGrantedAlways ==
  ASSUME Loops # "shared"
  PROVE  Spec => []ValidCredentialsGranted
<1>1. Init => Awaited /\ Unrefused /\ ValidCredentialsGranted
  BY EmptySeq, FS_EmptySet DEF Init, Awaited, Unrefused, AllRight, ValidCredentialsGranted
<1>2. /\ TypeOK /\ PendingExact /\ Awaited /\ Unrefused /\ ValidCredentialsGranted
      /\ [Next]_vars
      => Awaited' /\ Unrefused' /\ ValidCredentialsGranted'
  BY NextGranted
<1> QED
  BY <1>1, <1>2, TypeCorrect, PendingExactAlways, PTL DEF Spec
=============================================================================
