-------------------------------- MODULE Links --------------------------------
(***************************************************************************)
(* The simulated media (src/src/simulation/virtual_link.py) and the        *)
(* primitives with which a node uses them: send_frame, recv_frame and the  *)
(* receive loops of src/src/nodes/base_node.py.                            *)
(*                                                                         *)
(* Every port of a VirtualSwitch and every endpoint of a VirtualLink has a *)
(* queue of Capacity frames (1000 in the code).  A send is one coroutine:  *)
(* it computes its targets, then puts the frame into their queues in       *)
(* order.  asyncio.Queue.put suspends only when the queue is full, so the  *)
(* targets up to the first full queue are served in one step and the rest  *)
(* is left in todo until somebody makes room; meanwhile the sender's       *)
(* handler, and with it the receive loop that awaits the handler, stands   *)
(* still.                                                                  *)
(***************************************************************************)
EXTENDS Media, FiniteSets

CONSTANTS
  Node,        \* the nodes with a running event loop
  NodeOf,      \* the node of each interface
  App,         \* nodes that send from a task of their own (create_task, scenarios)
  Lossy,       \* links with loss_rate > 0
  Slow,        \* links with delay_ms > 0
  Uses,        \* <<t, i, d>>: task t may send to d out of interface i
  Capacity,    \* maxsize of the queues
  Sends,       \* bound: frames sent by each task
  NoFrame

Task == Iface \cup App          \* the receive loop of an interface, or a node's own task
OwnerOf(t) == IF t \in Iface THEN NodeOf[t] ELSE t
TasksOf(n) == {t \in Task : OwnerOf(t) = n}

ASSUME LinksAssumption ==
  /\ Node \cap Iface = {} /\ App \subseteq Node
  /\ NodeOf \in [Iface -> Node]
  /\ Lossy \subseteq Link /\ Slow \subseteq Link
  /\ Uses \subseteq Task \X Iface \X Dst
  /\ Capacity \in Nat \ {0} /\ Sends \in [Task -> Nat]
  /\ NoFrame \notin [from : Task, no : Nat, via : Iface, dst : Dst]

Frame == [from : Task, no : Nat \ {0}, via : Iface, dst : Dst]

-----------------------------------------------------------------------------
VARIABLES
  queue,   \* frames waiting at every port
  out,     \* the frame a task is putting, NoFrame between sends
  todo,    \* the targets it has not served yet
  busy,    \* loops whose handler has been given a frame and has not returned
  live,    \* tasks that have not been cancelled
  sent,    \* the frames each task has sent, in order (history)
  log      \* frames each loop has been given, in order (history, for the properties)

linkVars == <<queue, out, todo, busy, live, sent, log>>

SeqSet(s) == {s[k] : k \in DOMAIN s}
Room(p) == Len(queue[p]) < Capacity

\* Mutant: put does not wait for room.
FittingAlways(targets) == Len(targets)

\* How many targets are served before the first full queue.
Fitting(targets) ==
  CHOOSE k \in 0..Len(targets) :
    /\ \A j \in 1..k : Room(targets[j])
    /\ k < Len(targets) => ~Room(targets[k + 1])

Put(f, targets) ==
  queue' = [p \in Port |-> IF \E j \in DOMAIN targets : targets[j] = p
                           THEN Append(queue[p], f) ELSE queue[p]]

\* Mutant: put_nowait; a full queue loses the frame.
ServeDropping(t, f, targets, k) ==
  /\ Put(f, SubSeq(targets, 1, k))
  /\ todo' = [todo EXCEPT ![t] = <<>>]
  /\ out' = [out EXCEPT ![t] = NoFrame]

\* Serve k of the targets, keep the others.
Serve(t, f, targets, k) ==
  /\ Put(f, SubSeq(targets, 1, k))
  /\ todo' = [todo EXCEPT ![t] = SubSeq(targets, k + 1, Len(targets))]
  /\ out' = [out EXCEPT ![t] = IF k = Len(targets) THEN NoFrame ELSE f]

\* A loop sends only from the handler of a frame it has received.
MaySend(t, i, d) == <<t, i, d>> \in Uses /\ (t \in Iface => t \in busy)

OnMedium(i, media) == Wired(i) /\ PortOf[i][1] \in media

\* send_frame: a lossy link forgets any of its targets, a slow one serves none at once.
Send(t, i, dst) ==
  /\ t \in live /\ out[t] = NoFrame /\ Len(sent[t]) < Sends[t] /\ MaySend(t, i, dst)
  /\ LET f == [from |-> t, no |-> Len(sent[t]) + 1, via |-> i, dst |-> dst]
         all == Targets[i][dst]
     IN /\ sent' = [sent EXCEPT ![t] = Append(@, f)]
        /\ \E lost \in IF OnMedium(i, Lossy) THEN SUBSET SeqSet(all) ELSE {{}} :
             LET targets == Among(all, SeqSet(all) \ lost)
             IN Serve(t, f, targets, IF OnMedium(i, Slow) THEN 0 ELSE Fitting(targets))
  /\ UNCHANGED <<busy, live, log>>

\* Mutant: the target that has just been served is served again.
ResumeAgain(t) ==
  /\ t \in live /\ out[t] # NoFrame
  /\ Fitting(todo[t]) > 0
  /\ Put(out[t], SubSeq(todo[t], 1, 1))
  /\ \/ UNCHANGED <<todo, out>>
     \/ todo' = [todo EXCEPT ![t] = Tail(@)]
        /\ out' = [out EXCEPT ![t] = IF Len(todo[t]) = 1 THEN NoFrame ELSE @]
  /\ UNCHANGED <<busy, live, sent, log>>

\* A suspended send goes on: the queue it waits for has room (or the delay is over).
Resume(t) ==
  /\ t \in live /\ out[t] # NoFrame
  /\ Fitting(todo[t]) > 0
  /\ Serve(t, out[t], todo[t], IF OnMedium(out[t].via, Slow) THEN 1 ELSE Fitting(todo[t]))
  /\ UNCHANGED <<busy, live, sent, log>>

\* Mutant: a loop that has waited for 0.5 s in vain ends, as for an exception.
ReceiveExpiring(i) ==
  /\ i \in live /\ i \notin busy /\ Wired(i)
  /\ IF queue[PortOf[i]] # <<>>
     THEN /\ queue' = [queue EXCEPT ![PortOf[i]] = Tail(@)]
          /\ log' = [log EXCEPT ![i] = Append(@, Head(queue[PortOf[i]]))]
          /\ busy' = busy \cup {i} /\ UNCHANGED live
     ELSE live' = live \ {i} /\ UNCHANGED <<queue, log, busy>>
  /\ UNCHANGED <<out, todo, sent>>

\* recv_frame and the call of on_frame; when its 0.5 s are over it starts again.
Receive(i) ==
  /\ i \in live /\ i \notin busy /\ Wired(i)
  /\ queue[PortOf[i]] # <<>>
  /\ queue' = [queue EXCEPT ![PortOf[i]] = Tail(@)]
  /\ log' = [log EXCEPT ![i] = Append(@, Head(queue[PortOf[i]]))]
  /\ busy' = busy \cup {i}
  /\ UNCHANGED <<out, todo, live, sent>>

\* The handler returns, or raises: the loop logs the exception and goes on.
Return(i) ==
  /\ i \in live /\ i \in busy /\ out[i] = NoFrame
  /\ busy' = busy \ {i}
  /\ UNCHANGED <<queue, out, todo, live, sent, log>>

\* Handlers that wait for no room.  A cancellation of such a loop may find it in a
\* wait_for whose frame (or answer) is there already: before Python 3.12 wait_for then
\* returns it and forgets the cancellation.
Deaf == {i \in busy : out[i] = NoFrame}

\* Task.cancel of T: all but the loops of K end where they stand, and what they had not
\* put is gone.
Cancel(T, K) ==
  /\ K \subseteq T \cap Deaf
  /\ live' = live \ (T \ K)
  /\ out' = [t \in Task |-> IF t \in T \ K THEN NoFrame ELSE out[t]]
  /\ todo' = [t \in Task |-> IF t \in T \ K THEN <<>> ELSE todo[t]]
  /\ busy' = busy \ (T \ K)
  /\ UNCHANGED <<queue, sent, log>>

LinksInit ==
  /\ queue = [p \in Port |-> <<>>]
  /\ out = [t \in Task |-> NoFrame]
  /\ todo = [t \in Task |-> <<>>]
  /\ busy = {}
  /\ live = Task
  /\ sent = [t \in Task |-> <<>>]
  /\ log = [i \in Iface |-> <<>>]

LinksNext ==
  \/ \E t \in Task, i \in Iface, d \in Dst : Send(t, i, d)
  \/ \E t \in Task : Resume(t)
  \/ \E T, K \in SUBSET Task : Cancel(T, K)
  \/ \E i \in Iface : Receive(i) \/ Return(i)

LinksSpec == LinksInit /\ [][LinksNext]_linkVars
-----------------------------------------------------------------------------
(* Properties.                                                             *)

\* Types, and asyncio.Queue(maxsize=1000): no queue ever holds more, and a send is
\* suspended exactly while it has targets left.
LinksTypeOK ==
  /\ queue \in [Port -> Seq(Frame)]
  /\ out \in [Task -> Frame \cup {NoFrame}]
  /\ todo \in [Task -> Seq(Port)]
  /\ busy \subseteq Iface /\ live \subseteq Task
  /\ sent \in [Task -> Seq(Frame)]
  /\ log \in [Iface -> Seq(Frame)]
  /\ \A p \in Port : Len(queue[p]) <= Capacity
  /\ \A t \in Task : out[t] = NoFrame <=> todo[t] = <<>>

Reads(i, p) == Wired(i) /\ PortOf[i] = p
ReadAt(p) == UNION {SeqSet(log[i]) : i \in {j \in Iface : Reads(j, p)}}

\* The isolation rules of VirtualSwitch: whatever waits at a switch port was
\* sent from another port of that switch which shares a group with it, and a
\* frame for a MAC the switch knows waits at that MAC's port only.
Isolated ==
  \A p \in Port : p[1] \in Switch => \A f \in SeqSet(queue[p]) :
    /\ Wired(f.via) /\ PortOf[f.via][1] = p[1] /\ PortOf[f.via] # p
    /\ Groups[p[1]] # {} => \E g \in Groups[p[1]] : p[2] \in g /\ PortOf[f.via][2] \in g
    /\ Knows(p[1], f.dst) => \E c \in CallsOn(f.dst, {p[1]}) : PortAt(c) = p

\* Frames of one sender arrive at a loop in the order they were sent, each at
\* most once, even when its sends have been suspended on full queues.
Ordered ==
  \A i \in Iface : Wired(i) =>
    LET seen == log[i] \o queue[PortOf[i]]
    IN \A j, k \in DOMAIN seen :
         j < k /\ seen[j].from = seen[k].from => seen[j].no < seen[k].no

\* No frame accepted by a lossless medium is lost: it has been read, is waiting,
\* or its sender still has that queue before it.  Only a cancelled sender drops
\* targets.
NoFrameLost ==
  \A t \in live : \A k \in DOMAIN sent[t] :
    LET f == sent[t][k] IN
    ~OnMedium(f.via, Lossy) => \A p \in SeqSet(Targets[f.via][f.dst]) :
      \/ f \in SeqSet(queue[p]) \cup ReadAt(p)
      \/ out[t] = f /\ p \in SeqSet(todo[t])
=============================================================================
