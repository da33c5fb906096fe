---------------------------- MODULE RuntimeProofs -----------------------------
(***************************************************************************)
(* A simulation that no signal ends cleans up completely, a stopped node   *)
(* is quiet, and the nodes send and receive as Links has it whatever the   *)
(* moment of the shutdown, for any nodes, wiring, queue lengths, drivers   *)
(* and moments of the signals.                                             *)
(***************************************************************************)
EXTENDS Runtime, LinksProofs

State == {"created", "running", "cancelled", "cleaning", "stopped", "torn", "never"}

\* Where the main coroutine is tells, while no signal has come, where the nodes are:
\* each call that cancels them finds them before or after their clean-up, never in it.
InStep ==
  signals = 0 =>
    /\ main # "interrupted"
    /\ main \in {"starting", "scenario", "waiting"} => orch
    /\ main = "starting" => \A n \in Node : status[n] \in {"created", "running"}
    /\ main \in {"scenario", "waiting"} => \A n \in Node : status[n] = "running"
    /\ main \in {"stopping", "unwinding"} =>
         \A n \in Node : status[n] \in {"cancelled", "cleaning", "stopped"}
    /\ main \in {"reported", "exited"} => \A n \in Node : status[n] = "stopped"

LifeInv ==
  /\ status \in [Node -> State]
  /\ main \in {"starting", "scenario", "waiting", "interrupted", "stopping", "reported",
               "unwinding", "exited"}
  /\ driver \in Drivers /\ orch \in BOOLEAN
  /\ signals \in 0..MaxSignals
  /\ InStep

\* A task that is over has no send pending and no handler running, and none of the
\* tasks of a stopped node is left.
TaskInv ==
  /\ out = [t \in Task |-> out[t]]
  /\ \A t \in Task \ live : out[t] = NoFrame /\ t \notin busy
  /\ \A n \in Node : status[n] = "stopped" => LiveTasks(n) = {}
-----------------------------------------------------------------------------
(* The nodes and the main coroutine.                                        *)

\* What a cancellation of all nodes makes of their states (Task.cancel).
LEMMA CancelledTypes ==
  ASSUME status \in [Node -> State], CancelNodes
  PROVE  /\ status' \in [Node -> State]
         /\ \A n \in Node : status'[n] = Cancelled(n)
  BY DEF CancelNodes, Cancelled, State

\* The states are those of Init at first (Orchestrator.__init__).
LEMMA LifeInit == ASSUME Init PROVE LifeInv
  BY RuntimeAssumption DEF Init, LifeInv, InStep, State

\* CancelNodes after a signal: InStep asks nothing more (Task.cancel).
LEMMA SignalledStep ==
  ASSUME LifeInv, CancelNodes \/ UNCHANGED status, UNCHANGED driver,
         signals < MaxSignals, signals' = signals + 1, orch' \in BOOLEAN,
         main' \in {"scenario", "waiting", "interrupted", "stopping", "reported", "unwinding"}
  PROVE  LifeInv'
<1>1. signals' \in 0..MaxSignals /\ signals' # 0
  BY RuntimeAssumption DEF LifeInv
<1>2. status' \in [Node -> State]
  BY CancelledTypes DEF LifeInv
<1>. QED BY <1>1, <1>2 DEF LifeInv, InStep

\* The nodes, all running, are told to stop: by stop(), by stop_all, or by asyncio.run
\* after an exception of the scenario.
LEMMA ToldToStop ==
  ASSUME LifeInv, main \in {"scenario", "waiting"}, CancelNodes,
         main' \in {"stopping", "unwinding"}, UNCHANGED <<driver, signals>>, orch' \in BOOLEAN
  PROVE  LifeInv'
<1>1. signals = 0 => \A n \in Node : status'[n] = "cancelled"
  BY CancelledTypes DEF LifeInv, InStep, Cancelled
<1>2. status' \in [Node -> State]
  BY CancelledTypes DEF LifeInv
<1>. QED BY <1>1, <1>2 DEF LifeInv, InStep

\* The main coroutine calls stop(), which returns at once only after a signal.
LEMMA MainStopsKept ==
  ASSUME LifeInv, main \in {"scenario", "waiting"}, MainStops, UNCHANGED <<driver, signals>>
  PROVE  LifeInv'
<1>1. CASE StopNodes /\ main' = "stopping"
  BY <1>1, ToldToStop DEF StopNodes
<1>2. CASE StopAgain /\ main' = "reported"
  BY <1>2 DEF StopAgain, LifeInv, InStep
<1>. QED BY <1>1, <1>2 DEF MainStops

\* Each step of the main coroutine, whichever the driver (run.py, Orchestrator, scripts).
LEMMA MainStepKept == ASSUME LifeInv, MainNext PROVE LifeInv'
<1>1. CASE Started
  BY <1>1 DEF Started, LifeInv, InStep, State
<1>2. CASE EarlyInterrupt
  BY <1>2, SignalledStep DEF EarlyInterrupt, LifeInv
<1>3. CASE Signal
  BY <1>3, SignalledStep DEF Signal, StopNodes, StopAgain, LifeInv
<1>4. CASE Expire
  BY <1>4, MainStopsKept DEF Expire
<1>5. CASE ScenarioReturns
  BY <1>5 DEF ScenarioReturns, LifeInv, InStep
<1>6. CASE ScenarioRaises
  BY <1>6, ToldToStop DEF ScenarioRaises, LifeInv
<1>7. CASE ScenarioAwaited
  BY <1>7, MainStopsKept DEF ScenarioAwaited
<1>8. CASE ScenarioCancelled
  BY <1>8 DEF ScenarioCancelled, LifeInv, InStep
<1>9. CASE ScriptEnds
  BY <1>9, ToldToStop DEF ScriptEnds, StopAll, LifeInv
<1>10. CASE ScriptInterrupt
  BY <1>10, SignalledStep DEF ScriptInterrupt, StopAll, LifeInv
<1>14. CASE ScriptUnwinds
  BY <1>14, CancelledTypes DEF ScriptUnwinds, StopAll, LifeInv, InStep
<1>11. CASE Gathered
  BY <1>11 DEF Gathered, Ended, LifeInv, InStep
<1>12. CASE Unwind
  <2>1. signals = 0 => \A n \in Node : status'[n] = "stopped"
    BY <1>12, CancelledTypes DEF Unwind, Cancelled, LifeInv, InStep
  <2>2. status' \in [Node -> State]
    BY <1>12, CancelledTypes DEF Unwind, LifeInv
  <2>. QED BY <1>12, <2>1, <2>2 DEF Unwind, LifeInv, InStep
<1>13. CASE Exit
  BY <1>13 DEF Exit, Ended, LifeInv, InStep
<1>. QED
  BY <1>1, <1>2, <1>3, <1>4, <1>5, <1>6, <1>7, <1>8, <1>9, <1>10, <1>11, <1>12, <1>13, <1>14
     DEF MainNext

\* No step breaks the agreement of main coroutine and nodes.
LEMMA LifeStep == ASSUME LifeInv, [Next]_vars PROVE LifeInv'
<1>1. CASE UNCHANGED lifeVars
  BY <1>1 DEF lifeVars, LifeInv, InStep
<1>2. CASE MainNext
  BY <1>2, MainStepKept
<1>3. ASSUME NEW n \in Node, Begin(n) PROVE LifeInv'
  BY <1>3 DEF Begin, LifeInv, InStep, State
<1>4. ASSUME NEW n \in Node, CleanUp(n) PROVE LifeInv'
  BY <1>4 DEF CleanUp, LifeInv, InStep, State
<1>5. ASSUME NEW n \in Node, OnStop(n) PROVE LifeInv'
  BY <1>5 DEF OnStop, LifeInv, InStep, State
<1>. QED
  BY <1>1, <1>2, <1>3, <1>4, <1>5 DEF Next, vars, SendOut, GoOn, Hear, HandlerEnds
-----------------------------------------------------------------------------
(* The tasks of a node.                                                     *)

\* A suspended or completed put changes the state of its own task only.
LEMMA ServeOut ==
  ASSUME NEW t \in Task, NEW f, NEW targets, NEW k,
         out = [s \in Task |-> out[s]], Serve(t, f, targets, k)
  PROVE  out' = [s \in Task |-> IF s = t THEN out'[t] ELSE out[s]]
  BY DEF Serve

\* A send changes the state of the task that makes it (VirtualSwitch.send).
LEMMA SendOutOnly ==
  ASSUME NEW t \in Task, NEW i \in Iface, NEW d \in Dst,
         out = [s \in Task |-> out[s]], Send(t, i, d)
  PROVE  /\ out' = [s \in Task |-> IF s = t THEN out'[t] ELSE out[s]]
         /\ t \in live /\ UNCHANGED <<busy, live>>
<1>1. PICK f, targets, k : Serve(t, f, targets, k)
  BY DEF Send
<1>2. t \in live /\ UNCHANGED <<busy, live>>
  BY DEF Send
<1>. QED BY <1>1, <1>2, ServeOut

\* So does a send that goes on after a wait for room (asyncio.Queue.put).
LEMMA ResumeOutOnly ==
  ASSUME NEW t \in Task, out = [s \in Task |-> out[s]], Resume(t)
  PROVE  /\ out' = [s \in Task |-> IF s = t THEN out'[t] ELSE out[s]]
         /\ t \in live /\ UNCHANGED <<busy, live>>
<1>1. PICK f, targets, k : Serve(t, f, targets, k)
  BY DEF Resume
<1>2. t \in live /\ UNCHANGED <<busy, live>>
  BY DEF Resume
<1>. QED BY <1>1, <1>2, ServeOut

\* A step of one task that is not over, in whatever state its node is.
LEMMA WorkKept ==
  ASSUME TaskInv, UNCHANGED <<status, live>>, NEW t \in live,
         out' = [s \in Task |-> IF s = t THEN out'[t] ELSE out[s]],
         busy' \subseteq busy \cup {t}
  PROVE  TaskInv'
<1>1. out' = [s \in Task |-> out'[s]]
  OBVIOUS
<1>. QED BY <1>1 DEF TaskInv, LiveTasks

\* The nodes change their states, and nobody says he has stopped with a task left.
LEMMA StatesKept ==
  ASSUME TaskInv, UNCHANGED linkVars,
         \A n \in Node : status'[n] = "stopped" => status[n] = "stopped" \/ LiveTasks(n) = {}
  PROVE  TaskInv'
  BY DEF TaskInv, LiveTasks, linkVars

\* A cancellation ends whom it reaches and spares the others (Task.cancel), those its
\* CancelledError has missed among them.
LEMMA CancelKept ==
  ASSUME TaskInv, NEW T, NEW K, Cancel(T, K),
         \A n \in Node : status'[n] = "stopped" => status[n] = "stopped"
  PROVE  TaskInv'
<1>1. /\ live' = live \ (T \ K) /\ busy' = busy \ (T \ K)
      /\ out' = [t \in Task |-> IF t \in T \ K THEN NoFrame ELSE out[t]]
  BY DEF Cancel
<1>2. out' = [t \in Task |-> out'[t]]
  BY <1>1
<1>3. \A t \in Task \ live' : out'[t] = NoFrame /\ t \notin busy'
  BY <1>1 DEF TaskInv
<1>4. \A n \in Node : status'[n] = "stopped" => LiveTasks(n)' = {}
  BY <1>1 DEF TaskInv, LiveTasks
<1>. QED BY <1>2, <1>3, <1>4 DEF TaskInv

\* All tasks are there at first, and nobody has stopped.
LEMMA TaskInit == ASSUME Init PROVE TaskInv
  BY DEF Init, LinksInit, TaskInv

\* A cancellation of the nodes reaches the tasks of those that are cleaning up.
LEMMA NodesCancelled ==
  ASSUME CancelNodes
  PROVE  \E K \in SUBSET Gathering : Cancel(Gathering, K)
  BY DEF CancelNodes

\* The main coroutine cancels the nodes or leaves them, and the queues, as they are.
LEMMA MainTouches ==
  ASSUME MainNext
  PROVE  CancelNodes \/ UNCHANGED <<linkVars, status>>
  BY DEF MainNext, Started, EarlyInterrupt, Signal, Expire, ScenarioReturns, ScenarioRaises,
         ScenarioAwaited, ScenarioCancelled, ScriptEnds, ScriptInterrupt, ScriptUnwinds,
         Gathered, Unwind, Exit, MainStops, StopNodes, StopAgain, StopAll

\* No step leaves a send or a handler to a task that is over, or a task to a stopped node.
LEMMA TaskStepKept == ASSUME LifeInv, TaskInv, [Next]_vars PROVE TaskInv'
<1>1. CASE UNCHANGED <<linkVars, status>>
  BY <1>1, StatesKept
<1>2. CASE CancelNodes
  <2>1. \A n \in Node : status'[n] = Cancelled(n)
    BY <1>2, CancelledTypes DEF LifeInv
  <2>2. \A n \in Node : status'[n] = "stopped" => status[n] = "stopped"
    BY <2>1 DEF Cancelled
  <2>. QED BY <1>2, <2>2, NodesCancelled, CancelKept
<1>3. ASSUME NEW n \in Node, Begin(n) PROVE TaskInv'
  BY <1>3, StatesKept DEF Begin, LifeInv
<1>4. ASSUME NEW n \in Node, OnStop(n) PROVE TaskInv'
  BY <1>4, StatesKept DEF OnStop, LifeInv
<1>5. ASSUME NEW n \in Node, CleanUp(n) PROVE TaskInv'
  <2>1. PICK K : Cancel(LiveTasks(n), K)
    BY <1>5 DEF CleanUp
  <2>2. \A m \in Node : status'[m] = "stopped" => status[m] = "stopped"
    BY <1>5 DEF CleanUp, LifeInv
  <2>. QED BY <2>1, <2>2, CancelKept
<1>6. ASSUME NEW u \in Uses, SendOut(u[1], u[2], u[3]) PROVE TaskInv'
  <2>1. u[1] \in Task /\ u[2] \in Iface /\ u[3] \in Dst
    BY LinksAssumption
  <2>2. Send(u[1], u[2], u[3]) /\ UNCHANGED status
    BY <1>6 DEF SendOut, lifeVars
  <2>. QED BY <2>1, <2>2, SendOutOnly, WorkKept DEF TaskInv
<1>7. ASSUME NEW t \in Task, GoOn(t) PROVE TaskInv'
  BY <1>7, ResumeOutOnly, WorkKept DEF GoOn, lifeVars, TaskInv
<1>8. ASSUME NEW i \in Iface, Hear(i) \/ Return(i), UNCHANGED status PROVE TaskInv'
  <2>1. i \in live /\ UNCHANGED <<out, live>> /\ busy' \subseteq busy \cup {i}
    BY <1>8 DEF Hear, Receive, Return
  <2>2. out' = [s \in Task |-> IF s = i THEN out'[i] ELSE out[s]]
    BY <2>1 DEF TaskInv
  <2>. QED BY <1>8, <2>1, <2>2, WorkKept
<1>9. ASSUME NEW i \in Iface, HandlerEnds(i) PROVE TaskInv'
  <2>1. CASE Return(i)
    BY <1>8, <1>9, <2>1 DEF HandlerEnds, lifeVars
  <2>2. CASE Cancel({i}, {})
    BY <1>9, <2>2, CancelKept DEF HandlerEnds, lifeVars
  <2>. QED BY <1>9, <2>1, <2>2 DEF HandlerEnds
<1>. QED
  BY <1>1, <1>2, <1>3, <1>4, <1>5, <1>6, <1>7, <1>8, <1>9, MainTouches
     DEF Next, vars, lifeVars, Hear

-----------------------------------------------------------------------------
(* The theorems.                                                            *)

\* The two invariants hold of every behaviour of a driver and its nodes.
LEMMA RuntimeInvariant == Spec => [](LifeInv /\ TaskInv)
<1>1. Init => LifeInv /\ TaskInv
  BY LifeInit, TaskInit
<1>2. LifeInv /\ TaskInv /\ [Next]_vars => (LifeInv /\ TaskInv)'
  BY LifeStep, TaskStepKept
<1>. QED BY <1>1, <1>2, PTL DEF Spec

\* A run that no signal ends gives every node a complete clean-up: the cancellations of
\* stop(), of stop_all and of asyncio.run never meet a node cleaning up.
THEOREM CleanWithoutSignalAlways == Spec => []CleanWithoutSignal
<1>1. LifeInv => CleanWithoutSignal
  <2>. SUFFICES ASSUME LifeInv, signals = 0, NEW n \in Node
                PROVE  status[n] \notin {"torn", "never"}
    BY DEF CleanWithoutSignal, LifeInv
  <2>. QED BY DEF LifeInv, InStep
<1>. QED BY <1>1, RuntimeInvariant, PTL

\* A stopped node has no task, no pending send and no running handler, and without a
\* signal the main coroutine gets past its stop only when that is so of all nodes.
THEOREM StoppedIsQuietAlways == Spec => []StoppedIsQuiet
<1>1. LifeInv /\ TaskInv => StoppedIsQuiet
  <2>1. ASSUME TaskInv, NEW n \in Node, status[n] = "stopped", NEW t \in TasksOf(n)
        PROVE  t \notin live /\ out[t] = NoFrame /\ t \notin busy
    BY <2>1 DEF TaskInv, LiveTasks, TasksOf
  <2>. QED BY <2>1 DEF LifeInv, InStep, StoppedIsQuiet
<1>. QED BY <1>1, RuntimeInvariant, PTL

\* The traffic of the nodes is a behaviour of Links, so what is proved of Links holds of
\* it: a shutdown ends tasks, and touches no queue.
LEMMA LinksImplemented == Spec => LinksSpec
<1>1. Init => LinksInit
  BY DEF Init
<1>2. ASSUME [Next]_vars PROVE [LinksNext]_linkVars
  <2>1. ASSUME NEW T, NEW K, T \subseteq Task, K \subseteq T, Cancel(T, K)
        PROVE  [LinksNext]_linkVars
    BY <2>1 DEF LinksNext
  <2>2. Gathering \subseteq Task /\ \A n \in Node : LiveTasks(n) \subseteq Task
    BY DEF Gathering, LiveTasks, TasksOf
  <2>3. CASE UNCHANGED linkVars
    BY <2>3
  <2>4. CASE CancelNodes
    BY <2>1, <2>2, <2>4, NodesCancelled
  <2>5. ASSUME NEW n \in Node, CleanUp(n) PROVE [LinksNext]_linkVars
    BY <2>1, <2>2, <2>5 DEF CleanUp
  <2>6. ASSUME NEW u \in Uses, SendOut(u[1], u[2], u[3]) PROVE [LinksNext]_linkVars
    BY <2>6, LinksAssumption DEF SendOut, LinksNext
  <2>7. ASSUME NEW t \in Task, GoOn(t) PROVE [LinksNext]_linkVars
    BY <2>7 DEF GoOn, LinksNext
  <2>8. ASSUME NEW i \in Iface, Hear(i) PROVE [LinksNext]_linkVars
    BY <2>8 DEF Hear, LinksNext
  <2>9. ASSUME NEW i \in Iface, HandlerEnds(i) PROVE [LinksNext]_linkVars
    <3>1. i \in Task
      BY DEF Task
    <3>. QED BY <2>1, <2>9, <3>1 DEF HandlerEnds, LinksNext
  <2>. QED
    BY <1>2, <2>3, <2>4, <2>5, <2>6, <2>7, <2>8, <2>9, MainTouches
       DEF Next, vars, Begin, OnStop
<1>. QED BY <1>1, <1>2, PTL DEF Spec, LinksSpec

\* The states of the nodes, of the main coroutine and of the media are what the
\* declarations of Runtime and Links say.
THEOREM RuntimeTypes == Spec => []TypeOK
<1>1. LifeInv /\ LinksTypeOK => TypeOK
  BY DEF LifeInv, State, TypeOK
<1>2. Spec => []LinksTypeOK
  BY LinksImplemented, LinksTypes, PTL
<1>. QED BY <1>1, <1>2, RuntimeInvariant, PTL

\* Whatever the driver and whenever the signals come, no interface of a switch is given
\* a frame of a port its own may not talk to (VirtualSwitch.send).
THEOREM RuntimeIsolated == Spec => []Isolated
  BY LinksImplemented, LinksIsolated, PTL

\* No shutdown lets a reader see the frames of one task in another order than they were sent.
THEOREM RuntimeOrdered == Spec => []Ordered
  BY LinksImplemented, LinksOrdered, PTL

\* No frame disappears but by a lossy link or with the task that was sending it.
THEOREM RuntimeLosesNothing == Spec => []NoFrameLost
  BY LinksImplemented, LinksLoseNothing, PTL
=============================================================================
