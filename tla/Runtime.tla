------------------------------- MODULE Runtime -------------------------------
(***************************************************************************)
(* The life of a simulation: a main coroutine that starts the nodes, has a *)
(* scenario run and stops them, the nodes' run() and stop()                *)
(* (src/src/nodes/base_node.py), and asyncio.run, which cancels whatever   *)
(* is left when the main coroutine is over.  The nodes' traffic is that of *)
(* Links: a loop works only while its node does, and the shutdown may find *)
(* it in the middle of a handler or of a suspended send.                   *)
(*                                                                         *)
(* The main coroutine is one of these drivers:                             *)
(*   run      scripts/run.py: the scenario, if there is one, then the      *)
(*            duration, then Orchestrator.stop(); run_scenario with a      *)
(*            duration goes straight to it, its scenario a task of its own *)
(*            (src/src/simulation/orchestrator.py)                         *)
(*   forever  run.py without a duration: it sleeps until Ctrl-C            *)
(*   awaited  run_scenario without one: stop() comes after the scenario    *)
(*   script   scripts/simulation.py, scripts/real_simulation.py and        *)
(*            scenarios/run_demo.py: try the scenario, finally stop_all    *)
(*                                                                         *)
(* run() of a node:  created -> running -> cancelled (stop() was called,   *)
(* the CancelledError is on its way) -> cleaning (it has cancelled its     *)
(* internal tasks and gathers them) -> stopped (on_stop has run).  A       *)
(* second cancellation that finds it cleaning leaves it torn: the gather   *)
(* in its finally block passes the cancellation on to the tasks, raises    *)
(* when they are over, and on_stop is skipped.  A node cancelled before    *)
(* its first step never runs.  A receive loop that a cancellation has      *)
(* missed (Cancel of Links) goes on to the end of its handler.             *)
(***************************************************************************)
EXTENDS Links

CONSTANTS
  Drivers,     \* the drivers considered
  MaxSignals   \* bound: SIGINT / SIGTERM received

ASSUME RuntimeAssumption ==
  /\ Drivers \subseteq {"run", "forever", "awaited", "script"} /\ MaxSignals \in Nat
  /\ \A n \in Node : TasksOf(n) # {}     \* every node has an interface

VARIABLES
  status,     \* of each node's run()
  driver,     \* which main coroutine it is
  orch,       \* Orchestrator._running
  main,       \* where it is: starting, in the scenario, waiting, stopping, reported, ...
  signals     \* signals received

lifeVars == <<status, driver, orch, main, signals>>
vars == <<linkVars, lifeVars>>

Working(n) == status[n] \in {"running", "cancelled"}
Halting(n) == status[n] \in {"cleaning", "torn"}
LiveTasks(n) == TasksOf(n) \cap live
Ended(n) == status[n] = "never" \/ (status[n] \in {"stopped", "torn"} /\ LiveTasks(n) = {})

-----------------------------------------------------------------------------
(* Cancellation of every node's task: the first one ends the main loop of  *)
(* run(), one that is still undelivered absorbs the next, and one that     *)
(* arrives during the clean-up tears it and reaches the tasks it gathers.  *)

Cancelled(n) ==
  CASE status[n] = "created"  -> "never"
    [] status[n] = "running"  -> "cancelled"
    [] status[n] = "cleaning" -> "torn"
    [] OTHER                  -> status[n]

Gathering == UNION {LiveTasks(n) : n \in {m \in Node : Halting(m)}}

CancelNodes ==
  /\ status' = [n \in Node |-> Cancelled(n)]
  /\ \E K \in SUBSET (Gathering \cap Deaf) : Cancel(Gathering, K)

\* Orchestrator.stop() up to its gather; a second call returns at once.
StopNodes == orch /\ orch' = FALSE /\ CancelNodes
StopAgain == ~orch /\ UNCHANGED <<linkVars, status, orch>>

-----------------------------------------------------------------------------
(* The main coroutine.                                                     *)

\* start(): after 0.1 s every run() has made its first step; then the handlers are set.
Started ==
  /\ main = "starting" /\ \A n \in Node : status[n] # "created"
  /\ \/ main' = "scenario"
     \/ driver \in {"run", "forever"} /\ main' = "waiting"
  /\ UNCHANGED <<linkVars, status, driver, orch, signals>>

\* Until then Ctrl-C cancels the main task: KeyboardInterrupt, caught at the end of
\* run.py, which has the Orchestrator stop again.
EarlyInterrupt ==
  /\ main = "starting" /\ signals < MaxSignals
  /\ main' = "unwinding" /\ signals' = signals + 1
  /\ orch' = (orch /\ driver \notin {"run", "forever"})
  /\ CancelNodes
  /\ UNCHANGED driver

\* A signal starts a task that runs stop(); the main coroutine goes on as it was.
Signal ==
  /\ driver # "script" /\ signals < MaxSignals
  /\ main \in {"scenario", "waiting", "stopping", "reported"}
  /\ signals' = signals + 1
  /\ StopNodes \/ StopAgain
  /\ UNCHANGED <<driver, main>>

\* Mutant: the main coroutine does not await the nodes.
MainStopsUnawaited ==
  /\ StopNodes \/ StopAgain
  /\ main' = "reported"

\* await stop() of the main coroutine: it returns at once when a signal came first.
MainStops ==
  \/ StopNodes /\ main' = "stopping"
  \/ StopAgain /\ main' = "reported"

\* The duration is over, if there is one.
Expire ==
  /\ main = "waiting" /\ driver = "run"
  /\ MainStops
  /\ UNCHANGED <<driver, signals>>

\* run.py: the scenario it has awaited returns, and the duration begins.
ScenarioReturns ==
  /\ main = "scenario" /\ driver \in {"run", "forever"}
  /\ main' = "waiting"
  /\ UNCHANGED <<linkVars, status, driver, orch, signals>>

\* The scenario raises, and nobody on the way out calls stop().
ScenarioRaises ==
  /\ main = "scenario" /\ driver # "script"
  /\ main' = "unwinding"
  /\ CancelNodes
  /\ UNCHANGED <<driver, orch, signals>>

\* run_scenario: the scenario it awaits returns.
ScenarioAwaited ==
  /\ main = "scenario" /\ driver = "awaited"
  /\ MainStops
  /\ UNCHANGED <<driver, signals>>

\* stop() has cancelled the scenario's task among the others, and a CancelledError is
\* no reason to wait for the nodes: the stop() that follows returns at once.
ScenarioCancelled ==
  /\ main = "scenario" /\ driver = "awaited" /\ ~orch
  /\ main' = "reported"
  /\ UNCHANGED <<linkVars, status, driver, orch, signals>>

\* stop_all of the scripts up to its gather.
StopAll == main' = "stopping" /\ CancelNodes

\* try: the scenario; finally: stop_all, whether it returns or raises.
ScriptEnds ==
  /\ main = "scenario" /\ driver = "script"
  /\ StopAll
  /\ UNCHANGED <<driver, orch, signals>>

\* The scripts set no handler for Ctrl-C.  From Python 3.11 on it cancels the main task,
\* whose finally block stops the nodes, and in there what stop_all gathers.  Before, it
\* leaves the loop as a KeyboardInterrupt, and asyncio.run cancels the nodes and the
\* main task together.
ScriptInterrupt ==
  /\ driver = "script" /\ signals < MaxSignals
  /\ signals' = signals + 1
  /\ \/ main = "scenario" /\ StopAll
     \/ main = "scenario" /\ main' = "interrupted" /\ CancelNodes
     \/ main = "stopping" /\ main' = "unwinding" /\ CancelNodes
  /\ UNCHANGED <<driver, orch>>

\* The finally block of a main task that was cancelled with the nodes: stop_all cancels
\* them once more.
ScriptUnwinds ==
  /\ main = "interrupted"
  /\ StopAll
  /\ UNCHANGED <<driver, orch, signals>>

\* The gather of the main coroutine's own stop() is complete; the report follows.
Gathered ==
  /\ main = "stopping" /\ \A n \in Node : Ended(n)
  /\ main' = "reported"
  /\ UNCHANGED <<linkVars, status, driver, orch, signals>>

\* The main coroutine returns; asyncio.run cancels every task that is left.
Unwind ==
  /\ main = "reported"
  /\ main' = "unwinding"
  /\ CancelNodes
  /\ UNCHANGED <<driver, orch, signals>>

Exit ==
  /\ main = "unwinding"
  /\ \A n \in Node : Ended(n)
  /\ main' = "exited"
  /\ UNCHANGED <<linkVars, status, driver, orch, signals>>

MainNext ==
  \/ Started \/ EarlyInterrupt \/ Signal \/ Expire
  \/ ScenarioReturns \/ ScenarioRaises \/ ScenarioAwaited \/ ScenarioCancelled
  \/ ScriptEnds \/ ScriptInterrupt \/ ScriptUnwinds
  \/ Gathered \/ Unwind \/ Exit

-----------------------------------------------------------------------------
(* run() of a node.                                                        *)

\* The first step: on_start, one receive loop per interface.
Begin(n) ==
  /\ status[n] = "created"
  /\ status' = [status EXCEPT ![n] = "running"]
  /\ UNCHANGED <<linkVars, driver, orch, main, signals>>

\* Mutant: the handlers are given the time to finish.
CleanUpGraceful(n) ==
  /\ status[n] = "cancelled"
  /\ \A t \in TasksOf(n) : out[t] = NoFrame /\ t \notin busy
  /\ status' = [status EXCEPT ![n] = "cleaning"]
  /\ Cancel(LiveTasks(n), {})
  /\ UNCHANGED <<driver, orch, main, signals>>

\* The CancelledError is delivered: finally cancels the internal tasks and gathers them.
CleanUp(n) ==
  /\ status[n] = "cancelled"
  /\ status' = [status EXCEPT ![n] = "cleaning"]
  /\ \E K \in SUBSET (LiveTasks(n) \cap Deaf) : Cancel(LiveTasks(n), K)
  /\ UNCHANGED <<driver, orch, main, signals>>

\* Mutant: the clean-up does not wait for the tasks it has cancelled.
OnStopUnawaited(n) ==
  /\ status[n] = "cleaning"
  /\ status' = [status EXCEPT ![n] = "stopped"]
  /\ UNCHANGED <<linkVars, driver, orch, main, signals>>

\* The gather is complete: _tasks is cleared and on_stop runs.
OnStop(n) ==
  /\ status[n] = "cleaning" /\ LiveTasks(n) = {}
  /\ status' = [status EXCEPT ![n] = "stopped"]
  /\ UNCHANGED <<linkVars, driver, orch, main, signals>>

-----------------------------------------------------------------------------
(* The traffic of Links.  A loop that goes on after the cancellation sends *)
(* what its handler has to send, finds _running False, and ends.           *)

Acts(t) == Working(OwnerOf(t)) \/ Halting(OwnerOf(t))

SendOut(t, i, d) == Acts(t) /\ Send(t, i, d) /\ UNCHANGED lifeVars
GoOn(t) == Acts(t) /\ Resume(t) /\ UNCHANGED lifeVars
Hear(i) == Working(NodeOf[i]) /\ Receive(i) /\ UNCHANGED lifeVars

HandlerEnds(i) ==
  /\ \/ Working(NodeOf[i]) /\ Return(i)
     \/ Halting(NodeOf[i]) /\ i \in live \cap Deaf /\ Cancel({i}, {})
  /\ UNCHANGED lifeVars

Init ==
  /\ LinksInit
  /\ status = [n \in Node |-> "created"]
  /\ driver \in Drivers /\ orch = TRUE /\ main = "starting" /\ signals = 0

Next ==
  \/ MainNext
  \/ \E n \in Node : Begin(n) \/ CleanUp(n) \/ OnStop(n)
  \/ \E u \in Uses : SendOut(u[1], u[2], u[3])
  \/ \E t \in Task : GoOn(t)
  \/ \E i \in Iface : Hear(i) \/ HandlerEnds(i)

\* The event loop always runs something that is ready, and a sleep ends; signals need not
\* come, and nothing says that a scenario is ever over.  Which ready task is next is left
\* open: with Sends bounded, each has its turn.
MainStep ==
  Started \/ Expire \/ ScenarioCancelled \/ ScriptUnwinds \/ Gathered \/ Unwind \/ Exit
RunStep(n) == Begin(n) \/ CleanUp(n) \/ OnStop(n)
TaskStep(t) == GoOn(t) \/ (t \in Iface /\ (Hear(t) \/ HandlerEnds(t)))

Fairness ==
  WF_vars(MainStep \/ (\E n \in Node : RunStep(n)) \/ (\E t \in Task : TaskStep(t)))

Spec == Init /\ [][Next]_vars
FairSpec == Spec /\ Fairness

-----------------------------------------------------------------------------
(* Properties.                                                             *)

TypeOK ==
  /\ LinksTypeOK
  /\ status \in [Node -> {"created", "running", "cancelled", "cleaning", "stopped", "torn", "never"}]
  /\ driver \in Drivers /\ orch \in BOOLEAN
  /\ main \in {"starting", "scenario", "waiting", "interrupted", "stopping", "reported",
               "unwinding", "exited"}
  /\ signals \in 0..MaxSignals

\* A node that has stopped is quiet: none of its tasks is left, no send of theirs is
\* pending, and without a signal the main coroutine gets past its stop only when that is
\* so of all nodes.
StoppedIsQuiet ==
  /\ \A n \in Node : status[n] = "stopped" =>
       \A t \in TasksOf(n) : t \notin live /\ out[t] = NoFrame /\ t \notin busy
  /\ main = "reported" /\ signals = 0 => \A n \in Node : status[n] = "stopped"

\* on_stop is skipped only after a signal: a run that ends of its own accord, by its
\* duration, by its scenario or by an exception of the scenario, however its sends are
\* suspended at that moment, gives every node a complete clean-up.
CleanWithoutSignal ==
  \A n \in Node : status[n] \in {"torn", "never"} => signals > 0

\* A send that waits for room.
Waits(t) == t \in live /\ out[t] # NoFrame /\ ~Room(Head(todo[t]))

\* A send nobody can complete: nobody works any more that reads the queue it waits for, or
\* the readers stand, themselves in handlers that wait so, in a circle with it.
Stuck(t) ==
  \E S \in SUBSET {s \in Task : Waits(s)} :
    /\ t \in S
    /\ \A s \in S, i \in Iface :
         Reads(i, Head(todo[s])) /\ Working(NodeOf[i]) => i \in S

\* Every suspended send is completed, or its task cancelled, unless it is stuck.
SendsEnd == []<>(\A t \in Task : out[t] = NoFrame \/ Stuck(t))

\* A node in its clean-up is held up by a handler the cancellation has missed, which
\* then wants to put a frame where nobody makes room.
HeldUp(n) == Halting(n) /\ \E t \in LiveTasks(n) : Stuck(t)

\* The main coroutine is past its work, or a signal's stop() has ended what it waits for.
Leaving ==
  /\ main # "exited"
  /\ \/ main \in {"interrupted", "stopping", "reported", "unwinding"}
     \/ ~orch /\ (driver = "awaited" \/ (driver = "run" /\ main = "waiting"))

\* A shutdown ends, also when it finds handlers suspended on full queues whose readers
\* are gone: every node ends, and a main coroutine that is leaving exits, unless a node
\* is held up.
ShutdownEnds ==
  ~orch \/ Leaving ~> /\ \A n \in Node : Ended(n) \/ HeldUp(n)
                      /\ Leaving => \E n \in Node : HeldUp(n)

\* "0 = run until Ctrl+C" (scripts/run.py:35): the process ends after Ctrl-C.
CtrlCEnds == signals > 0 ~> main = "exited"
=============================================================================
