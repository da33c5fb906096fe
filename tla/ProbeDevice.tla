----------------------------- MODULE ProbeDevice -----------------------------
(***************************************************************************)
(* The processes in which the test server of Probes runs:                  *)
(*                                                                         *)
(*   node     in the process of a simulation.  Frames come through         *)
(*            recv_frame, one at a time; callers start any test; the       *)
(*            process ends as Runtime says.                                *)
(*   deploy   scripts/real_deploy.py --role ts, on a real interface.       *)
(*            _ts_ready starts the services, the monitor and one           *)
(*            forwarding test; only Ctrl-C ends the process.               *)
(*   tap      scripts/real_device.py ts, on a TAP device.  _ts_ready       *)
(*            starts the pages and watches the packets received.           *)
(*                                                                         *)
(* The last two read their interface in a callback of the event loop, which *)
(* makes one task per frame; the tasks run in that order, later, and the   *)
(* ones that have not run when asyncio.run ends never do.                  *)
(*                                                                         *)
(* External: the interface, which hands out any frame.                     *)
(***************************************************************************)
EXTENDS Probes

CONSTANTS
  Processes,   \* the processes considered, of "node", "deploy" and "tap"
  TargetTest,  \* plan of the forwarding test of real_deploy.py's _ts_ready
  Enough       \* packets after which real_device.py's _ts_ready stops (4)

ASSUME DeviceAssumption ==
  /\ Processes \subseteq {"node", "deploy", "tap"}
  /\ TargetTest \in Plans /\ Enough \in Nat

VARIABLES
  process,   \* where the test server runs
  main,      \* the main coroutine: "opening", "loop", "closed", "exited"
  running,   \* node._running
  serving,   \* services whose content has been generated
  frames     \* frames whose on_frame task has not run yet, in order

deviceVars == <<process, main, running, serving, frames>>
allVars == <<vars, deviceVars>>

\* _nic_send and _tap_send return without suspending: nothing comes between a send
\* and its count.  send_frame of a node may wait for room in a queue.
Settled == process = "node" \/ \A t \in Runner : runner[t].phase # "await"

Alive == main \in {"loop", "closed"}

-----------------------------------------------------------------------------
(* The process.                                                            *)

\* The interface is opened, for the TAP device in up to five attempts, and on_start
\* runs; or opening raises, and the process is over.
Open ==
  /\ main = "opening"
  /\ \/ main' = "loop" /\ running' = TRUE
     \/ process # "node" /\ main' = "exited" /\ UNCHANGED running
  /\ UNCHANGED <<vars, process, serving, frames>>

\* The reader callback: a frame is read and handed to a task of its own.  Real NICs
\* see frames of other roles and drop them here; TAP devices have no filter.
Read(f, mine) ==
  /\ process # "node" /\ main = "loop" /\ Settled
  /\ process = "deploy" => mine
  /\ counts.aid_rx + counts.rid_rx + Len(frames) < MaxFrames
  /\ frames' = Append(frames, f)
  /\ UNCHANGED <<vars, process, main, running, serving>>

\* The task of the oldest frame runs: on_frame never waits.
Handle ==
  /\ Alive /\ frames # <<>> /\ Settled
  /\ frames' = Tail(frames)
  /\ OnFrame(Head(frames), FALSE)
  /\ UNCHANGED <<process, main, running, serving>>

\* A node's receive loop calls on_frame itself.
Hear(f) ==
  /\ process = "node" /\ main = "loop"
  /\ OnFrame(f, TRUE)
  /\ UNCHANGED deviceVars

\* start_http_server, start_ftp_server and start_video_server fill lists that only
\* send_http_response reads, which nothing calls.
Serve(services) == serving' = serving \cup services

\* _ts_ready of real_deploy.py, once its second is over.
Ready ==
  /\ process = "deploy" /\ Alive /\ serving = {} /\ Settled
  /\ Serve({"http", "ftp", "video"})
  /\ \E t \in Runner : Start(t, TargetTest, TRUE)
  /\ UNCHANGED <<process, main, running, frames>>

\* _ts_ready of real_device.py.
TapReady ==
  /\ process = "tap" /\ Alive /\ serving = {}
  /\ Serve({"http"})
  /\ UNCHANGED <<vars, process, main, running, frames>>

\* Its polls find enough packets, or there were 50 of them.
TapStop(timeout) ==
  /\ process = "tap" /\ Alive /\ running /\ serving # {}
  /\ recorded >= Enough \/ timeout
  /\ running' = FALSE
  /\ UNCHANGED <<vars, process, main, serving, frames>>

\* _auto_stop, after 15 s, whatever _ts_ready does.
AutoStop ==
  /\ process = "tap" /\ Alive /\ running
  /\ running' = FALSE
  /\ UNCHANGED <<vars, process, main, serving, frames>>

\* The main loop polls _running, or Ctrl-C cancels it; either way the readers go.
Close(interrupt) ==
  /\ process # "node" /\ main = "loop" /\ Settled
  /\ ~running \/ interrupt
  /\ main' = "closed" /\ running' = FALSE
  /\ UNCHANGED <<vars, process, serving, frames>>

\* asyncio.run cancels every task that is left, the ones that have not begun included.
Exit ==
  /\ main = "closed" \/ (process = "node" /\ main = "loop")
  /\ Settled
  /\ main' = "exited" /\ frames' = <<>>
  /\ CancelAll
  /\ UNCHANGED <<process, running, serving>>

-----------------------------------------------------------------------------
(* The tests, while the process lives.                                     *)

\* Callers inside a simulation start what they like.
Call(t, plan) == process = "node" /\ main = "loop" /\ Start(t, plan, FALSE) /\ UNCHANGED deviceVars

RunTest(t) ==
  /\ Alive
  /\ Begin(t) \/ SendPacket(t) \/ Count(t) \/ Report(t)
  /\ UNCHANGED deviceVars

Monitoring ==
  /\ process = "node" /\ main = "loop"
  /\ StartMonitor \/ StopMonitor
  /\ UNCHANGED deviceVars

DeviceInit ==
  /\ Init
  /\ process \in Processes /\ main = "opening" /\ running = FALSE
  /\ serving = {} /\ frames = <<>>

DeviceNext ==
  \/ Open \/ Handle \/ Ready \/ TapReady \/ AutoStop \/ Exit \/ Monitoring
  \/ \E f \in AnyFrame, mine \in BOOLEAN : Read(f, mine)
  \/ \E f \in AnyFrame : Hear(f)
  \/ \E b \in BOOLEAN : TapStop(b) \/ Close(b)
  \/ \E t \in Runner : RunTest(t)
  \/ \E t \in Runner, plan \in Plans : Call(t, plan)

DeviceSpec == DeviceInit /\ [][DeviceNext]_allVars
=============================================================================
