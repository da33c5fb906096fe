------------------------------- MODULE Probes --------------------------------
(***************************************************************************)
(* The measurements of the test server (src/src/nodes/test_server.py):     *)
(* the tests it runs as coroutines, several at a time, the receive side    *)
(* that sorts what arrives, and the per-flow counters they share.          *)
(*                                                                         *)
(* A flow is named by a string the code puts together from a purpose and a *)
(* peer; here a pair.  Sending and receiving name different flows:         *)
(* "aid-probe" and "probe", "rid-probe" and "rid-echo", "bw-test" and      *)
(* "bw-recv"; the latency test reports a third, "latency".                 *)
(*                                                                         *)
(* What the network returns is external: echoes of probes, possibly lost   *)
(* or repeated, packets of another test server, the texts of               *)
(* scripts/test_cr_forwarding.py, and damaged frames.  ProbeDevice puts    *)
(* the test server into the processes that run it.                         *)
(***************************************************************************)
EXTENDS Naturals, Sequences, FiniteSets

CONSTANTS
  Peer,        \* AIDs probed, and sources of AID packets
  Target,      \* RIDs probed, and sources of RID packets
  Runner,      \* coroutines that may run tests at the same time
  Plans,       \* sequences of parts <<kind, peer or target>> a caller may ask for
  Packets,     \* packets a part sends (num_probes, probes_per_target, total_packets)
  MaxStarts,   \* bound: tests started
  MaxFrames    \* bound: frames heard

Kind == {"latency", "bandwidth", "forwarding"}

ASSUME ProbesAssumption ==
  /\ Peer \cap Target = {}
  /\ IsFiniteSet(Peer) /\ IsFiniteSet(Target) /\ IsFiniteSet(Runner)
  /\ Plans \subseteq Seq(Kind \X (Peer \cup Target)) \ {<<>>}
  /\ Packets \in Nat /\ MaxStarts \in Nat /\ MaxFrames \in Nat

Purpose == {"aid-probe", "rid-probe", "bw-test", "latency", "rid-fwd", "probe", "bw-recv", "rid-echo"}
FlowId == Purpose \X (Peer \cup Target)
FlowStats == [sent : Nat, recv : Nat]
NewFlow == [sent |-> 0, recv |-> 0]

\* What a payload says once it is decoded: a probe of either form, a probe of either
\* form whose numbers do not parse ("PROBE:CR1->CR2:seq=0"), bandwidth data, or
\* something else, such as bytes that are no UTF-8; or the frame is damaged and has
\* no payload.
Text == {"probe", "rid-probe", "bad-probe", "bad-rid-probe", "bw", "other", "damaged"}
AIDFrame == [net : {"aid"}, text : Text, src : Peer]
RIDFrame == [net : {"rid"}, text : Text, src : Target]
AnyFrame == AIDFrame \cup RIDFrame

VARIABLES
  flows,     \* _flows, a partial function
  counts,    \* _packet_counts
  recorded,  \* packets recorded as received in the node's metrics
  runner,    \* the coroutines
  reports,   \* results returned so far, in order
  monitor,   \* _monitor_task
  starts,    \* tests started
  heard      \* how often each frame was given to on_frame (history)

vars == <<flows, counts, recorded, runner, reports, monitor, starts, heard>>

Idle == [plan |-> <<>>, next |-> 0, phase |-> "idle"]
Part(t) == Head(runner[t].plan)

\* The sum of n over S: the tokens <<x, 1>>, ..., <<x, n[x]>> of its members.
Tokens(n, S) == UNION {{x} \X (1..n[x]) : x \in S}
Total(n, S) == Cardinality(Tokens(n, S))

\* _get_flow: an unknown flow is created.
WithFlow(fs, id) ==
  [x \in DOMAIN fs \cup {id} |-> IF x \in DOMAIN fs THEN fs[x] ELSE NewFlow]
Bump(fs, id, field) == [WithFlow(fs, id) EXCEPT ![id][field] = @ + 1]

-----------------------------------------------------------------------------
(* The tests.                                                              *)

\* A test, or run_all_tests, is called; the caller may have started the monitor just
\* before, without waiting in between.
Start(t, plan, monitored) ==
  /\ runner[t] = Idle /\ starts < MaxStarts
  /\ runner' = [runner EXCEPT ![t] = [plan |-> plan, next |-> 0, phase |-> "begin"]]
  /\ starts' = starts + 1
  /\ monitor' = (monitor \/ monitored)
  /\ UNCHANGED <<flows, counts, recorded, reports, heard>>

OwnFlow(part) ==
  CASE part[1] = "latency"    -> <<"latency", part[2]>>
    [] part[1] = "bandwidth"  -> <<"bw-test", part[2]>>
    [] part[1] = "forwarding" -> <<"rid-fwd", part[2]>>

\* The flow a packet of the part is counted under.
SendFlow(part) ==
  CASE part[1] = "latency"    -> <<"aid-probe", part[2]>>
    [] part[1] = "bandwidth"  -> <<"bw-test", part[2]>>
    [] part[1] = "forwarding" -> <<"rid-probe", part[2]>>

\* Mutant: the latency test starts its counters anew where the probes are counted.
BeginResetting(t) ==
  /\ runner[t].phase = "begin"
  /\ LET id == OwnFlow(Part(t))
         fs == WithFlow(flows, id)
     IN flows' = IF Part(t)[1] = "latency"
                 THEN [x \in DOMAIN fs |-> IF x = id \/ x = <<"probe", id[2]>> THEN NewFlow ELSE fs[x]]
                 ELSE fs
  /\ runner' = [runner EXCEPT ![t].phase = "send"]
  /\ UNCHANGED <<counts, recorded, reports, monitor, starts, heard>>

\* Mutant: the latency test removes its flow to reset it.
BeginRemoving(t) ==
  /\ runner[t].phase = "begin"
  /\ LET id == OwnFlow(Part(t))
     IN flows' = IF Part(t)[1] = "latency"
                 THEN [x \in DOMAIN flows \ {id} |-> flows[x]] ELSE WithFlow(flows, id)
  /\ runner' = [runner EXCEPT ![t].phase = "send"]
  /\ UNCHANGED <<counts, recorded, reports, monitor, starts, heard>>

\* A part looks its flow up; the latency test resets it.
Begin(t) ==
  /\ runner[t].phase = "begin"
  /\ LET id == OwnFlow(Part(t))
         fs == WithFlow(flows, id)
     IN flows' = IF Part(t)[1] = "latency" THEN [fs EXCEPT ![id] = NewFlow] ELSE fs
  /\ runner' = [runner EXCEPT ![t].phase = "send"]
  /\ UNCHANGED <<counts, recorded, reports, monitor, starts, heard>>

\* The packet is handed to send_frame; nobody looks at the result.
SendPacket(t) ==
  /\ runner[t].phase = "send" /\ runner[t].next < Packets
  /\ runner' = [runner EXCEPT ![t].phase = "await"]
  /\ UNCHANGED <<flows, counts, recorded, reports, monitor, starts, heard>>

\* Mutant: the counter is read before the await and written after it.
CountStale(t) ==
  /\ runner[t].phase = "await"
  /\ LET id == SendFlow(Part(t))
     IN flows' = [WithFlow(flows, id) EXCEPT ![id].sent = runner[t].next + 1]
  /\ runner' = [runner EXCEPT ![t].phase = "send", ![t].next = @ + 1]
  /\ UNCHANGED <<counts, recorded, reports, monitor, starts, heard>>

\* The send has returned, with whatever result: the packet is counted.
Count(t) ==
  /\ runner[t].phase = "await"
  /\ flows' = Bump(flows, SendFlow(Part(t)), "sent")
  /\ runner' = [runner EXCEPT ![t].phase = "send", ![t].next = @ + 1]
  /\ UNCHANGED <<counts, recorded, reports, monitor, starts, heard>>

\* What the part returns: the forwarding test the number it was asked for, the
\* others the counters of their own flow.
Result(part) ==
  LET own == flows[OwnFlow(part)] IN
  [kind |-> part[1], of |-> part[2],
   sent |-> IF part[1] = "forwarding" THEN Packets ELSE own.sent,
   recv |-> IF part[1] = "latency" THEN own.recv ELSE 0]

Report(t) ==
  /\ runner[t].phase = "send" /\ runner[t].next = Packets
  /\ reports' = Append(reports, Result(Part(t)))
  /\ runner' = [runner EXCEPT ![t] =
       IF Len(@.plan) = 1 THEN Idle
       ELSE [plan |-> Tail(@.plan), next |-> 0, phase |-> "begin"]]
  /\ UNCHANGED <<flows, counts, recorded, monitor, starts, heard>>

-----------------------------------------------------------------------------
(* The receive side.                                                       *)

\* The flow a frame is counted under, none if its text does not parse.
RecvFlow(f) ==
  CASE f.net = "aid" /\ f.text \in {"probe", "rid-probe"} -> {<<"probe", f.src>>}
    [] f.net = "aid" /\ f.text = "bw"                     -> {<<"bw-recv", f.src>>}
    [] f.net = "rid" /\ f.text = "rid-probe"              -> {<<"rid-echo", f.src>>}
    [] OTHER                                              -> {}

\* Mutant: a probe is counted once its numbers have been read.
IsProbeParsed(f) ==
  IF f.net = "aid" THEN f.text \in {"probe", "rid-probe"} ELSE f.text = "rid-probe"

\* Probes are counted before their numbers are read; over RID only "PROBE:RID:" is one.
IsProbe(f) ==
  IF f.net = "aid" THEN f.text \in {"probe", "rid-probe", "bad-probe", "bad-rid-probe"}
  ELSE f.text \in {"rid-probe", "bad-rid-probe"}

\* MetricsAccumulator.record_recv, by on_frame and by the node's recv_frame.
RecordRecv(times) == recorded' = recorded + times

\* on_frame: a damaged packet raises in inner_aid / inner_rid, after the first count.
\* Inside a node recv_frame has recorded the frame before.
OnFrame(f, inNode) ==
  /\ counts.aid_rx + counts.rid_rx < MaxFrames
  /\ heard' = [heard EXCEPT ![f] = @ + 1]
  /\ LET rx == IF f.net = "aid" THEN "aid_rx" ELSE "rid_rx"
     IN counts' = [counts EXCEPT ![rx] = @ + 1, !["probe_rx"] = IF IsProbe(f) THEN @ + 1 ELSE @]
  /\ RecordRecv((IF f.text # "damaged" THEN 1 ELSE 0) + (IF inNode THEN 1 ELSE 0))
  /\ flows' = IF RecvFlow(f) = {} THEN flows
              ELSE Bump(flows, CHOOSE id \in RecvFlow(f) : TRUE, "recv")
  /\ UNCHANGED <<runner, reports, monitor, starts>>

\* asyncio.run cancels the coroutines that are left; what they have counted stays.
CancelAll ==
  /\ runner' = [t \in Runner |-> IF runner[t].phase = "idle" THEN runner[t]
                                 ELSE [runner[t] EXCEPT !.phase = "cancelled"]]
  /\ UNCHANGED <<flows, counts, recorded, reports, monitor, starts, heard>>

\* start_monitor does nothing while there is a task; stop_monitor cancels it.
StartMonitor == ~monitor /\ monitor' = TRUE
                /\ UNCHANGED <<flows, counts, recorded, runner, reports, starts, heard>>
StopMonitor == monitor /\ monitor' = FALSE
               /\ UNCHANGED <<flows, counts, recorded, runner, reports, starts, heard>>

Init ==
  /\ flows = <<>> /\ reports = <<>> /\ heard = [f \in AnyFrame |-> 0]
  /\ counts = [aid_rx |-> 0, rid_rx |-> 0, probe_rx |-> 0]
  /\ recorded = 0
  /\ runner = [t \in Runner |-> Idle]
  /\ monitor = FALSE /\ starts = 0

Next ==
  \/ \E t \in Runner :
       \/ \E plan \in Plans, monitored \in BOOLEAN : Start(t, plan, monitored)
       \/ Begin(t) \/ SendPacket(t) \/ Count(t) \/ Report(t)
  \/ \E f \in AnyFrame, inNode \in BOOLEAN : OnFrame(f, inNode)
  \/ CancelAll \/ StartMonitor \/ StopMonitor

Spec == Init /\ [][Next]_vars

-----------------------------------------------------------------------------
(* Properties.                                                             *)

\* Types; a part that is sending has its flow.
TypeOK ==
  /\ DOMAIN flows \subseteq FlowId /\ \A id \in DOMAIN flows : flows[id] \in FlowStats
  /\ counts \in [{"aid_rx", "rid_rx", "probe_rx"} -> Nat]
  /\ recorded \in Nat
  /\ monitor \in BOOLEAN /\ starts \in 0..MaxStarts
  /\ heard \in [AnyFrame -> Nat]
  /\ reports \in Seq([kind : Kind, of : Peer \cup Target, sent : Nat, recv : Nat])
  /\ runner \in [Runner -> [plan : Seq(Kind \X (Peer \cup Target)), next : 0..Packets,
                            phase : {"idle", "begin", "send", "await", "cancelled"}]]
  /\ \A t \in Runner :
       /\ runner[t].plan = <<>> <=> runner[t].phase = "idle"
       /\ runner[t].phase \in {"send", "await"} => OwnFlow(Part(t)) \in DOMAIN flows
       /\ runner[t].phase = "await" => runner[t].next < Packets

Sent(id) == IF id \in DOMAIN flows THEN flows[id].sent ELSE 0
Recv(id) == IF id \in DOMAIN flows THEN flows[id].recv ELSE 0

\* Every packet of every test is counted once under its peer, however the tests
\* and their awaits interleave: what is counted is what the finished parts sent and
\* what the running ones, and the ones cancelled on the way, have sent so far.
Running(part) == {t \in Runner : runner[t].phase # "idle" /\ Part(t) = part}
Finished(part) == {j \in DOMAIN reports : <<reports[j].kind, reports[j].of>> = part}
SendsCounted ==
  LET soFar == [t \in Runner |-> runner[t].next]
  IN \A part \in Kind \X (Peer \cup Target) :
       Sent(SendFlow(part)) = Packets * Cardinality(Finished(part)) + Total(soFar, Running(part))

\* The monitor's totals agree with the flows: every probe counted is in the flow
\* of its source, unless its numbers did not parse; no test running meanwhile
\* takes one away, and every frame is in exactly one of aid_rx and rid_rx.
ProbesFrom == [p \in Peer \cup Target |-> Recv(<<"probe", p>>) + Recv(<<"rid-echo", p>>)]
Unparsed ==
  {f \in AnyFrame : f.text = "bad-rid-probe" \/ (f.net = "aid" /\ f.text = "bad-probe")}
TalliesAgree ==
  /\ counts.aid_rx + counts.rid_rx = Total(heard, AnyFrame)
  /\ counts.probe_rx = Total(ProbesFrom, Peer \cup Target) + Total(heard, Unparsed)
  /\ counts.probe_rx <= counts.aid_rx + counts.rid_rx

\* No counter is ever set back but those of the latency test's own flow.
CountersOnlyGrow ==
  [][\A id \in DOMAIN flows : id[1] # "latency" =>
       flows'[id].sent >= flows[id].sent /\ flows'[id].recv >= flows[id].recv]_vars
=============================================================================
