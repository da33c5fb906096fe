# Verification of the identifier-network simulator

This directory holds TLA+ models of the identifier network in `src/src` and of the
scripts that run it (package paths below are relative to `src/src`, script paths to
`src`), the TLC configurations that check them, and proofs of their main invariants
that TLAPS checks.

In the network an entity is named twice. An AID says who a host is, an RID, a
point of a two-dimensional space, says where it is attached. Hosts talk AIDs
to an access point (AP). A core router (CR) wraps their packets in RID packets,
using a mapping AID → RID, and routes those by the most specific region of the
RID space. A control server (CS) keeps the registry of all mappings,
authenticates users, and tells the CRs when one has moved. A test server (TS)
answers requests and measures. All of it runs as `asyncio` coroutines: in one
process over simulated links and switches, or one node per process over sockets.

## 1. Inventory

| Component | Source | State it keeps | Operations | Module |
|---|---|---|---|---|
| Core router | `nodes/core_router.py`, `tables/cr_tables.py`, `routing/mapping.py` | local and remote mappings, user statuses, associated APs, neighbours, routes | `on_frame`, `_handle_aid`, `_handle_rid` and its branches, `_decapsulate_and_forward`, `_handle_control_signal`, `set_user_status` | `MobilityControl`, `DataPlane`, `Journey` |
| Access point | `nodes/access_point.py` | `_local_users`, `_pending_auth`, `_auth_seq`, `_neighbor_cache` | `handle_auth_request`, `_proxy_auth_to_cs`, `activate_user`, `_dispatch_control_signal`, forwarding of user frames | `AuthProxy`, `MobilityControl`, `DataPlane`, `Journey` |
| Control server | `nodes/control_server.py`, `tables/cs_tables.py` | user registry, mapping registry, `ap_to_cr`, managed CRs | `_handle_auth`, `_handle_register`, `_handle_query`, `_handle_mobility`, `_reply_to` | `MobilityControl`, `AuthProxy`, `Journey` |
| Host | `nodes/host.py` | `_authenticated`, `_auth_future` | `authenticate`, `send_*`, `on_frame` | `AuthProxy`, `Journey` |
| RID routing | `routing/rid_routing.py`, `common/addressing.py` | `rid_routes` | `rid_lookup`, `rid_route_add`, `rid_route_remove` | `RIDLookup` |
| Node runtime | `nodes/base_node.py` | interfaces, internal tasks, the running flag | `run`, `_recv_loop`, `send_frame`, `recv_frame`, `create_task`, `stop` | `Links`, `Runtime` |
| Links, switches | `simulation/virtual_link.py` | a queue per endpoint or port, the MAC table, isolation groups | `send`, `recv`, `broadcast`, `send_to`, `add_port`, `attach` | `Media`, `Links` |
| Orchestrator | `simulation/orchestrator.py`, `scripts/run.py`, the scripts with a `stop_all` of their own | the node tasks, `_running` | `start`, `stop`, `run_scenario`, signal handlers, the end of the run | `Runtime` |
| Topology, demos, network tests | `simulation/topology.py`, `config/topology.yaml`, `scripts/simulation.py`, `scenarios/run_demo.py`, `scripts/test_cr_forwarding.py`, `scripts/test_mobility.py`, `test_cr_forwarding.py` | none of their own: they wire, fill tables, and make requests | `from_yaml`, `build_*`, `run_*_demo`, `demo_*` | `Deployments`, `Journey` |
| Test server | `nodes/test_server.py`; `scripts/real_deploy.py`, `scripts/real_device.py` as its processes | flows, counters, the monitor task, the contents served | the three tests, `run_all_tests`, `on_frame`, the services, `run_device` | `Probes`, `ProbeDevice` |
| Formats | `common/packets.py`, `common/ethernet.py`, `common/serializer.py`, `control_plane/signaling.py` | none | `serialize`, `deserialize`, `decrement_ttl`, `encode_signal` | `Wire` |
| AID routing | `routing/aid_routing.py` | a dictionary | get, add, remove | — |
| Real interfaces, TAP bridge | `network/*.py`, `scripts/real_*.py` | sockets, TAP devices | open, read, send, copy | `ProbeDevice`, as a test server sees them |

How they interact. Everything between nodes is a frame on a link. Inside a
node an `asyncio` loop runs one `_recv_loop` per interface, which awaits the
handler of a frame before it reads the next (`base_node.py:258-268`);
`scripts/real_deploy.py` and `scripts/real_device.py` start a task per frame instead. A
handler suspends at two kinds of places: in a send, when the queue it puts into is full or the link has a
delay, and in the AP's authentication proxy, which waits for an answer. All control
traffic of the CS goes to the broadcast MAC address, so every CR hears every frame,
and a CR that knows the addressee of a frame for another CR relays it
(`core_router.py:282-335`). The orchestrator ends nodes by cancelling their tasks.

What is hard, and what must hold:

* *Mobility.* Registrations, notifications, their relayed copies and the alerts
  CRs raise from their caches cross each other; notifications carry no version
  and are never repeated. In the end all routers must agree with the registry,
  the router named must serve the user at the right AP, and no table may name a
  place the user never was at.
* *Authentication.* Answers carry no request id, the AP has one table of futures
  for all hosts, timers race with answers, copies arrive twice, and a suspended
  handler may hold up the loop that would wake it. No entry may leak or vanish,
  one acceptance may not turn into two, nobody may be let through unverified,
  and everything must end.
* *Routing.* The search ranks routes by a *product* of prefix lengths that is 0
  as soon as one length is. It must still be longest-prefix match.
* *Data plane.* Packets meet tables that change between two hops; redirected ones
  start over with a fresh TTL; which branch a frame takes depends on identifiers
  set in several files. A packet for a user the control plane agrees about must
  arrive, and none may go round for ever.
* *Deployments.* Whether the tables three builders fill by hand lead anywhere, what
  broadcast copies do where no MAC address is configured, and what becomes of a
  packet near the limit of its length field, shows only on the whole way.
* *Links.* A put on a full queue suspends a handler, and with it the loop that would
  empty a queue; loops that send to each other can stand still together. Frames may
  not overtake, double, cross an isolation group, or vanish where nothing is lossy, and
  a send may be stuck in no other way.
* *Shutdown.* Cancellation finds handlers in the middle of a send, passes by a loop
  that holds a frame already, and a second one may find a node cleaning up. A stopped
  node must be quiet, a run that gets no signal must clean up completely, whoever drives
  it and however it ends, and a shutdown must get through to the end.
* *Measurements.* Tests share counters across awaits, and their process may end under
  them. Nothing may be counted twice or lost, and no test may set back what another
  counts.

`PROJECT.json` lists each hazard at its line with the properties that cover it, or
says why none does.

## 2. The modules

```
Registry  ⇐  MobilityControl ─── MCMobilityControl (instances for TLC)
               ├── MobilityControlProofs
               └── DataPlane ── MCDataPlane
                     └── DataPlaneProofs (with MobilityControlProofs)
AuthProxy ─── MCAuthProxy
   └── AuthProxyProofs
RIDLookup ─── RIDLookupProofs
Media ─── Links  ⇐  Runtime ─── MCRuntime
            └── LinksProofs └── RuntimeProofs (with LinksProofs)
Wire, Deployments (uses Media, RIDLookup by INSTANCE) ─── Journey ─── MCJourney
                                                            └── JourneyProofs
Probes  ⇐  ProbeDevice ─── MCProbes
             └── ProbesProofs
```

`⇐` is refinement. `RegistryRefined` of `MobilityControl` is a property and a theorem.
`Runtime`, `ProbeDevice` and `DataPlane` are built from the steps of the module they
extend, so that they implement `Links`, `Probes` and `MobilityControl` says nothing about
the code; it is a lemma of each proof module, by which invariants carry over.
Definitions whose comment begins with "Mutant" are not used by any specification: they
are the slips each property is known to notice.

### MobilityControl, Registry

State: the tables the handlers read and write (`local_users` of the APs,
`mappings` of the CS, `remote_mappings` and `user_statuses` of every CR) and the
queues between them (`acc`: AP → CR, `csq`: CR → CS, `mgmt[p][t]`: at the
management port of p, frames for t, `core[p][t]`: frames p has relayed to t).
`last`, the CS's last notification about each user, is a history variable.

| Action | Code |
|---|---|
| `ActivateUser` | `AccessPoint.activate_user`, also what follows a successful authentication |
| `ForwardToCS` | a CR passing an AP's frame to its CS neighbour |
| `HandleRegister`, `HandleMobility`, both with `Publish` | the CS's handlers and `_reply_to` to every managed CR |
| `HandleNotification` | a CR receiving a flooded frame for itself: branches 0 and 0.5 of `_handle_rid`, then `_handle_control_signal` |
| `HandleFlooded` | a CR receiving a flooded frame for another CR: branch 3 relays it or drops it |
| `HandleRelayed` | the addressee receiving such a copy |
| `SetUserStatus` | `set_user_status` called by a scenario script; no handler calls it. It writes an entry, whatever there was |
| `RedirectAndAlert` | the MOVED_AWAY branch of `_decapsulate_and_forward`; the packet itself is the data plane's |
| `DropNewest` | a frame lost on a link (`loss_rate`) or in a full socket buffer |

A handler is one action because it has no effective suspension point: a put on a
queue that is not full and a raw-socket send both complete at once. The model
assumes that the queues (1000 frames) do not fill; `Links` has the case where they
do. Left out are frames nobody acts on: the registration an AP also sends to its CR,
which `_handle_control_signal` ignores, the advertisement the CS only logs, and
`MappingQueryRequest`, which no node sends. Handlers of frames for different CRs
touch different state, so a port's one queue is split by addressee; this adds
behaviours and removes none.

`NamedAP` is the AP such a call names: that of the entry it overwrites, or one of the
router's that has the user. Two scenarios (`scenarios/run_demo.py:222-223`,
`scripts/mobility_handover.py:37-44`) name an AP that does not have the user yet; there
`ServingAPHasUser` does not hold, by the scenario's own doing, until the user arrives.

Constants describe a deployment: who is wired to whom, `ap_to_cr`, which CR can
relay to which, the static local rows. `ConfigIdentifiers` states what the YAML
files respect: CRs have distinct RIDs, so have the APs of one CR, an AP shares
at most its own CR's RID, and `ap_to_cr` knows every AP.

`Registry` is what all this promises, without messages: users attach at places, and
a registry and copies of it take over such places, one entry at a time and however
late. `PlaceOf` and `Promised` read its state off the tables.

### DataPlane

`DataPlane` extends `MobilityControl` with user data. `packets` gives every packet
its place and its form: an AID frame at an AP or a CR, an RID frame at one of
them, handed to its user, or dropped. `NextHop`, `RIDSpaces` and `AccessNeighbors`
are the configured routes (what `rid_lookup`, which `RIDLookup` models, and the
route neighbours lead to), spaces and neighbours. `attached` (where each user
attached last) and `fresh` (packets sent while the control plane agreed where
their user is, and has agreed since) are history.

| Action | Code |
|---|---|
| `SendUserData` | `Host._send_data` to the host's AP |
| `APHandleAid`, `APHandleRid` | `AccessPoint.on_frame`, which tells uplink from downlink by whether it has the user |
| `HandleAid` with `RouteAid` | `CoreRouter._handle_aid`: TTL, local delivery, else encapsulation |
| `HandleRid` with `RouteRid` | `CoreRouter._handle_rid` for user data: TTL, own AP, own RID or own space, else routing; then `_decapsulate_and_forward` |
| `Redirect` | its MOVED_AWAY branch: the packet under a new RID header, and with it `RedirectAndAlert` |
| `Attach`, `Control` | `ActivateUser` and `ControlStep` of `MobilityControl` |

The two modules are composed by sharing the tables: every step of `DataPlane` contains
a step of `MobilityControl` or leaves its variables alone. Where the bound on alerts is
used up, or the router has no row, a redirect takes no step of the control plane. Frames are unicast, as the MAC
addresses in `cr1.yaml` and `cr2.yaml` make them and the reader in
`scripts/real_deploy.py` enforces; broadcast is `Journey`'s.

### AuthProxy

State: per host its `authenticate()` call (`phase`, `result`, `authenticated`);
at the AP the coroutines of `handle_auth_request` (`tasks`, indexed by request
id), the keys of `_pending_auth` and the users' entries; the queues. `accepts`
and `hurried` are history: how often the CS has accepted a user, and whether a
timer ever fired while something else could still have run.

| Action | Code |
|---|---|
| `Authenticate`, `HostReceive`, `HostResume`, `HostTimeout` | `Host.authenticate` up to its wait, the frame that completes the future, the rest of the call, the timer |
| `APRequest` | `handle_auth_request` up to the wait, or its fast path through the neighbour cache |
| `APResponse` | `_dispatch_control_signal`: `popitem` takes the entry inserted last |
| `APTimer`, `APResume` | `wait_for`; the rest of `handle_auth_request`, with `Finish` for the table entry and the broadcast of the answer |
| `CSHandleAuth` | `ControlServer._handle_auth` |
| `DeliverCopy` | a second CR relaying the CS's answer |

`Loops` says what a suspended handler holds up: everything (one interface, as every
simulated AP has), further requests (two interfaces), or nothing (a task per frame).

### RIDLookup

State: the table, and the running search of `rid_lookup`, one loop iteration per
step, with its best row and best key so far. `RouteAdd` and `RouteRemove` are
`rid_route_add` and `rid_route_remove`. `Shifted(a)[k]` is `a >> k`.
`CommonPrefixBits` is the width less the bit length of an XOR, that is less the least
shift that makes the two equal; `Contains` is the other prefix test of the code, by one
shift. Coordinates have `Width` bits, 32 in the code.

### Media, Links

`Media` computes from the `connect_switch` and `connect_link` calls, in their order,
which port an interface has, what the MAC table of a switch holds, and so the queues
a frame goes to (`Targets`): a second call for an interface overwrites its port but
not the first switch's tables, a switch wins over a link, `_can_forward` lets through
what shares a group.

`Links` adds the queues and the coroutines that use them: a task is the receive loop
of an interface or one of a node's own.

| Action | Code |
|---|---|
| `Send` | `send_frame` up to the first full queue; a lossy link forgets any of the targets, a slow one sleeps before each |
| `Resume` | the put goes on when the queue has room |
| `Receive`, `Return` | `recv_frame` and the call of `on_frame` in `_recv_loop`; the handler's end, also by an exception. After its timeout of 0.5 s `recv_frame` only comes round again |
| `Cancel` | the `CancelledError` that ends a node's tasks where they stand, except loops it has missed (`Deaf`) |

`sent` and `log`, what each task has sent and been given, are history. `Deaf` is about
`asyncio.wait_for`: before Python 3.12 (the documents name 3.10) a cancellation that
finds it with its frame already there is forgotten, and the loop hands the frame to the
handler. `Cancel(T, K)` lets it miss any set `K` of such loops; such a loop ends when its
handler returns, as `_running` is False by then.

### Runtime

The life of a simulation, with the traffic of `Links` in it. The main coroutine is one
of four drivers: `run` is `scripts/run.py`, and `run_scenario` of the orchestrator when
it is given a duration; `forever` is `run.py` without one; `awaited` is
`run_scenario` without one, which stops after the scenario; `script` is `scripts/simulation.py`, `scripts/real_simulation.py` and
`scenarios/run_demo.py`, whose `finally` calls a `stop_all` of their own and which set
no signal handler.

| Action | Code |
|---|---|
| `Begin`, `CleanUp`, `OnStop` | `BaseNode.run`: its first step; the `finally` block, which cancels the internal tasks; `on_stop` after their gather |
| `Started` | `Orchestrator.start`, which waits 0.1 s for the nodes |
| `ScenarioReturns`, `Expire` | `run`: the scenario is over and the duration begins; the duration is over and `Orchestrator.stop` is called |
| `ScenarioAwaited`, `ScenarioCancelled` | `awaited`: the scenario returns, and `stop` is called; a signal's `stop` has cancelled it, and a second `stop` returns at once |
| `ScenarioRaises` | an exception of the scenario leaves both of these without a `stop` |
| `ScriptEnds`, `ScriptInterrupt`, `ScriptUnwinds` | `script`: `stop_all`, however the scenario ends; Ctrl-C in the scenario or in `stop_all`; the `finally` of a main task that was cancelled with the nodes |
| `EarlyInterrupt`, `Signal` | Ctrl-C before the handlers are set, and a signal after, which starts a task that runs `stop()` |
| `Gathered`, `Unwind`, `Exit` | the gather of the nodes; the return of the main coroutine; `asyncio.run` cancels what is left |
| `SendOut`, `GoOn`, `Hear`, `HandlerEnds` | the actions of `Links`, while the node works |

`Cancelled` says what a cancellation of a node's task does at each point of `run()`:
one that is still undelivered absorbs the next, and one that finds the node in its
clean-up breaks the gather off, so that `on_stop` never runs (`"torn"`). A Ctrl-C in a
script's scenario has both its forms: from Python 3.11 on it cancels the main task
alone, before that it leaves the loop and `asyncio.run` cancels the nodes and the main
task at once. A further Ctrl-C in the `stop_all` that follows then is not modelled.

### Wire, Deployments, Journey

`Wire` has the formats as far as lengths, TTLs and types go: an image carries its
length field and its real length, and packing a length above 16 bits raises.
`Deployments` is nine networks as data, each with the requests its demos or tests make:

| Network | Source |
|---|---|
| `simulation` | `scripts/simulation.py`, before its mobility demo |
| `run_demo`, `run_demo_moved` | `scenarios/run_demo.py`, before and after its mobility demo |
| `topology`, `topology_moved` | what `Topology.from_yaml` makes of `config/topology.yaml`, likewise |
| `forwarding`, `forwarding_local` | `scripts/test_cr_forwarding.py`, and the script of that name in the root directory |
| `handover`, `handover_moved` | `scripts/test_mobility.py`, before and after the handover |

There is no network after the mobility demo of `simulation.py`: `demo_mobility` looks up
an entry of CR-2 that nobody has made and ends with a `KeyError` in line 308. `Journey`
runs one of the networks: every node that hears a frame handles it.

| Action | Code |
|---|---|
| `Request` | `http_get`, `ftp_download`, `video_stream` of a host; probes of the TS |
| `RouterTurn` with `CRAid`, `CRRid`, `Decapsulate`, `Redirect`, `ForwardControl` | `CoreRouter.on_frame` with all its branches |
| `APTurn`, `APProxies`, `APIgnores`, `APTimeout` | `AccessPoint.on_frame`, and `handle_auth_request` around its wait |
| `CSTurn`, `EndTurn` | the CS's `_handle_auth`, whose answer goes to the source RID of the request; `on_frame` of hosts and the TS |
| `Authenticate`, `HostTimeout`, `Override` | a login, its timer, and the `_authenticated = True` of the tests; done to the hosts of every network, as no login succeeds in any of them |

`NextHopsIn` and `InSpacesIn` tabulate, per deployment, what `RIDLookup`'s search returns
for its routes with 32-bit coordinates; `Heard` is what `Media` says of its wiring. So
the routing and the wiring in `Journey` are those of the other modules.

### Probes, ProbeDevice

`Probes` is the test server. A flow is a purpose and a peer.

| Action | Code |
|---|---|
| `Start` | a call of a test or of `run_all_tests` |
| `Begin`, `SendPacket`, `Count`, `Report` | a test, split at its awaits: the flow is looked up (the latency test resets it), a packet is handed to `send_frame`, counted when that returns, and the result is returned |
| `OnFrame` | `on_frame`, with probes, bandwidth data, damaged and undecodable payloads |
| `CancelAll` | the end of `asyncio.run` for the coroutines that are left |
| `StartMonitor`, `StopMonitor` | `start_monitor`, `stop_monitor` |

What the network returns is external: any frame may arrive at any moment.

`ProbeDevice` puts the test server into the processes that run one. As a `node` of a
simulation its receive loop calls `on_frame` itself and callers start what they like.
Under `scripts/real_deploy.py` (`deploy`) and `scripts/real_device.py` (`tap`) it is
`run_device` that opens the interface, and a callback of the loop reads it and makes
one task per frame.

| Action | Code |
|---|---|
| `Open`, `Close`, `Exit` | the interface is opened, or is not, after up to five attempts; the main loop ends, by `_running` or Ctrl-C, and takes the readers away; `asyncio.run` cancels what is left |
| `Read`, `Handle` | the reader callback; the oldest task of a frame |
| `Hear` | `_recv_loop` of a node, which records a frame once more than `on_frame` does |
| `Ready`, `TapReady`, `TapStop`, `AutoStop` | `_ts_ready` of the two scripts, and the 15 s limit of `real_device.py` |
| `Call`, `RunTest`, `Monitoring` | the actions of `Probes`, while the process lives |

`_nic_send` and `_tap_send` return without suspending, so that in these two processes
nothing comes between a send and its count (`Settled`). Tasks that exist when the
readers are taken away still get the loop's last turns, hence `Alive` includes
`"closed"`.

## 3. The runs

| Run | Instance | What it shows |
|---|---|---|
| `mobility` | 2 CRs, 3 APs, 1 user, 2 moves, 1 mark, 1 alert, 1 loss, CR-1 relays to CR-2 | types; `Converged`, `BindingAgrees`, `LocationsVisited`; `RegistryRefined`; `EventuallyConverged` under fairness |
| `data` | the routes, spaces and neighbours of `cr1.yaml` and `cr2.yaml`, 3 APs, 1 user, 1 packet with TTLs of 3, 2 moves, 2 marks, 1 alert, no loss | types; `PlacedUsersReachable`, `ServingAPHasUser`; `EveryPacketEnds` |
| `auth_three` | 3 hosts, one of them cached, 1 call each, right and wrong passwords | types; `PendingExact`, `GrantsBacked`, `OnlyVerifiedUsers`, `ValidCredentialsGranted` |
| `auth_fair` | 2 hosts, one loop at the AP, doubled answers | `EverythingEnds` |
| `lookup` | 2 bits, 3 coordinates, 2 spaces, 2 routes | `LookupCorrect`, `MostSpecificWins`, `PrefixTestIsContains` |
| `runtime` | three drivers; a router and an AP on an isolated switch, their loops sending to each other, and on a lossy and slow link; queues of 1 frame, 6 sends, 1 signal | types; `Isolated`, `Ordered`, `NoFrameLost`, `StoppedIsQuiet`, `CleanWithoutSignal`; `ShutdownEnds`, `SendsEnd` |
| `probes` | three processes; 2 coroutines, 1 peer, 2 targets, 2 packets per part, 2 tests or test series, 2 frames | types; `SendsCounted`, `TalliesAgree`; `CountersOnlyGrow` |
| `journey` | the nine networks, payloads of 1, 65495 and 65496 bytes, TTL 3 | types; `OneCopy`, `Intact`, `RequestsArrive`; `JourneyEnds` |

Bounds, and why they are enough.

* `mobility`. A reordering that matters needs two notifications and a router that gets
  both twice, so two moves and one relay suffice; with the alert there are three. One
  relay, not two, gives one router that is fed by a relay and one that is not; the
  proofs cover any set of relays. Three APs allow moves within a CR and between CRs.
  Users do not share state except the queues, so one is enough for what is stated per
  user.
* `data`. One packet suffices: packets meet only through the alerts they raise,
  and one alert changes the tables under its own packet. A packet that goes round
  needs both routers to have its user MOVED_AWAY, that is two moves and two marks.
  A path between two routers takes each of the two TTLs down once, for which 2 is
  enough; 3 lets a frame go one hop astray and still not expire. The code has 64.
  In the run the APs have RIDs of their own and no router has local rows.
* `auth_*`. Exchanges of answers need two requests; a third host in the cache shows
  the fast path between them. Symmetry is used for the runs with invariants only.
* `lookup`. Two routes are enough for every comparison; ties of three are covered by
  the proofs. Two bits give prefix lengths below, at and above each other, and 0.
* `runtime`. The queues hold one frame, so the second one for a port suspends its
  sender. `MCUses` has the circle of the code: the AP's loop sends into the router's port
  (`access_point.py:302`) and the router's loop into the AP's (`core_router.py:399-408`).
  Two broadcasts of the AP's own task, three frames of the router's loop and one of the
  AP's are enough for both loops to stand on full queues at once (TLC reaches that
  state). The slow link suspends a sender that has room. `LinksTypeOK`, with
  `Len(queue) <= Capacity`, is part of the types. The interface wired twice is CR-1's
  interface 1 of `config/topology.yaml`. `forever` has a run of its own (below).
  One signal meets each place of each driver and a clean-up under way; a second one
  finds `stop()` called, or the `stop_all` that the end of the scenario also leads to.
  The invariants of this run and of `probes` are proved for every bound.
* `probes`. Two packets let another coroutine come between them; two tests meet in the
  same flow; the test series has one test begin while another part is sending, and
  the plan of `real_deploy.py` has two targets. Two frames reach `Enough`, 2 here
  against 4 in `real_device.py`, and let one wait behind another when the process ends.
  The coroutines are interchangeable, and the properties name none.
* `journey`. Two requests and one login meet in the network of `simulation.py`, where
  frames are addressed; where they are broadcast one packet already has some ten
  thousand interleavings of its copies, and one is enough because packets share no state
  there. In `topology` a login is one that nobody hears. Where frames are addressed,
  `OneCopy` is proved for any number of requests and logins. 65495 is the largest payload
  that fits a RID packet (65535 less the AID header), 65496 the first that does not. The
  demos and tests make their calls in sequence (`ScriptRuns`). TTL 3 against 64 in the
  code: the longest way takes two hops of either header, and copies that circulate die
  out sooner.

Deadlock is not checked where the environment's budget (moves, calls, requests) is
finite, for the system then rightly comes to rest. `Lookup.cfg` checks it.

Fairness is weak, and states less than that the event loop runs every callback that is
due. In `AuthProxy` each handler and each timer has its turn. In `MobilityControl` and
`Runtime` one condition covers all of it: as long as something is due, something of it
runs (`HandleControl`; `MainStep`, `RunStep`, `TaskStep`), which is enough since moves,
alerts and sends are bounded. In `Runtime` that includes the end of a sleep, not the end
of a scenario, and not a new send. In `DataPlane` each packet is handled on its way, and
the control frames as before; in `Journey` some loop that has a frame takes one, and
timers end. Users, operators, signals, losses and the data of `Probes` owe nothing.

What the deeper properties say:

* `PlacedUsersReachable` is the promise of the whole system: a packet for a user that
  is where the control plane says comes out there. Its hypothesis (`Placed`) leaves
  out what the code cannot do: the time between a move and the last notification,
  routers that still have the user ONLINE after it left, and hosts behind an AP the
  user has left, which keeps its entry for ever.
* `EveryPacketEnds` holds although a redirect renews the TTL and two routers can
  redirect a packet to each other: they do so only while notifications are under way,
  because a router the registry names becomes ONLINE when it hears of it.
* `SendsEnd` says that every suspended send goes on or is cancelled unless it is
  `Stuck`: every loop that still works and could make room stands, in a set with it, on
  a queue that is full in the same way. The AP and the router of the run do get into
  such a circle, and the code has no way out of it but the shutdown. What the property
  excludes is any other standstill: a put not woken when room was made, a loop that
  died over an exception or a timeout.
* `ShutdownEnds` has two parts. Once `stop()` has begun or the main coroutine has left
  its work (`Leaving`), every node ends; and a main coroutine that is leaving exits. A
  `forever` driver never leaves (next section). The one exception is `HeldUp`: a handler
  the cancellation has missed that then sends into a full queue nobody reads any more.
  Then the gather of `run()` waits for ever, on the Python versions that have `Deaf`.
* `RequestsArrive` speaks of the pairs for which a demo's tables are meant to have a way
  (`Served`). In `run_demo` those are fewer than its requests, and in `topology.yaml`
  none: `_create_nodes` gives the routers no neighbours and the hosts are not wired.

### Disagreements with comments and scripts

Each is a run in which TLC finds the property violated.

* `mobility_alert_ap` — a notification that follows an alert has no `ap_rid`, and
  the router it names binds the user to AID(0) (`core_router.py:428`). Data for
  the user is then dropped. `signaling.py:328` says that the field is there to
  find the AP.
* `auth_blocked` — an AP with one interface awaits an answer that only the loop it
  blocks could read (`access_point.py:155`); `access_point.py:129` calls the wait
  asynchronous.
* `auth_crosstalk` — the answer to one request completes another
  (`access_point.py:325`), though the table is declared by request id.
* `runtime_ctrl_c` — `scripts/run.py` without a duration does not end on Ctrl-C. Line 35
  says "0 = run until Ctrl+C", line 99 "Wait forever (user hits Ctrl+C)". The handler
  that `Orchestrator.start` sets (`orchestrator.py:55`) only stops the nodes; no
  `KeyboardInterrupt` is raised, the main coroutine sleeps on, and every further signal
  finds `_running` False (`orchestrator.py:64`).

In spite of the third, `ValidCredentialsGranted` holds while all passwords are
right and no timer is early, and `GrantsBacked` always: answers are exchanged,
never multiplied, unless the network doubles them. `OnlyVerifiedUsers` says how much
is left of authentication: a user who is let through has a handler of its own that
ended with an acceptance of somebody.

No authentication succeeds in `scripts/simulation.py` either. An AP's request has space 0
(`access_point.py:147`), the routers have rows in space 100 only (`simulation.py:108`),
so `rid_lookup` finds none (`rid_routing.py:40`) and CR-2 itself drops the request
(`core_router.py:251-263`); running the script shows the same timeouts. `Journey` has the
drop. It is no disagreement, since no comment promises this network a way to the CS.

Three more behaviours that comments deny are in the model without a run of their own:
as configured in `ap1.yaml` and `cr1.yaml`, AP-1 has the RID of CR-1, and branch 0 hands
CR-1's own notifications to the AP (`core_router.py:236`); the CR a user leaves does not
mark it MOVED_AWAY (`core_router.py:425`), which `scripts/test_mobility.py:8` says it
does; and an alert is written over the registry unconditionally
(`control_server.py:180`) and can send it back to an earlier place.

## 4. The theorems

All are for every value of the constants that meets the named assumptions, and
for every bound.

* `MobilityControlProofs!TypeCorrect`: `TypeOK`. The point of interest is that a
  user status names an AP or AID(0), which needs the types of `MatchAP` and of
  the alerts built from cached rows.
* `MobilityControlProofs!ConvergedAlways` and `BindingAgreesAlways`. Neither is
  inductive: a router nothing is queued for today may have got an old copy last.
  The invariant is `LastWord`: in every channel that leads to a listening router,
  the last notification about a user is the last one the CS sent about it
  (`ChannelEnds`), and a router with empty channels agrees with it (`Agrees`). A
  channel is a port's queue followed by what has been relayed from it; taking
  from its head keeps its end, publishing renews the end of all of them at once,
  and whichever channel drains last leaves the CS's last word in the tables. It
  rests on `RegistryMatches` (the registry is what `last` says), on
  `CoreOnlyRelays` and on `TypeOK`. It also says why the code converges although
  notifications have no version: each port hears all of them in order.
* `MobilityControlProofs!LocationsVisitedAlways` and `ServingAPHasUserAlways`. Both
  follow from what the queues hold (`QueuesTrue`): a registration names an AP that
  has the user, an alert and a notification a router that has had it (for users no
  router has a local row for), and a notification does not pair the RID of an AP
  with that AP's router unless the AP has the user. The last part uses that the APs
  of one CR have distinct RIDs and that no AP has RID (0, 0), which is what
  notifications that stem from an alert carry. All of it is monotone in the
  users the APs have.
* `MobilityControlProofs!RegistryImplemented`: `MobilityControl` implements
  `Registry`, where no router has a local row for a user. An activation is an `Attach`,
  a handler of the CS a `Register`, a notification heard a `Learn`, everything else a
  stutter. That the place written is one the user has been at is the invariant above.
* `DataPlaneProofs!DataTypeCorrect`, by the invariant that a packet under way is at a
  node and for a user (`InNetwork`). `ConvergedWhileForwarding` carries `Converged` and
  `BindingAgrees` over to a control plane whose alerts are raised by packets; the lemma
  for it is `ControlCarriesOver`.
* `DataPlaneProofs!PlacedUsersReachableAlways`, where `RoutesLead`: the routes for the RID
  of each router that has an AP lead to it from every other router, through none that
  has the RID in a space of its own, and the default TTL is above the length of the
  longest of these ways. TLC evaluates that for the deployed routes
  (`DeployedRoutesLead` of `MCDataPlane`), where `TTL` is 3; of the code's 64 more holds.
  The property speaks of the end of a way, so the invariant (`TrackInv`) says where a
  fresh packet may be meanwhile (`OnTrack`): at an AP that passes it up, at a router
  that has yet to wrap it, or wrapped with more hops left than routers ahead. That
  the router which unwraps it delivers it there, instead of redirecting it, takes three
  facts about the control plane: the caches agree with the CS's last word
  (`ConvergenceInv`), a notification that names an AP maps the user to that AP's router
  (`LastNamesHome`), and the AP a user attached to last has it (`AttachedServed`).
* `AuthProxyProofs!TypeCorrect` and `PendingExactAlways`. With `TypeOK`,
  `PendingExact` is inductive: request ids are list positions, so the id of a new
  request is in no other entry.
* `AuthProxyProofs!OnlyVerifiedUsersAlways`. Inductive together with `Genuine`: every
  answer that says yes, in a queue of the AP, on its way as a copy or at a handler,
  names a user the CS has accepted. Acceptances are never taken back, and a handler
  that has finished keeps its result.
* `AuthProxyProofs!GrantsBackedAlways`. The property counts what handlers have been
  given and forgets what is under way, so it is not inductive. `Backed` counts both:
  the handlers given a yes for a user and the yes answers for it that wait at the AP
  are at most as many as its acceptances. An answer that is taken lowers the second
  number and raises the first by at most one; a timer lowers the first. What the
  steps of the queue do to the numbers (`AtAppend`, `AtTail`) is proved from the
  library's facts about injections of finite sets.
* `AuthProxyProofs!ValidCredentialsGrantedAlways`, where `Loops # "shared"`: with one
  shared loop it is false, which is what `auth_blocked` shows. The property looks at
  finished handlers only. `Awaited` says why they finish well: while no timer was
  early no future is cancelled, and at least as many requests and answers are under
  way as `_pending_auth` has entries, since an answer is used up with an entry and the
  CS answers every request. So a timer that fires when nothing else can run finds no
  entry, and by `PendingExact` no handler that waits. `Unrefused` follows the right
  passwords from the requests to the answers and the futures.
* `RIDLookupProofs!PrefixTestAlways`: `rid_lookup` and `RIDSpace.contains` test prefixes
  differently and agree. Two coordinates that a shift makes equal stay equal under
  longer ones (`StayEqual`), so the least such shift is at most `Width - bits` exactly
  when that one is; that there is one is what "`Width` bits" means (`ConfigTypes`).
* `RIDLookupProofs!TypeCorrect`, `LookupCorrectAlways`, `MostSpecificAlways`. The
  invariant `LoopInv` says that the best row so far is the oldest of the best
  among the rows seen. The order of keys is lexicographic; that a narrower route
  has the greater key needs the monotonicity of the product (`ProductMonotone`)
  and, where it is 0, the two further rules.
* `LinksProofs!LinksTypes`, `LinksIsolated`, `LinksOrdered` and `LinksLoseNothing`, for any
  nodes, wiring, groups and queue lengths. `Ordered` is not inductive: it says nothing
  of a suspended send, whose frame arrives behind whatever the queue has received
  meanwhile. `LinksInv` adds where such a send stands: its frame is the newest of its
  task (`Pending`), all that task has put at the same ports is earlier (`Ahead`), and
  what waits or has been read was sent to that port (`Waiting`, `Heard`). `NothingLost`
  keeps account of where every frame of a lossless medium is. `Targets` selects from
  sequences with a recursive function (`Among`); what the proofs need of it, that it has a
  value and keeps elements and their distinctness, is proved from the well-foundedness
  of `<`.
* `RuntimeProofs!CleanWithoutSignalAlways` and `StoppedIsQuietAlways`, for each of the
  drivers. Neither is inductive: whether a cancellation tears a clean-up depends on
  where the main coroutine is, and whether a node that stops is quiet on what its
  clean-up has cancelled. `InStep` says, as long as there has been no signal, which
  states of nodes go with which place of the main coroutine: a driver that stops the
  nodes and then unwinds cancels twice, and in between every node has stopped; one
  that leaves by an exception cancels once. `QuietFrom` says that a node cleaning,
  stopped or torn has no live task, handler or pending send. That every node has an
  interface (`RuntimeAssumption`) makes the clean-up a cancellation.
* `RuntimeProofs!RuntimeTypes`, `RuntimeIsolated`, `RuntimeOrdered` and
  `RuntimeLosesNothing` carry the results about the media over to a network whose nodes
  start, stop and are interrupted, with the lemma `LinksImplemented`: a clean-up is a
  `Cancel` of the tasks of one node, and no driver touches a queue.
* `ProbesProofs!ProbesTypes`, `CountersOnlyGrowAlways`, `SendsCountedAlways` and
  `TalliesAgreeAlways`. The last two are inductive with `TypeOK`, which says that a part
  that is sending has its flow: a later test of the same purpose finds it and does not
  start at 0. Their sums are sizes of sets of tokens (`Total`), one token for each packet
  counted, so that a step that counts one packet adds one token; what moving one
  coroutine on, or finishing its part, does to them is proved from the library's facts
  about finite sets.
  `DeviceTypes`, `DeviceSendsCounted`, `DeviceTalliesAgree` and `DeviceCountersOnlyGrow`
  say the same of every process, with the lemma `ProbesCarryOver`; what it needs is
  that `frames` holds frames.

* `JourneyProofs!JourneyTypeCorrect` and `IntactAlways`, for all payload sizes and any
  number of requests and logins. `Intact` speaks of what has come out; what is inductive
  (`JourneyInv`) is that every image in a queue is what `serialize` makes of a packet
  that was sent, of such an image in a RID packet, or of a signal in one (`Image`), with a
  length that packing has accepted. `deserialize` returns that packet
  (`AidRoundTrip`, `RidRoundTrip`) because the length field and the real length of an
  image agree, so every branch of every handler sends such images again; one that does
  not fit the field is not sent at all.
* `JourneyProofs!OneCopyAlways`, likewise for any number of requests and logins. Its
  hypothesis `Unicast` says of a deployment what an address list can be read for: each
  configured address is heard by its own interface only, which is a node of the right
  kind's, a user's leads to the user, and a router has one route neighbour. TLC
  evaluates it for the network of `simulation.py` (`AddressedUnicast` in
  `MCJourney`). The inductive invariant `CopyInv` says that no two images in the queues
  carry the same packet, that none does once it has come out, and that an image at a host
  or the test server is for that node. It is kept because every handler sends all its
  frames to one interface (`Goes`), and among them only the packet it took; a reply of
  the CS carries none (`ReplyOnly`). The tables of the
  APs grow with logins, so the invariant also follows requests: an AP waits only for a
  host of its own (`PendingHome`), since no router passes a request to an AP (`Onward`).
  `JourneyInv` is used throughout: a handler forwards what it has parsed.

Only model-checked: `RequestsArrive`, a fact about the tables of `Deployments` rather
than a consequence of anything more general, and the liveness properties
`EventuallyConverged`, `EveryPacketEnds`, `EverythingEnds`, `ShutdownEnds`, `SendsEnd`
and `JourneyEnds`. Liveness under fairness, ENABLED, the library's induction
theorems and RECURSIVE operators are beyond the provers; no module here declares a
RECURSIVE operator. Recursive functions (`Shifted`, `Among`) are reasoned about from
the well-foundedness of `<`, by least counterexample.

## 5. What is not modelled

* Bytes. Payloads, the JSON of signals and the texts of probes are model values;
  `tests/test_packets.py` covers the round trips.
* The neighbour cache of the AP is a constant: no running node sends an
  advertisement to an AP, so nothing fills it. `MappingQueryRequest` has no sender,
  `cr_remove_mapping` no caller, and no handler reads `AIDRoutingTable`.
* What a host believes beyond its own call. It takes any `AuthResponse` it hears for
  its own, and any AID frame for one addressed to it (`Journey` counts both).
* What a server would answer to a request: `services/` is empty and
  `send_http_response` has no caller.
* `demo_mobility` of `scripts/simulation.py`, which ends with a `KeyError` in its line 308.
* `detach` and reconfiguration of a running switch, which nothing calls; the MTU cut,
  `bandwidth_mbps` (nothing reads it) and the metrics of links; `on_tick`, for which no
  node sets an interval.
* `scripts/real_deploy.py` end to end. Its tables are `data`'s and its task per frame is
  `AuthProxy`'s, but `build_ap` asks for two interfaces where `ap1.yaml` and `ap2.yaml`
  list one, so an AP does not start.
* `scripts/real_device.py` in its other roles, `real_orchestrator.py`, and the veth mirrors
  of `real_simulation.py`: they copy frames between TAP devices or veth pairs and the
  simulated switches; the logic behind is that of `simulation.py`.
* Sockets and TAP devices beyond what `ProbeDevice` opens and reads (losses there are
  `DropNewest`), the monitor's output, logging, times and rates, scripts for GNS3 and
  disk images, and `verify*.py`, which assert facts about the code and are no part of
  the network.

## 6. What could come next

1. `AuthProxy` composed with `MobilityControl`: what follows a success in a task of
   its own, and what is left when it fails half-way.
2. A run of `data` with the local rows of `cr1.yaml`, which hide remote ones and make
   alerts name RID(0, 0), and with a chain of three routers.
3. How many frames at once it takes, for a given capacity, to bring two loops that send
   to each other to a standstill.
