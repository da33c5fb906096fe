------------------------------ MODULE MCProbes -------------------------------
(***************************************************************************)
(* A test server that probes one user and two routers for TLC; the plans   *)
(* are the tests called alone and run_all_tests.                           *)
(***************************************************************************)
EXTENDS ProbeDevice, TLC

CONSTANTS p1, r1, r2

Latency == <<"latency", p1>>
Bandwidth == <<"bandwidth", p1>>
Forwarding(r) == <<"forwarding", r>>

\* real_deploy.py's _ts_ready tests two routers.
MCTargetTest == <<Forwarding(r1), Forwarding(r2)>>

MCPlans == {<<Latency>>, <<Bandwidth>>, MCTargetTest,
            <<Forwarding(r1), Latency, Bandwidth>>}

\* Sound: the invariants and the action property name no coroutine.
RunnerSymmetry == Permutations(Runner)
=============================================================================
