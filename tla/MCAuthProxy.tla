----------------------------- MODULE MCAuthProxy -----------------------------
(***************************************************************************)
(* Small access networks of AuthProxy for TLC.                             *)
(***************************************************************************)
EXTENDS AuthProxy, TLC

\* Sound for the runs that check invariants only.
HostSymmetry == Permutations(Host \ Cached)
=============================================================================
