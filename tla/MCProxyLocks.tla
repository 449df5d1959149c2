----------------------------- MODULE MCProxyLocks -----------------------------
(***************************************************************************)
(* Instances of ProxyLocks for TLC.                                        *)
(***************************************************************************)
EXTENDS ProxyLocks, TLC

AnyThread == Permutations(Threads)
=============================================================================
