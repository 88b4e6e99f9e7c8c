---------------------------- MODULE MCVmLifecycle ----------------------------
(* Two callers and two pids of the host: a guest's, and another for the next *)
(* guest while the first is still ending or has been taken by a stranger.     *)
EXTENDS VmLifecycle, TLC

CONSTANTS rv, web, p1, p2

Symmetry == Permutations(Callers) \cup Permutations(Pids)
===============================================================================
