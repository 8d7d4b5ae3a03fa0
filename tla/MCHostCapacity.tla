---------------------------- MODULE MCHostCapacity ----------------------------
(***************************************************************************)
(* Instances of HostCapacity: a broker inside the daemon (with a cgroup),  *)
(* a remote one without and a remote one with a cgroup, for the same (run, *)
(* cell) pair, or the first two for pairs of their own, and a scheduler    *)
(* node with a pair of its own.                                            *)
(***************************************************************************)
EXTENDS HostCapacity, TLC

CONSTANTS b1, b2, b3, s1, x, y, z

SharedKey == b1 :> x @@ b2 :> x @@ b3 :> x @@ s1 :> y

OwnKey == b1 :> x @@ b2 :> z @@ s1 :> y
=============================================================================
