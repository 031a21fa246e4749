---------------------------- MODULE MCLifecycle ----------------------------
(* Instances of Lifecycle, and of the AuthGuard in it, for TLC.            *)
EXTENDS Lifecycle

CONSTANTS c1, c2, c3, ip1, ip2

(* Two transports share an address, the third has its own.                 *)
MCClientIP == [c \in Conns |-> IF c = c3 THEN ip2 ELSE ip1]
=============================================================================
