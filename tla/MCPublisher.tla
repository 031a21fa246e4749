---------------------------- MODULE MCPublisher -----------------------------
(* Instances of Publisher for TLC.  CloseReturns is a liveness property,   *)
(* so no symmetry is used.                                                 *)
EXTENDS Publisher
=============================================================================
