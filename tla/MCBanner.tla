------------------------------ MODULE MCBanner ------------------------------
(* Instances of Banner for TLC.                                            *)
EXTENDS Banner
=============================================================================
