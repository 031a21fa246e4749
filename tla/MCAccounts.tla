----------------------------- MODULE MCAccounts -----------------------------
(* Instances of Accounts for TLC: two sessions of one key and one of       *)
(* another.                                                                *)
EXTENDS Accounts

LOCAL INSTANCE TLC

CONSTANTS p1, p2, p3, k1, k2
MCKey == (p1 :> k1) @@ (p2 :> k1) @@ (p3 :> k2)
=============================================================================
