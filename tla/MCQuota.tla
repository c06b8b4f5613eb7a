------------------------------ MODULE MCQuota ------------------------------
(* Three requests of one key, one of another, two processes, two minutes; the key *)
(* file lowered the first key's limit between two authentications, and the table  *)
(* has no room for a second key.                                                  *)
EXTENDS Quota, TLC

CONSTANTS r1, r2, r3, r4

MCKeyOf == (r1 :> "a") @@ (r2 :> "a") @@ (r3 :> "a") @@ (r4 :> "b")
MCLimitOf == (r1 :> 2) @@ (r2 :> 1) @@ (r3 :> 1) @@ (r4 :> 1)
MCProcessOf == (r1 :> "p") @@ (r2 :> "q") @@ (r3 :> "q") @@ (r4 :> "p")
=============================================================================
