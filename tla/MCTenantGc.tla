----------------------------- MODULE MCTenantGc -----------------------------
(* Small instances of TenantGc for TLC. *)
EXTENDS TenantGc, TLC

CONSTANTS s1, s2, s3, e1, e2, w1, w2

\* Two services share an environment, one has its own.
Shared == s1 :> e1 @@ s2 :> e1 @@ s3 :> e2

=============================================================================
