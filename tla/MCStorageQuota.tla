--------------------------- MODULE MCStorageQuota ---------------------------
EXTENDS StorageQuota, TLC

CONSTANTS j1, j2, j3, m1, b1

(* Two blobs fit, three do not; one alone nearly fills the quota.          *)
MCSize == j1 :> 2 @@ j2 :> 3 @@ j3 :> 1 @@ m1 :> 2 @@ b1 :> 1
=============================================================================
