---------------------------- MODULE MCLegacyJobs ----------------------------
EXTENDS LegacyJobs, TLC

CONSTANTS s1, s2, t1, t2, i1, i2

MCBatch == 1 :> i1 @@ 2 :> i2

MCWidth == [q \in Names |-> IF q = "wallet_jobs" THEN 2 ELSE 1]

(* Old jobs of one kind at a time, and two kinds together.                 *)
MCBacklogs == {{Bulk}, {s1, t1}, {s2, t2}}
(* Bound: wallet jobs that executions of the bulk job push, together with  *)
(* those of them that are executed more than once.                         *)
Few ==
  Cardinality({c \in Copies : queue[c] # "none"})
    + Cardinality({c \in Copies : attempts[c] > 1}) <= IF crashes = 0 THEN 3 ELSE 1
=============================================================================
