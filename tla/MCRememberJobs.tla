--------------------------- MODULE MCRememberJobs ---------------------------
(* RememberJobs with a model value for its job.                            *)
EXTENDS RememberJobs
CONSTANT j1
=============================================================================
