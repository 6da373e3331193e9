--------------------------- MODULE MemoryPromise ---------------------------
(***************************************************************************)
(* What `remember` promises the owner of a memory, with nothing of how the *)
(* relayer keeps it.  A memory only moves forward: it is accepted, then    *)
(* its blob belongs to the owner on chain (durable), then a search finds   *)
(* it (recallable).  What the status endpoint reports is a separate, and   *)
(* revisable, statement: it may say "done" only of a recallable memory.    *)
(***************************************************************************)
CONSTANT Jobs

VARIABLES
  memory,   \* memory[j]: how far the memory of job j has come
  report    \* report[j]: what the status endpoint says of it

vars == <<memory, report>>

Memories == {"absent", "accepted", "durable", "recallable"}
Reports  == {"none", "working", "done", "failed"}

TypeOK ==
  /\ memory \in [Jobs -> Memories]
  /\ report \in [Jobs -> Reports]

Init ==
  /\ memory = [j \in Jobs |-> "absent"]
  /\ report = [j \in Jobs |-> "none"]

Advance(j, from, to) ==
  /\ memory[j] = from
  /\ memory' = [memory EXCEPT ![j] = to]

Accept(j) ==
  /\ Advance(j, "absent", "accepted")
  /\ report' = [report EXCEPT ![j] = "working"]

MakeDurable(j) ==
  /\ Advance(j, "accepted", "durable")
  /\ UNCHANGED report

Index(j) ==
  /\ Advance(j, "durable", "recallable")
  /\ UNCHANGED report

(* The one obligation on reports: "done" is said of recallable memories.   *)
Report(j, r) ==
  /\ memory[j] # "absent"
  /\ r = "done" => memory[j] = "recallable"
  /\ report' = [report EXCEPT ![j] = r]
  /\ UNCHANGED memory

Next ==
  \E j \in Jobs :
    \/ Accept(j)
    \/ MakeDurable(j)
    \/ Index(j)
    \/ \E r \in Reports \ {"none"} : Report(j, r)

Spec == Init /\ [][Next]_vars
=============================================================================
