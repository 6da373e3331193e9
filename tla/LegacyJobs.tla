----------------------------- MODULE LegacyJobs -----------------------------
(***************************************************************************)
(* The jobs that earlier versions left in the Apalis tables and that this  *)
(* version still executes (jobs.rs, main.rs, migration 008): RememberJobs, *)
(* wallet jobs in per-wallet queues, transfers of certified blobs, and     *)
(* bulk jobs, whose handler pushes a wallet job for each item one after    *)
(* the other.  A bulk job that is executed again pushes its items again,   *)
(* so that several wallet jobs work on one remember_jobs row at a time.    *)
(***************************************************************************)
EXTENDS Integers, FiniteSets

CONSTANTS
  Singles,      \* remember_jobs rows that one old job carries
  RememberRows, \* those of Singles whose job is a RememberJob
  Transfers,    \* certified blobs of the server wallet that wait for their owner
  MetaBlobs,    \* those of Transfers whose job is a MetaTransferJob
  Items,        \* the rows of a BulkRememberJob
  Batch,        \* Batch[n]: its n-th item
  Bulk,         \* the BulkRememberJob
  Backlogs,     \* the sets of old jobs that a behaviour may begin with
  Losing,       \* rows whose UPDATEs may fail unnoticed (`let _ = ...`)
  Width,        \* Width[q]: jobs of queue q that its monitor runs at a time
  MaxAttempts,  \* executions Apalis grants a job that keeps failing
  MaxCrashes    \* bound: crashes in a behaviour

ASSUME KindsAssumption ==
  /\ RememberRows \subseteq Singles
  /\ MetaBlobs \subseteq Transfers
  /\ Singles \cap Items = {}
  /\ Transfers \cap (Singles \cup Items) = {}
  /\ Bulk \notin Singles \cup Items \cup Transfers
  /\ Backlogs \subseteq SUBSET (Singles \cup Transfers \cup {Bulk})
  /\ Losing \subseteq Singles \cup Items

ASSUME BatchAssumption ==
  /\ IsFiniteSet(Items)
  /\ Batch \in [1 .. Cardinality(Items) -> Items]
  /\ \A i \in Items : \E n \in DOMAIN Batch : Batch[n] = i
  /\ \A m, n \in DOMAIN Batch : Batch[m] = Batch[n] => m = n

Names == {"meta-transfer", "remember", "bulk-remember", "wallet_jobs"}

ASSUME BoundsAssumption ==
  /\ Width \in [Names -> Nat \ {0}]
  /\ MaxAttempts \in Nat \ {0}
  /\ MaxCrashes \in Nat

(* The first start, and each crash, give a running job one execution more. *)
Tries == MaxAttempts + MaxCrashes + 1

(* Rows of the queues.  Execution n of the bulk job pushes <<i, n>> for i. *)
OldJobs  == (Singles \cup Transfers \cup {Bulk}) \X {0}
Copies   == Items \X (1 .. Tries)
Jobs     == OldJobs \cup Copies
RowJobs  == (Singles \X {0}) \cup Copies
Moves    == Transfers \X {0}
Fan      == <<Bulk, 0>>
Rows     == Singles \cup Items
Blobs    == Rows \cup Transfers

(* Jobs of the queues `wallet-<i>`, and those that classify their errors.  *)
OldWallet  == ((Singles \ RememberRows) \cup (Transfers \ MetaBlobs)) \X {0}
Classifies == OldWallet \cup Copies

(* The monitor that executes a job.                                        *)
Name(c) ==
  CASE c = Fan -> "bulk-remember"
    [] c[1] \in RememberRows -> "remember"
    [] c[1] \in MetaBlobs -> "meta-transfer"
    [] c \in Classifies -> "wallet_jobs"

VARIABLES
  up,        \* the process runs
  stuck,     \* jobs in the queues of the wallets, which no worker reads
  queue,     \* queue[c]: the Apalis status of job c
  attempts,  \* attempts[c]: executions begun so far
  pc,        \* pc[c]: where the handler of c is
  next,      \* which item the bulk handler pushes next
  status,    \* status[r]: remember_jobs.status
  vec,       \* rows whose vector is in the index
  owned,     \* blobs that belong to their owner on chain
  crashes

queueVars == <<stuck, queue, attempts>>
vars      == <<up, queueVars, pc, next, status, vec, owned, crashes>>

Statuses == {"none", "pending", "running", "uploaded", "done", "failed"}
Queues   == {"none", "Pending", "Running", "Failed", "Done", "Killed"}
Counters == {"idle", "start", "upload", "uploaded", "index", "finish", "failRetry",
             "failAbort", "push", "transfer", "ackOk", "ackRetry", "ackAbort"}

TypeOK ==
  /\ up \in BOOLEAN
  /\ stuck \subseteq OldWallet
  /\ queue \in [Jobs -> Queues]
  /\ attempts \in [Jobs -> Nat]
  /\ pc \in [Jobs -> Counters]
  /\ next \in 1 .. (Cardinality(Items) + 1)
  /\ status \in [Rows -> Statuses]
  /\ vec \subseteq Rows
  /\ owned \subseteq Blobs
  /\ crashes \in 0 .. MaxCrashes

(* Apalis status and executions of a job that waits, that failed, or that  *)
(* was running when the earlier version stopped.                           *)
Leftovers ==
  {<<"Pending", 0>>} \cup {"Failed"} \X (1 .. (MaxAttempts - 1))
                     \cup {"Running"} \X (1 .. MaxAttempts)

Told(q) == CASE q = "Pending" -> "pending" [] q = "Running" -> "running"
             [] q = "Failed" -> "failed"   [] q = "none" -> "none"

Init ==
  /\ up = FALSE
  /\ \E ids \in Backlogs : \E left \in [ids -> Leftovers] :
       /\ queue = [c \in Jobs |->
            IF c[1] \in ids /\ c[2] = 0 THEN left[c[1]][1] ELSE "none"]
       /\ attempts = [c \in Jobs |->
            IF c[1] \in ids /\ c[2] = 0 THEN left[c[1]][2] ELSE 0]
       /\ stuck = OldWallet \cap (ids \X {0})
       /\ status = [r \in Rows |->
            IF r \in ids THEN Told(left[r][1])
            ELSE IF r \in Items /\ Bulk \in ids THEN "pending" ELSE "none"]
  /\ pc = [c \in Jobs |-> "idle"]
  /\ next = 1
  /\ vec = {}
  /\ owned = {}
  /\ crashes = 0

-----------------------------------------------------------------------------
At(c, from, to) ==
  /\ pc[c] = from
  /\ pc' = [pc EXCEPT ![c] = to]

SetStatus(c, s) ==
  \/ status' = [status EXCEPT ![c[1]] = s]
  \/ c[1] \in Losing /\ UNCHANGED status

(* A handler fails: only a wallet job tells a Move abort from other errors. *)
Fails(c, from, retry, abort) ==
  \/ At(c, from, retry)
  \/ At(c, from, abort) /\ c \in Classifies

-----------------------------------------------------------------------------
(* The start of the process: migration 008 renames the wallets' queues and *)
(* frees their running jobs, then each monitor frees those of its queue.   *)
Freed == [c \in Jobs |-> IF queue[c] = "Running" THEN "Pending" ELSE queue[c]]

StartFreeingOwnQueues ==
  /\ ~up
  /\ up' = TRUE
  /\ stuck' = {c \in stuck : queue[c] = "Running"}
  /\ queue' = [c \in Jobs |-> IF c \in stuck THEN queue[c] ELSE Freed[c]]
  /\ UNCHANGED <<attempts, pc, next, status, vec, owned, crashes>>

Start ==
  /\ ~up
  /\ up' = TRUE
  /\ stuck' = {}
  /\ queue' = Freed
  /\ UNCHANGED <<attempts, pc, next, status, vec, owned, crashes>>

Crash ==
  /\ up
  /\ crashes < MaxCrashes
  /\ crashes' = crashes + 1
  /\ up' = FALSE
  /\ pc' = [c \in Jobs |-> "idle"]
  /\ UNCHANGED <<queueVars, next, status, vec, owned>>

(* The first step of each handler.                                         *)
Entry(c) == IF c = Fan THEN "push" ELSE IF c \in Moves THEN "transfer" ELSE "start"

Busy(name) == Cardinality({c \in Jobs : pc[c] # "idle" /\ Name(c) = name})

(* A monitor's worker takes a job from its queue (Apalis, external).       *)
Fetch(c) ==
  /\ up
  /\ c \notin stuck
  /\ \/ queue[c] = "Pending"
     \/ queue[c] = "Failed" /\ attempts[c] < MaxAttempts
  /\ Busy(Name(c)) < Width[Name(c)]
  /\ queue' = [queue EXCEPT ![c] = "Running"]
  /\ attempts' = [attempts EXCEPT ![c] = @ + 1]
  /\ At(c, "idle", Entry(c))
  /\ next' = IF c = Fan THEN 1 ELSE next
  /\ UNCHANGED <<up, stuck, status, vec, owned, crashes>>

(* What Apalis stores of a handler's result (external).                    *)
Ack(c) ==
  /\ \/ /\ At(c, "ackOk", "idle")
        /\ queue' = [queue EXCEPT ![c] = "Done"]
     \/ /\ At(c, "ackRetry", "idle")
        /\ queue' = [queue EXCEPT
                       ![c] = IF attempts[c] < MaxAttempts THEN "Failed" ELSE "Killed"]
     \/ /\ At(c, "ackAbort", "idle")
        /\ queue' = [queue EXCEPT ![c] = "Killed"]
  /\ UNCHANGED <<up, stuck, attempts, next, status, vec, owned, crashes>>

-----------------------------------------------------------------------------
(* execute_bulk_remember: the pushes, in the order of the batch.  A push   *)
(* that fails ends the execution, and may have stored its job.             *)
Pushed == <<Batch[next], attempts[Fan]>>

PushSkippingErrors ==
  /\ pc[Fan] = "push"
  /\ \/ /\ next \in DOMAIN Batch
        /\ next' = next + 1
        /\ queue' \in {queue, [queue EXCEPT ![Pushed] = "Pending"]}
        /\ UNCHANGED pc
     \/ /\ next \notin DOMAIN Batch
        /\ At(Fan, "push", "ackOk")
        /\ UNCHANGED <<next, queue>>
  /\ UNCHANGED <<up, stuck, attempts, status, vec, owned, crashes>>

PushUntilStored ==
  /\ pc[Fan] = "push"
  /\ \/ /\ next \in DOMAIN Batch
        /\ next' = next + 1
        /\ queue' = [queue EXCEPT ![Pushed] = "Pending"]
        /\ UNCHANGED pc
     \/ /\ next \in DOMAIN Batch
        /\ queue' = [queue EXCEPT ![Pushed] = "Pending"]
        /\ UNCHANGED <<pc, next>>
     \/ /\ next \notin DOMAIN Batch
        /\ At(Fan, "push", "ackOk")
        /\ UNCHANGED <<next, queue>>
  /\ UNCHANGED <<up, stuck, attempts, status, vec, owned, crashes>>

Push ==
  /\ pc[Fan] = "push"
  /\ \/ /\ next \in DOMAIN Batch
        /\ next' = next + 1
        /\ queue' = [queue EXCEPT ![Pushed] = "Pending"]
        /\ UNCHANGED pc
     \/ /\ next \in DOMAIN Batch
        /\ At(Fan, "push", "ackRetry")
        /\ queue' \in {queue, [queue EXCEPT ![Pushed] = "Pending"]}
        /\ UNCHANGED next
     \/ /\ next \notin DOMAIN Batch
        /\ At(Fan, "push", "ackOk")
        /\ UNCHANGED <<next, queue>>
  /\ UNCHANGED <<up, stuck, attempts, status, vec, owned, crashes>>

-----------------------------------------------------------------------------
(* execute_upload_and_transfer and execute_remember, which skips the row's *)
(* "uploaded".  RememberJobs has the steps of the sidecar inside Upload.   *)
MarkRunning(c) ==
  /\ At(c, "start", "upload")
  /\ SetStatus(c, "running")
  /\ UNCHANGED <<up, queueVars, next, vec, owned, crashes>>

(* An answer, or an error or no answer in time, with the blob transferred  *)
(* or not.                                                                 *)
Upload(c) ==
  /\ \/ /\ At(c, "upload", IF c[1] \in RememberRows THEN "index" ELSE "uploaded")
        /\ owned' = owned \cup {c[1]}
     \/ /\ Fails(c, "upload", "failRetry", "failAbort")
        /\ owned' \in {owned, owned \cup {c[1]}}
  /\ UNCHANGED <<up, queueVars, next, status, vec, crashes>>

MarkUploadedAsDone(c) ==
  /\ At(c, "uploaded", "index")
  /\ SetStatus(c, "done")
  /\ UNCHANGED <<up, queueVars, next, vec, owned, crashes>>

MarkUploaded(c) ==
  /\ At(c, "uploaded", "index")
  /\ SetStatus(c, "uploaded")
  /\ UNCHANGED <<up, queueVars, next, vec, owned, crashes>>

(* An upsert on the row's id, whichever job executes it.                   *)
Insert(c) ==
  /\ \/ At(c, "index", "finish") /\ vec' = vec \cup {c[1]}
     \/ At(c, "index", "failRetry") /\ vec' \in {vec, vec \cup {c[1]}}
  /\ UNCHANGED <<up, queueVars, next, status, owned, crashes>>

MarkDone(c) ==
  /\ At(c, "finish", "ackOk")
  /\ SetStatus(c, "done")
  /\ UNCHANGED <<up, queueVars, next, vec, owned, crashes>>

MarkNothing(c) ==
  /\ \/ At(c, "failRetry", "ackRetry")
     \/ At(c, "failAbort", "ackAbort")
  /\ UNCHANGED <<up, queueVars, next, status, vec, owned, crashes>>

MarkFailed(c) ==
  /\ \/ At(c, "failRetry", "ackRetry")
     \/ At(c, "failAbort", "ackAbort")
  /\ SetStatus(c, "failed")
  /\ UNCHANGED <<up, queueVars, next, vec, owned, crashes>>

-----------------------------------------------------------------------------
(* execute_meta_transfer and SetMetadataAndTransfer: one transaction of    *)
(* the server wallet, which fails once the blob is its owner's.            *)
Transferred(c) ==
  /\ c[1] \notin owned
  /\ owned' = owned \cup {c[1]}

(* set_metadata_batch without an answer in time, or with an error: the     *)
(* transaction may have been executed, now or by an earlier request.       *)
Unanswered(c) == owned' \in {owned, owned \cup {c[1]}}

Transfer(c) ==
  /\ \/ At(c, "transfer", "ackOk") /\ Transferred(c)
     \/ Fails(c, "transfer", "ackRetry", "ackAbort") /\ Unanswered(c)
  /\ UNCHANGED <<up, queueVars, next, status, vec, crashes>>

-----------------------------------------------------------------------------
RowHandler(c) ==
  \/ MarkRunning(c)
  \/ Upload(c)
  \/ MarkUploaded(c)
  \/ Insert(c)
  \/ MarkDone(c)
  \/ MarkFailed(c)

Worker ==
  \/ \E c \in Jobs : Fetch(c) \/ Ack(c)
  \/ \E c \in RowJobs : RowHandler(c)
  \/ \E c \in Moves : Transfer(c)
  \/ Push

Next ==
  \/ Start
  \/ Crash
  \/ Worker

Spec == Init /\ [][Next]_vars

(* The supervisor starts the process again, the monitors restart their     *)
(* workers, Apalis polls its tables, and each call of a handler ends or    *)
(* times out.  A step of one job takes it nearer to its end, so that the   *)
(* workers together need no fairness to each job.                          *)
FairSpec == Spec /\ WF_vars(Start) /\ WF_vars(Worker)

-----------------------------------------------------------------------------
Ended(c)   == queue[c] \in {"Done", "Killed"}
JobsOf(r)  == {c \in RowJobs : c[1] = r /\ queue[c] # "none"}
Settled(r) == status[r] \in {"done", "failed"}

(* A bulk job that Apalis counts as done has queued every item, whatever   *)
(* pushes failed and whatever executions began again.                      *)
FannedOutIsQueued ==
  queue[Fan] = "Done" => \A i \in Items : JobsOf(i) # {}

(* However many jobs worked on a row at a time and in whatever order they  *)
(* ended, once all have, the row says how; and it says failed if none of   *)
(* them succeeded.                                                         *)
EndedRowIsReported ==
  \A r \in Rows \ Losing :
    JobsOf(r) # {} /\ (\A c \in JobsOf(r) : Ended(c)) =>
      /\ Settled(r)
      /\ (\A c \in JobsOf(r) : queue[c] = "Killed") => status[r] = "failed"

(* Old jobs that were waiting, failed or running are all executed to their *)
(* end: the renaming of the queues strands none.                           *)
BacklogEnds == <>[](\A c \in Jobs : queue[c] = "none" \/ Ended(c))

(* What a job may still do: its executions, each of which has at most as   *)
(* many steps as a row's handler, or the bulk job's with a push per item.  *)
StepsLeft(p) ==
  CASE p = "start" -> 6
    [] p = "upload" -> 5
    [] p = "uploaded" -> 4
    [] p = "index" -> 3
    [] p \in {"finish", "failRetry", "failAbort", "push", "transfer"} -> 2
    [] p \in {"ackOk", "ackRetry", "ackAbort"} -> 1
    [] p = "idle" -> 0

PushesLeft(c) == IF c = Fan THEN Cardinality(Items) + 1 - next ELSE 0

WorkLeft(c) ==
  (Cardinality(Items) + 7) * (Tries - attempts[c]) + StepsLeft(pc[c]) + PushesLeft(c)

(* The guards of Worker: a handler has a step where its kind of job can be *)
(* and Apalis fetches a job whose monitor has room.                        *)
MayStep(c) ==
  \/ pc[c] \in {"ackOk", "ackRetry", "ackAbort"}
  \/ c \in RowJobs /\ pc[c] \notin {"idle", "push", "transfer"}
  \/ c \in Moves /\ pc[c] = "transfer"
  \/ c = Fan /\ pc[c] = "push"

MayFetch(c) ==
  /\ pc[c] = "idle" /\ c \notin stuck
  /\ queue[c] = "Pending" \/ (queue[c] = "Failed" /\ attempts[c] < MaxAttempts)
  /\ Busy(Name(c)) < Width[Name(c)]

(* While the process runs, a job that has not ended can be fetched, or it  *)
(* or another of its own monitor has a handler under way: nothing waits    *)
(* for a queue nobody reads or a worker that is gone.  No step, crash or   *)
(* start gives a job more to do, and each step while the process runs      *)
(* leaves one of them less, although a bulk job begins its pushes again.   *)
BacklogAdvances ==
  /\ [](\A c \in Jobs :
          up /\ queue[c] # "none" /\ ~Ended(c) =>
            MayFetch(c) \/ \E d \in Jobs : Name(d) = Name(c) /\ MayStep(d))
  /\ [][/\ \A c \in Jobs : WorkLeft(c)' <= WorkLeft(c)
        /\ up /\ up' => \E c \in Jobs : WorkLeft(c)' < WorkLeft(c)]_vars

MemoryOf(r) ==
  IF status[r] = "none" THEN "absent"
  ELSE IF r \in vec THEN "recallable"
  ELSE IF r \in owned THEN "durable"
  ELSE "accepted"

ReportOf(r) ==
  IF status[r] \in {"pending", "running", "uploaded"} THEN "working" ELSE status[r]

Promise == INSTANCE MemoryPromise WITH
  Jobs   <- Rows,
  memory <- [r \in Rows |-> MemoryOf(r)],
  report <- [r \in Rows |-> ReportOf(r)]

(* Each step, of one of several jobs on a row, is a step of MemoryPromise: *)
(* nothing recallable is lost, nothing is recallable before it is durable, *)
(* and "done" is only said of what is recallable.                          *)
StepsKeepPromise == [][Promise!Next]_(Promise!vars)

-----------------------------------------------------------------------------
(* The inductive invariant behind the properties above.                    *)

AttemptsInv ==
  \A c \in Jobs :
    /\ queue[c] = "none" => attempts[c] = 0
    /\ pc[c] # "idle" <=> up /\ queue[c] = "Running"
    /\ ~up \/ queue[c] = "Pending" => attempts[c] <= MaxAttempts + crashes
    /\ attempts[c] <= MaxAttempts + crashes + 1
    /\ queue[c] = "Running" => attempts[c] > 0
    /\ queue[c] = "Failed" => attempts[c] < MaxAttempts

(* A handler is where its kind of job can be, and no job waits in a queue  *)
(* that nobody reads.                                                      *)
KindsInv ==
  /\ up => stuck = {}
  /\ pc[Fan] \in {"idle", "push", "ackOk", "ackRetry"}
  /\ \A c \in Moves : pc[c] \in {"idle", "transfer", "ackOk", "ackRetry", "ackAbort"}
  /\ \A c \in RowJobs : pc[c] \notin {"push", "transfer"}
  /\ \A r \in Rows : JobsOf(r) # {} => status[r] # "none"
  /\ \A i \in Items : queue[Fan] # "none" => status[i] # "none"
  /\ \A c \in Copies : c[2] > attempts[Fan] => queue[c] = "none"

(* What the current execution of the bulk job has pushed, and what not.    *)
PushedInv ==
  /\ pc[Fan] # "idle" =>
       \A n \in 1 .. (next - 1) : queue[<<Batch[n], attempts[Fan]>>] # "none"
  /\ pc[Fan] = "push" =>
       \A n \in next .. Cardinality(Items) : queue[<<Batch[n], attempts[Fan]>>] = "none"
  /\ pc[Fan] = "ackOk" => next \notin DOMAIN Batch
  /\ FannedOutIsQueued

ProgressInv ==
  /\ vec \subseteq owned
  /\ \A r \in Rows : status[r] = "done" => r \in vec
  /\ \A c \in RowJobs :
       /\ pc[c] \in {"uploaded", "index", "finish", "ackOk"} => c[1] \in owned
       /\ pc[c] \in {"finish", "ackOk"} \/ queue[c] = "Done" => c[1] \in vec
  /\ \A c \in Moves : pc[c] = "ackOk" \/ queue[c] = "Done" => c[1] \in owned

(* A handler that has marked its row, and one that has not begun to.       *)
Marked(c)   == pc[c] \in {"ackOk", "ackRetry", "ackAbort"} \/ queue[c] = "Failed" \/ Ended(c)
Untouched(c) ==
  \/ queue[c] \in {"Pending", "Done"}
  \/ queue[c] = "Running" /\ pc[c] \in {"idle", "start", "ackOk"}

(* The last word on a row is that of the last handler that wrote it.       *)
ReportInv ==
  \A r \in Rows \ Losing :
    /\ JobsOf(r) # {} /\ (\A c \in JobsOf(r) : Marked(c)) => Settled(r)
    /\ status[r] = "done" => \E c \in JobsOf(r) : Untouched(c)

(* Type correctness with the facts on attempts, kinds of jobs, pushes,     *)
(* progress and reports that every step of this version keeps.             *)
LegacyInv ==
  TypeOK /\ AttemptsInv /\ KindsInv /\ PushedInv /\ ProgressInv /\ ReportInv
=============================================================================
