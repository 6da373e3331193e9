---------------------------- MODULE RememberJobs ----------------------------
(***************************************************************************)
(* The asynchronous remember pipeline: a route inserts a remember_jobs row *)
(* and spawns a preparation task (routes.rs); the task pushes a WalletJob  *)
(* on the Apalis queue; a wallet worker (jobs.rs) uploads the ciphertext   *)
(* through the sidecar (sidecar-server.ts), indexes the vector and reports *)
(* in the row.  The row, the queue, the vectors and the chain survive a    *)
(* crash; tasks, handlers and sidecar requests do not.                     *)
(***************************************************************************)
EXTENDS Integers

CONSTANTS
  Jobs,         \* remember_jobs ids; one WalletJob carries each id
  MaxAttempts,  \* executions Apalis grants a job that keeps failing
  MaxCrashes,   \* bound: crashes of the process in a behaviour
  MaxLost       \* bound: status UPDATEs lost per job (`let _ = ...`)

ASSUME MaxAttemptsAssumption == MaxAttempts \in Nat \ {0}
ASSUME MaxCrashesAssumption  == MaxCrashes \in Nat
ASSUME MaxLostAssumption     == MaxLost \in Nat

(* A crash gives a job one execution beyond its attempts.                  *)
Tries == 1 .. (MaxAttempts + MaxCrashes)

VARIABLES
  status,    \* status[j]: remember_jobs.status, "none" before the INSERT
  prep,      \* prep[j]: the in-memory preparation task
  queue,     \* queue[j]: the Apalis row of the WalletJob
  attempts,  \* attempts[j]: executions begun so far
  pc,        \* pc[j]: where the wallet worker is in its handler
  req,       \* req[j][k]: the sidecar request of execution k
  obj,       \* obj[j][k]: the Sui Blob object that request made
  vec,       \* vec[j]: vector_entries holds the row with id j
  lost,      \* lost[j]: status UPDATEs of j that failed and were ignored
  crashes

rowVars  == <<status, lost>>
jobVars  == <<queue, attempts>>
sideVars == <<req, obj>>
vars     == <<status, prep, queue, attempts, pc, req, obj, vec, lost, crashes>>

Statuses == {"none", "pending", "running", "uploaded", "done", "failed"}
Preps    == {"none", "spawned", "failing", "over"}
Queues   == {"none", "Pending", "Running", "Failed", "Done", "Killed"}
Counters == {"idle", "start", "upload", "uploaded", "index", "finish",
             "failTransient", "failPermanent", "ackOk", "ackRetry", "ackAbort"}
Requests == {"none", "working", "ok", "error", "abort", "xferError", "xferAbort"}
Objects  == {"none", "registered", "certified", "owned"}

TypeOK ==
  /\ status \in [Jobs -> Statuses]
  /\ prep \in [Jobs -> Preps]
  /\ queue \in [Jobs -> Queues]
  /\ attempts \in [Jobs -> 0 .. (MaxAttempts + MaxCrashes)]
  /\ pc \in [Jobs -> Counters]
  /\ req \in [Jobs -> [Tries -> Requests]]
  /\ obj \in [Jobs -> [Tries -> Objects]]
  /\ vec \in [Jobs -> BOOLEAN]
  /\ lost \in [Jobs -> 0 .. MaxLost]
  /\ crashes \in 0 .. MaxCrashes

Init ==
  /\ status = [j \in Jobs |-> "none"]
  /\ prep = [j \in Jobs |-> "none"]
  /\ queue = [j \in Jobs |-> "none"]
  /\ attempts = [j \in Jobs |-> 0]
  /\ pc = [j \in Jobs |-> "idle"]
  /\ req = [j \in Jobs |-> [k \in Tries |-> "none"]]
  /\ obj = [j \in Jobs |-> [k \in Tries |-> "none"]]
  /\ vec = [j \in Jobs |-> FALSE]
  /\ lost = [j \in Jobs |-> 0]
  /\ crashes = 0

-----------------------------------------------------------------------------
(* Every status UPDATE is `let _ = sqlx::query(..)`: the handler goes on   *)
(* whether or not the row was written.                                     *)
SetStatus(j, s) ==
  \/ /\ status' = [status EXCEPT ![j] = s]
     /\ UNCHANGED lost
  \/ /\ lost[j] < MaxLost
     /\ lost' = [lost EXCEPT ![j] = @ + 1]
     /\ UNCHANGED status

At(j, from, to) ==
  /\ pc[j] = from
  /\ pc' = [pc EXCEPT ![j] = to]

-----------------------------------------------------------------------------
(* The routes.  The INSERT commits, then the task is spawned and the       *)
(* client gets its 202; when the connection closes or the process stops in *)
(* between, the row stays and no task exists.                              *)
Accept(j) ==
  /\ status[j] = "none"
  /\ status' = [status EXCEPT ![j] = "pending"]
  /\ \/ prep' = [prep EXCEPT ![j] = "spawned"]
     \/ UNCHANGED prep
  /\ UNCHANGED <<jobVars, pc, sideVars, vec, lost, crashes>>

(* Embedding, encryption, quota or key pool refuse: nothing is enqueued.   *)
PrepareFails(j) ==
  /\ prep[j] = "spawned"
  /\ prep' = [prep EXCEPT ![j] = "failing"]
  /\ UNCHANGED <<rowVars, jobVars, pc, sideVars, vec, crashes>>

(* storage.push: stored and confirmed, not stored, or stored with the      *)
(* confirmation lost (the task then believes that the push failed).        *)
Enqueue(j) ==
  /\ prep[j] = "spawned"
  /\ \/ /\ queue' = [queue EXCEPT ![j] = "Pending"]
        /\ \E p \in {"over", "failing"} : prep' = [prep EXCEPT ![j] = p]
     \/ /\ prep' = [prep EXCEPT ![j] = "failing"]
        /\ UNCHANGED queue
  /\ UNCHANGED <<rowVars, attempts, pc, sideVars, vec, crashes>>

PrepareMarksFailed(j) ==
  /\ prep[j] = "failing"
  /\ prep' = [prep EXCEPT ![j] = "over"]
  /\ SetStatus(j, "failed")
  /\ UNCHANGED <<jobVars, pc, sideVars, vec, crashes>>

-----------------------------------------------------------------------------
(* Apalis (external) hands a job to a worker: a Pending one always, a      *)
(* Failed one while attempts remain.                                       *)
Fetch(j) ==
  /\ queue[j] \in {"Pending", "Failed"}
  /\ queue[j] = "Failed" => attempts[j] < MaxAttempts
  /\ queue' = [queue EXCEPT ![j] = "Running"]
  /\ attempts' = [attempts EXCEPT ![j] = @ + 1]
  /\ At(j, "idle", "start")
  /\ UNCHANGED <<rowVars, prep, sideVars, vec, crashes>>

(* execute_upload_and_transfer marks the row and calls /walrus/upload.     *)
StartUpload(j) ==
  /\ At(j, "start", "upload")
  /\ SetStatus(j, "running")
  /\ req' = [req EXCEPT ![j][attempts[j]] = "working"]
  /\ UNCHANGED <<prep, jobVars, obj, vec, crashes>>

UploadSucceeds(j) ==
  /\ At(j, "upload", "uploaded")
  /\ req[j][attempts[j]] = "ok"
  /\ req' = [req EXCEPT ![j][attempts[j]] = "none"]
  /\ UNCHANGED <<rowVars, prep, jobVars, obj, vec, crashes>>

(* classify_sidecar_error sees only the message: "xferAbort" carries the   *)
(* fixed text of a failed transfer, so it is transient like "xferError".   *)
Classify(r) == IF r = "abort" THEN "failPermanent" ELSE "failTransient"

UploadFails(j) ==
  /\ pc[j] = "upload"
  /\ LET r == req[j][attempts[j]] IN
       /\ r \in {"error", "abort", "xferError", "xferAbort"}
       /\ pc' = [pc EXCEPT ![j] = Classify(r)]
  /\ req' = [req EXCEPT ![j][attempts[j]] = "none"]
  /\ UNCHANGED <<rowVars, prep, jobVars, obj, vec, crashes>>

UploadTimesOutAgain(j) ==
  /\ At(j, "upload", "start")
  /\ req[j][attempts[j]] = "working"
  /\ UNCHANGED <<rowVars, prep, jobVars, sideVars, vec, crashes>>

(* The 180 s limit passes, or the connection breaks: the worker gives up   *)
(* on a request that the sidecar goes on executing.                        *)
UploadTimesOut(j) ==
  /\ At(j, "upload", "failTransient")
  /\ req[j][attempts[j]] = "working"
  /\ UNCHANGED <<rowVars, prep, jobVars, sideVars, vec, crashes>>

MarkUploadedAsDone(j) ==
  /\ At(j, "uploaded", "index")
  /\ SetStatus(j, "done")
  /\ UNCHANGED <<prep, jobVars, sideVars, vec, crashes>>

MarkUploaded(j) ==
  /\ At(j, "uploaded", "index")
  /\ SetStatus(j, "uploaded")
  /\ UNCHANGED <<prep, jobVars, sideVars, vec, crashes>>

(* An upsert on the job id: a retry rewrites the row of the attempt before *)
(* it.  An error may be reported for a statement that was executed.        *)
InsertVectorIgnoringError(j) ==
  /\ At(j, "index", "finish")
  /\ \/ vec' = [vec EXCEPT ![j] = TRUE]
     \/ UNCHANGED vec
  /\ UNCHANGED <<rowVars, prep, jobVars, sideVars, crashes>>

InsertVector(j) ==
  /\ \/ /\ At(j, "index", "finish")
        /\ vec' = [vec EXCEPT ![j] = TRUE]
     \/ /\ At(j, "index", "failTransient")
        /\ \/ vec' = [vec EXCEPT ![j] = TRUE]
           \/ UNCHANGED vec
  /\ UNCHANGED <<rowVars, prep, jobVars, sideVars, crashes>>

MarkDone(j) ==
  /\ At(j, "finish", "ackOk")
  /\ SetStatus(j, "done")
  /\ UNCHANGED <<prep, jobVars, sideVars, vec, crashes>>

MarkNothing(j) ==
  /\ \/ At(j, "failTransient", "ackRetry")
     \/ At(j, "failPermanent", "ackAbort")
  /\ UNCHANGED <<rowVars, prep, jobVars, sideVars, vec, crashes>>

MarkFailed(j) ==
  /\ \/ At(j, "failTransient", "ackRetry")
     \/ At(j, "failPermanent", "ackAbort")
  /\ SetStatus(j, "failed")
  /\ UNCHANGED <<prep, jobVars, sideVars, vec, crashes>>

AckRetriesForever(j) ==
  /\ \/ /\ At(j, "ackOk", "idle")
        /\ queue' = [queue EXCEPT ![j] = "Done"]
     \/ /\ At(j, "ackRetry", "idle")
        /\ queue' = [queue EXCEPT ![j] = "Pending"]
     \/ /\ At(j, "ackAbort", "idle")
        /\ queue' = [queue EXCEPT ![j] = "Killed"]
  /\ UNCHANGED <<rowVars, prep, attempts, sideVars, vec, crashes>>

AckRetriesSuccess(j) ==
  /\ \E p \in {"ackOk", "ackRetry", "ackAbort"} : At(j, p, "idle")
  /\ queue' = [queue EXCEPT
                 ![j] = IF attempts[j] < MaxAttempts THEN "Failed" ELSE "Killed"]
  /\ UNCHANGED <<rowVars, prep, attempts, sideVars, vec, crashes>>

(* into_apalis_error, and what Apalis stores for each result.              *)
Ack(j) ==
  /\ \/ /\ At(j, "ackOk", "idle")
        /\ queue' = [queue EXCEPT ![j] = "Done"]
     \/ /\ At(j, "ackRetry", "idle")
        /\ queue' = [queue EXCEPT
                       ![j] = IF attempts[j] < MaxAttempts THEN "Failed" ELSE "Killed"]
     \/ /\ At(j, "ackAbort", "idle")
        /\ queue' = [queue EXCEPT ![j] = "Killed"]
  /\ UNCHANGED <<rowVars, prep, attempts, sideVars, vec, crashes>>

-----------------------------------------------------------------------------
(* The sidecar's /walrus/upload for execution k: register, certify,        *)
(* transfer.  Each transaction commits on chain before the sidecar waits   *)
(* for it, so an error can follow a committed step.                        *)
Sidecar(j, k, from, to) ==
  /\ req[j][k] = "working"
  /\ obj[j][k] = from
  /\ obj' = [obj EXCEPT ![j][k] = to]
  /\ UNCHANGED <<rowVars, prep, jobVars, pc, req, vec, crashes>>

RegisterBlob(j, k) == Sidecar(j, k, "none", "registered")
CertifyBlob(j, k)  == Sidecar(j, k, "registered", "certified")
TransferBlob(j, k) == Sidecar(j, k, "certified", "owned")

AnswersSwallowingTransferErrors(j, k) ==
  CASE obj[j][k] \in {"none", "registered"} -> {"error", "abort"}
    [] obj[j][k] = "certified" -> {"error", "ok"}
    [] obj[j][k] = "owned" -> {"ok"}

(* Errors up to and in certify are passed on verbatim; one in the          *)
(* metadata+transfer transaction is replaced by a fixed text.              *)
Answers(j, k) ==
  CASE obj[j][k] \in {"none", "registered"} -> {"error", "abort"}
    [] obj[j][k] = "certified" -> {"error", "xferError", "xferAbort"}
    [] obj[j][k] = "owned" -> {"ok", "xferError"}

(* An answer to a worker that has given up goes nowhere.                   *)
Respond(j, k) ==
  /\ req[j][k] = "working"
  /\ \E r \in Answers(j, k) :
       req' = [req EXCEPT ![j][k] =
                 IF pc[j] = "upload" /\ attempts[j] = k THEN r ELSE "none"]
  /\ UNCHANGED <<rowVars, prep, jobVars, pc, obj, vec, crashes>>

-----------------------------------------------------------------------------
(* The process and its sidecar die together and come back.  On start the   *)
(* workers put the jobs that were Running back to Pending (Apalis).        *)
CrashWithoutRequeue ==
  /\ crashes < MaxCrashes
  /\ crashes' = crashes + 1
  /\ prep' = [j \in Jobs |-> IF prep[j] = "none" THEN "none" ELSE "over"]
  /\ pc' = [j \in Jobs |-> "idle"]
  /\ req' = [j \in Jobs |-> [k \in Tries |-> "none"]]
  /\ UNCHANGED <<rowVars, queue, attempts, obj, vec>>

Crash ==
  /\ crashes < MaxCrashes
  /\ crashes' = crashes + 1
  /\ prep' = [j \in Jobs |-> IF prep[j] = "none" THEN "none" ELSE "over"]
  /\ pc' = [j \in Jobs |-> "idle"]
  /\ queue' = [j \in Jobs |-> IF queue[j] = "Running" THEN "Pending" ELSE queue[j]]
  /\ req' = [j \in Jobs |-> [k \in Tries |-> "none"]]
  /\ UNCHANGED <<rowVars, attempts, obj, vec>>

-----------------------------------------------------------------------------
Preparation(j) == PrepareFails(j) \/ Enqueue(j) \/ PrepareMarksFailed(j)

Worker(j) ==
  \/ Fetch(j)
  \/ StartUpload(j)
  \/ UploadSucceeds(j)
  \/ UploadFails(j)
  \/ UploadTimesOut(j)
  \/ MarkUploaded(j)
  \/ InsertVector(j)
  \/ MarkDone(j)
  \/ MarkFailed(j)
  \/ Ack(j)

Upload(j, k) ==
  \/ RegisterBlob(j, k)
  \/ CertifyBlob(j, k)
  \/ TransferBlob(j, k)
  \/ Respond(j, k)

Next ==
  \/ \E j \in Jobs : Accept(j) \/ Preparation(j) \/ Worker(j)
  \/ \E j \in Jobs, k \in Tries : Upload(j, k)
  \/ Crash

(* The tokio runtime polls every ready task, each reqwest call has a       *)
(* timeout, and Apalis polls its table: a task, or a handler, that can     *)
(* move does.  Nothing obliges a client to call or the sidecar to answer.  *)
Fairness ==
  \A j \in Jobs : WF_vars(Preparation(j)) /\ WF_vars(Worker(j))

Spec     == Init /\ [][Next]_vars
FairSpec == Spec /\ Fairness

-----------------------------------------------------------------------------
Owned(j)   == \E k \in Tries : obj[j][k] = "owned"
Settled(j) == status[j] \in {"done", "failed"}

(* A search can only find a memory whose blob already belongs to its owner *)
(* on chain: no order of timeouts, late sidecar answers, retries and       *)
(* crashes indexes a blob that the server wallet still holds.              *)
IndexedIsOwned == \A j \in Jobs : vec[j] => Owned(j)

(* A client that polls "done" can recall the memory, even if the UPDATEs   *)
(* before it were lost or the job was executed more than once.             *)
DoneIsRecallable == \A j \in Jobs : status[j] = "done" => vec[j] /\ Owned(j)

(* Once Apalis will not run the job again the row says how it ended, if    *)
(* the handler's UPDATEs reached the table; a killed job says "failed",    *)
(* whatever earlier executions and a late preparation failure wrote.       *)
FinishedIsReported ==
  \A j \in Jobs : lost[j] = 0 =>
    /\ queue[j] = "Done" => Settled(j)
    /\ queue[j] = "Killed" => status[j] = "failed"

(* Only a crash gives a job more executions (each registers, and pays for, *)
(* another blob) than the attempts of Apalis.                              *)
RetryBudget == \A j \in Jobs : attempts[j] <= MaxAttempts + crashes

(* "done" is taken back only when a crash made Apalis run the job again, or *)
(* by a preparation task that took a stored push for a failed one.         *)
DoneIsFinal ==
  [][\A j \in Jobs : status[j] = "done" /\ status'[j] # "done"
                       => crashes > 0 \/ prep[j] = "failing"]_vars

(* A job that reached the queue ends, for good, and with its end reported  *)
(* unless an UPDATE was lost: retries, timeouts, a silent sidecar and      *)
(* crashes delay the end only.                                             *)
EnqueuedIsSettled ==
  \A j \in Jobs :
    queue[j] # "none" ~> [](/\ queue[j] \in {"Done", "Killed"}
                            /\ lost[j] = 0 => Settled(j))

(* What keeps EnqueuedIsSettled true step by step: how much a job may      *)
(* still do, counted in executions, then in steps of one execution, then   *)
(* in steps of its preparation task.                                       *)
StepsLeft(p) ==
  CASE p = "start" -> 6
    [] p = "upload" -> 5
    [] p = "uploaded" -> 4
    [] p = "index" -> 3
    [] p \in {"finish", "failTransient", "failPermanent"} -> 2
    [] p \in {"ackOk", "ackRetry", "ackAbort"} -> 1
    [] p = "idle" -> 0

PrepLeft(p) ==
  CASE p = "none" -> 3 [] p = "spawned" -> 2 [] p = "failing" -> 1 [] p = "over" -> 0

WorkLeft(j) ==
  7 * ((MaxAttempts + MaxCrashes) - attempts[j]) + StepsLeft(pc[j]) + PrepLeft(prep[j])

Unfinished(j) ==
  prep[j] \in {"spawned", "failing"} \/ queue[j] \in {"Pending", "Running", "Failed"}

(* The guards of Preparation and Worker, which fairness acts upon.         *)
MayMove(j) ==
  \/ prep[j] \in {"spawned", "failing"}
  \/ queue[j] = "Pending" /\ pc[j] = "idle"
  \/ queue[j] = "Failed" /\ pc[j] = "idle" /\ attempts[j] < MaxAttempts
  \/ pc[j] = "upload" /\ req[j][attempts[j]] # "none"
  \/ pc[j] \notin {"idle", "upload"}

(* A job never waits for what will not come (a worker that is gone, an     *)
(* attempt it does not have, an answer nobody owes it), and it cannot go   *)
(* round in circles: no step of anyone, a crash included, gives a job more *)
(* to do, and each step of its own task or worker leaves it less.          *)
JobsAdvance ==
  /\ [](\A j \in Jobs : Unfinished(j) => MayMove(j))
  /\ [][\A j \in Jobs :
         /\ WorkLeft(j)' <= WorkLeft(j)
         /\ Preparation(j) \/ Worker(j) => WorkLeft(j)' < WorkLeft(j)]_vars

MemoryOf(j) ==
  IF status[j] = "none" THEN "absent"
  ELSE IF vec[j] THEN "recallable"
  ELSE IF Owned(j) THEN "durable"
  ELSE "accepted"

ReportOf(j) ==
  IF status[j] \in {"pending", "running", "uploaded"} THEN "working" ELSE status[j]

Promise == INSTANCE MemoryPromise WITH
  memory <- [j \in Jobs |-> MemoryOf(j)],
  report <- [j \in Jobs |-> ReportOf(j)]

(* The pipeline keeps the promise of MemoryPromise: nothing recallable is  *)
(* lost, nothing is recallable before it is durable, and "done" is only    *)
(* said of what is recallable.                                             *)
KeepsPromise == Promise!Spec

-----------------------------------------------------------------------------
(* The inductive invariant behind the properties above.                    *)

(* A handler runs only for a Running job, whose attempt is counted, and    *)
(* the fetch that would exceed the array of executions is never enabled.   *)
AttemptsInv ==
  \A j \in Jobs :
    /\ attempts[j] <= MaxAttempts + crashes
    /\ queue[j] = "none" => attempts[j] = 0
    /\ queue[j] = "Pending" => attempts[j] < MaxAttempts + crashes
    /\ queue[j] = "Failed" => attempts[j] < MaxAttempts
    /\ queue[j] = "Running" => attempts[j] > 0
    /\ queue[j] = "Running" <=> pc[j] # "idle"

(* Nothing exists of a job before the step that creates it.                *)
OriginInv ==
  \A j \in Jobs :
    /\ status[j] = "none" => prep[j] = "none"
    /\ prep[j] \in {"none", "spawned"} => queue[j] = "none"
    /\ \A k \in Tries :
         req[j][k] # "none" \/ obj[j][k] # "none" => k <= attempts[j]

(* What a handler's position says about the chain and the index.           *)
ProgressInv ==
  \A j \in Jobs :
    /\ \A k \in Tries : req[j][k] = "ok" => obj[j][k] = "owned"
    /\ pc[j] \in {"uploaded", "index", "finish", "ackOk"} => Owned(j)
    /\ pc[j] \in {"finish", "ackOk"} => vec[j]
    /\ vec[j] => Owned(j)
    /\ status[j] = "done" => vec[j]

(* What the row says while, and after, a result is acknowledged.           *)
ReportInv ==
  \A j \in Jobs :
    /\ lost[j] = 0 =>
         /\ pc[j] = "ackOk" \/ queue[j] = "Done" => Settled(j)
         /\ pc[j] \in {"ackRetry", "ackAbort"} \/ queue[j] \in {"Failed", "Killed"}
              => status[j] = "failed"
    /\ status[j] = "done" /\ crashes = 0 =>
         /\ pc[j] \in {"idle", "ackOk"}
         /\ queue[j] \in {"Running", "Done"}

(* A handler waits for a request only while it is open or answered.        *)
WaitInv ==
  \A j \in Jobs : pc[j] = "upload" => req[j][attempts[j]] # "none"

(* Type correctness, and the facts on origin, attempts, progress, reports  *)
(* and waits that every step of routes, workers, sidecar and crash keeps.  *)
IInv ==
  TypeOK /\ AttemptsInv /\ OriginInv /\ ProgressInv /\ ReportInv /\ WaitInv

-----------------------------------------------------------------------------
(* What a comment promises and the code does not do.                       *)

(* "jobs survive server restarts": an accepted request ends as done or     *)
(* failed.                                                                 *)
AcceptedIsSettled == \A j \in Jobs : prep[j] = "spawned" ~> Settled(j)
=============================================================================
