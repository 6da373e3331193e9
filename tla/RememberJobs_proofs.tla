------------------------- MODULE RememberJobs_proofs -------------------------
(***************************************************************************)
(* The safety of the remember pipeline for every set of jobs, every number *)
(* of attempts, crashes and lost updates.                                  *)
(***************************************************************************)
EXTENDS RememberJobs, TLAPS

(* The initial state satisfies the inductive invariant.                    *)
LEMMA InitIInv == Init => IInv
BY MaxAttemptsAssumption, MaxCrashesAssumption, MaxLostAssumption
   DEF Init, IInv, TypeOK, AttemptsInv, OriginInv, ProgressInv, ReportInv, WaitInv,
       Owned, Settled, Tries, Statuses, Preps, Queues, Counters, Requests, Objects

(* A status UPDATE, executed or lost, keeps the types of what it touches.  *)
LEMMA SetStatusType ==
  ASSUME TypeOK, NEW j \in Jobs, NEW s \in Statuses, SetStatus(j, s)
  PROVE  /\ status' \in [Jobs -> Statuses]
         /\ lost' \in [Jobs -> 0 .. MaxLost]
<1>1. CASE status' = [status EXCEPT ![j] = s] /\ UNCHANGED lost
  BY <1>1 DEF TypeOK
<1>2. CASE lost[j] < MaxLost /\ lost' = [lost EXCEPT ![j] = @ + 1] /\ UNCHANGED status
  BY <1>2, MaxLostAssumption DEF TypeOK
<1>3. QED
  BY <1>1, <1>2 DEF SetStatus

(* A step that leaves the chain alone leaves ownership alone, and no step  *)
(* of the sidecar takes ownership back.                                    *)
LEMMA OwnedUnchanged == UNCHANGED obj => \A j \in Jobs : Owned(j)' = Owned(j)
BY DEF Owned

LEMMA OwnedKept ==
  ASSUME TypeOK, NEW j \in Jobs, NEW k \in Tries,
         NEW to \in Objects, obj[j][k] # "owned",
         obj' = [obj EXCEPT ![j][k] = to]
  PROVE  \A i \in Jobs : /\ Owned(i) => Owned(i)'
                         /\ to = "owned" => Owned(j)'
BY DEF Owned, TypeOK

(* Every step keeps the types.                                             *)
LEMMA TypeStep == IInv /\ [Next]_vars => TypeOK'
<1>. SUFFICES ASSUME IInv, [Next]_vars PROVE TypeOK'
  OBVIOUS
<1>. USE MaxAttemptsAssumption, MaxCrashesAssumption, MaxLostAssumption
         DEF IInv, TypeOK, AttemptsInv, rowVars, jobVars, sideVars, Tries,
             Statuses, Preps, Queues, Counters, Requests, Objects
<1>1. ASSUME NEW j \in Jobs, Accept(j) PROVE TypeOK'
  BY <1>1 DEF Accept
<1>2. ASSUME NEW j \in Jobs, PrepareFails(j) PROVE TypeOK'
  BY <1>2 DEF PrepareFails
<1>3. ASSUME NEW j \in Jobs, Enqueue(j) PROVE TypeOK'
  <2>1. queue' \in [Jobs -> Queues]
    BY <1>3 DEF Enqueue
  <2>2. prep' \in [Jobs -> Preps]
    BY <1>3 DEF Enqueue
  <2>3. QED
    BY <1>3, <2>1, <2>2 DEF Enqueue
<1>4. ASSUME NEW j \in Jobs, PrepareMarksFailed(j) PROVE TypeOK'
  <2>1. SetStatus(j, "failed")
    BY <1>4 DEF PrepareMarksFailed
  <2>2. status' \in [Jobs -> Statuses] /\ lost' \in [Jobs -> 0 .. MaxLost]
    BY <2>1, SetStatusType
  <2>3. QED
    BY <1>4, <2>2 DEF PrepareMarksFailed
<1>5. ASSUME NEW j \in Jobs, Fetch(j) PROVE TypeOK'
  BY <1>5 DEF Fetch, At
<1>6. ASSUME NEW j \in Jobs, StartUpload(j) PROVE TypeOK'
  <2>1. SetStatus(j, "running")
    BY <1>6 DEF StartUpload
  <2>2. status' \in [Jobs -> Statuses] /\ lost' \in [Jobs -> 0 .. MaxLost]
    BY <2>1, SetStatusType
  <2>3. QED
    BY <1>6, <2>2 DEF StartUpload, At
<1>7. ASSUME NEW j \in Jobs, UploadSucceeds(j) PROVE TypeOK'
  BY <1>7 DEF UploadSucceeds, At
<1>8. ASSUME NEW j \in Jobs, UploadFails(j) PROVE TypeOK'
  BY <1>8 DEF UploadFails, Classify
<1>9. ASSUME NEW j \in Jobs, UploadTimesOut(j) PROVE TypeOK'
  BY <1>9 DEF UploadTimesOut, At
<1>10. ASSUME NEW j \in Jobs, MarkUploaded(j) PROVE TypeOK'
  <2>1. SetStatus(j, "uploaded")
    BY <1>10 DEF MarkUploaded
  <2>2. status' \in [Jobs -> Statuses] /\ lost' \in [Jobs -> 0 .. MaxLost]
    BY <2>1, SetStatusType
  <2>3. QED
    BY <1>10, <2>2 DEF MarkUploaded, At
<1>11. ASSUME NEW j \in Jobs, InsertVector(j) PROVE TypeOK'
  BY <1>11 DEF InsertVector, At
<1>12. ASSUME NEW j \in Jobs, MarkDone(j) PROVE TypeOK'
  <2>1. SetStatus(j, "done")
    BY <1>12 DEF MarkDone
  <2>2. status' \in [Jobs -> Statuses] /\ lost' \in [Jobs -> 0 .. MaxLost]
    BY <2>1, SetStatusType
  <2>3. QED
    BY <1>12, <2>2 DEF MarkDone, At
<1>13. ASSUME NEW j \in Jobs, MarkFailed(j) PROVE TypeOK'
  <2>1. SetStatus(j, "failed")
    BY <1>13 DEF MarkFailed
  <2>2. status' \in [Jobs -> Statuses] /\ lost' \in [Jobs -> 0 .. MaxLost]
    BY <2>1, SetStatusType
  <2>3. QED
    BY <1>13, <2>2 DEF MarkFailed, At
<1>14. ASSUME NEW j \in Jobs, Ack(j) PROVE TypeOK'
  BY <1>14 DEF Ack, At
<1>15. ASSUME NEW j \in Jobs, NEW k \in Tries, RegisterBlob(j, k) PROVE TypeOK'
  BY <1>15 DEF RegisterBlob, Sidecar
<1>16. ASSUME NEW j \in Jobs, NEW k \in Tries, CertifyBlob(j, k) PROVE TypeOK'
  BY <1>16 DEF CertifyBlob, Sidecar
<1>17. ASSUME NEW j \in Jobs, NEW k \in Tries, TransferBlob(j, k) PROVE TypeOK'
  BY <1>17 DEF TransferBlob, Sidecar
<1>18. ASSUME NEW j \in Jobs, NEW k \in Tries, Respond(j, k) PROVE TypeOK'
  BY <1>18 DEF Respond, Answers
<1>19. CASE Crash
  BY <1>19 DEF Crash
<1>20. CASE UNCHANGED vars
  BY <1>20 DEF vars
<1>21. QED
  BY <1>1, <1>2, <1>3, <1>4, <1>5, <1>6, <1>7, <1>8, <1>9, <1>10, <1>11,
     <1>12, <1>13, <1>14, <1>15, <1>16, <1>17, <1>18, <1>19, <1>20
     DEF Next, Preparation, Worker, Upload

(* Every step keeps the accounts of attempts.                              *)
LEMMA AttemptsStep == IInv /\ [Next]_vars => AttemptsInv'
<1>. SUFFICES ASSUME IInv, [Next]_vars PROVE AttemptsInv'
  OBVIOUS
<1>. USE MaxAttemptsAssumption, MaxCrashesAssumption, MaxLostAssumption
         DEF IInv, TypeOK, AttemptsInv, OriginInv, rowVars, jobVars, sideVars
<1>1. ASSUME NEW j \in Jobs, Accept(j) PROVE AttemptsInv'
  BY <1>1 DEF Accept
<1>2. ASSUME NEW j \in Jobs, PrepareFails(j) PROVE AttemptsInv'
  BY <1>2 DEF PrepareFails
<1>3. ASSUME NEW j \in Jobs, Enqueue(j) PROVE AttemptsInv'
  BY <1>3 DEF Enqueue
<1>4. ASSUME NEW j \in Jobs, PrepareMarksFailed(j) PROVE AttemptsInv'
  BY <1>4 DEF PrepareMarksFailed, SetStatus
<1>5. ASSUME NEW j \in Jobs, Fetch(j) PROVE AttemptsInv'
  BY <1>5 DEF Fetch, At
<1>6. ASSUME NEW j \in Jobs, StartUpload(j) PROVE AttemptsInv'
  BY <1>6 DEF StartUpload, SetStatus, At
<1>7. ASSUME NEW j \in Jobs, UploadSucceeds(j) PROVE AttemptsInv'
  BY <1>7 DEF UploadSucceeds, At
<1>8. ASSUME NEW j \in Jobs, UploadFails(j) PROVE AttemptsInv'
  BY <1>8 DEF UploadFails, Classify
<1>9. ASSUME NEW j \in Jobs, UploadTimesOut(j) PROVE AttemptsInv'
  BY <1>9 DEF UploadTimesOut, At
<1>10. ASSUME NEW j \in Jobs, MarkUploaded(j) PROVE AttemptsInv'
  BY <1>10 DEF MarkUploaded, SetStatus, At
<1>11. ASSUME NEW j \in Jobs, InsertVector(j) PROVE AttemptsInv'
  BY <1>11 DEF InsertVector, At
<1>12. ASSUME NEW j \in Jobs, MarkDone(j) PROVE AttemptsInv'
  BY <1>12 DEF MarkDone, SetStatus, At
<1>13. ASSUME NEW j \in Jobs, MarkFailed(j) PROVE AttemptsInv'
  BY <1>13 DEF MarkFailed, SetStatus, At
<1>14. ASSUME NEW j \in Jobs, Ack(j) PROVE AttemptsInv'
  BY <1>14 DEF Ack, At
<1>15. ASSUME NEW j \in Jobs, NEW k \in Tries, RegisterBlob(j, k) PROVE AttemptsInv'
  BY <1>15 DEF RegisterBlob, Sidecar
<1>16. ASSUME NEW j \in Jobs, NEW k \in Tries, CertifyBlob(j, k) PROVE AttemptsInv'
  BY <1>16 DEF CertifyBlob, Sidecar
<1>17. ASSUME NEW j \in Jobs, NEW k \in Tries, TransferBlob(j, k) PROVE AttemptsInv'
  BY <1>17 DEF TransferBlob, Sidecar
<1>18. ASSUME NEW j \in Jobs, NEW k \in Tries, Respond(j, k) PROVE AttemptsInv'
  BY <1>18 DEF Respond, Answers
<1>19. CASE Crash
  BY <1>19 DEF Crash
<1>20. CASE UNCHANGED vars
  BY <1>20 DEF vars
<1>21. QED
  BY <1>1, <1>2, <1>3, <1>4, <1>5, <1>6, <1>7, <1>8, <1>9, <1>10, <1>11,
     <1>12, <1>13, <1>14, <1>15, <1>16, <1>17, <1>18, <1>19, <1>20
     DEF Next, Preparation, Worker, Upload

(* No step makes anything of a job that was not accepted.                  *)
LEMMA OriginStep == IInv /\ [Next]_vars => OriginInv'
<1>. SUFFICES ASSUME IInv, [Next]_vars PROVE OriginInv'
  OBVIOUS
<1>. USE MaxAttemptsAssumption, MaxCrashesAssumption, MaxLostAssumption
         DEF IInv, TypeOK, AttemptsInv, OriginInv, rowVars, jobVars, sideVars,
             Tries
<1>1. ASSUME NEW j \in Jobs, Accept(j) PROVE OriginInv'
  BY <1>1 DEF Accept
<1>2. ASSUME NEW j \in Jobs, PrepareFails(j) PROVE OriginInv'
  BY <1>2 DEF PrepareFails
<1>3. ASSUME NEW j \in Jobs, Enqueue(j) PROVE OriginInv'
  BY <1>3 DEF Enqueue
<1>4. ASSUME NEW j \in Jobs, PrepareMarksFailed(j) PROVE OriginInv'
  BY <1>4 DEF PrepareMarksFailed, SetStatus
<1>5. ASSUME NEW j \in Jobs, Fetch(j) PROVE OriginInv'
  BY <1>5 DEF Fetch, At
<1>6. ASSUME NEW j \in Jobs, StartUpload(j) PROVE OriginInv'
  BY <1>6 DEF StartUpload, SetStatus, At
<1>7. ASSUME NEW j \in Jobs, UploadSucceeds(j) PROVE OriginInv'
  BY <1>7 DEF UploadSucceeds, At
<1>8. ASSUME NEW j \in Jobs, UploadFails(j) PROVE OriginInv'
  BY <1>8 DEF UploadFails, Classify
<1>9. ASSUME NEW j \in Jobs, UploadTimesOut(j) PROVE OriginInv'
  BY <1>9 DEF UploadTimesOut, At
<1>10. ASSUME NEW j \in Jobs, MarkUploaded(j) PROVE OriginInv'
  BY <1>10 DEF MarkUploaded, SetStatus, At
<1>11. ASSUME NEW j \in Jobs, InsertVector(j) PROVE OriginInv'
  BY <1>11 DEF InsertVector, At
<1>12. ASSUME NEW j \in Jobs, MarkDone(j) PROVE OriginInv'
  BY <1>12 DEF MarkDone, SetStatus, At
<1>13. ASSUME NEW j \in Jobs, MarkFailed(j) PROVE OriginInv'
  BY <1>13 DEF MarkFailed, SetStatus, At
<1>14. ASSUME NEW j \in Jobs, Ack(j) PROVE OriginInv'
  BY <1>14 DEF Ack, At
<1>15. ASSUME NEW j \in Jobs, NEW k \in Tries, RegisterBlob(j, k) PROVE OriginInv'
  BY <1>15 DEF RegisterBlob, Sidecar
<1>16. ASSUME NEW j \in Jobs, NEW k \in Tries, CertifyBlob(j, k) PROVE OriginInv'
  BY <1>16 DEF CertifyBlob, Sidecar
<1>17. ASSUME NEW j \in Jobs, NEW k \in Tries, TransferBlob(j, k) PROVE OriginInv'
  BY <1>17 DEF TransferBlob, Sidecar
<1>18. ASSUME NEW j \in Jobs, NEW k \in Tries, Respond(j, k) PROVE OriginInv'
  BY <1>18 DEF Respond, Answers
<1>19. CASE Crash
  BY <1>19 DEF Crash
<1>20. CASE UNCHANGED vars
  BY <1>20 DEF vars
<1>21. QED
  BY <1>1, <1>2, <1>3, <1>4, <1>5, <1>6, <1>7, <1>8, <1>9, <1>10, <1>11,
     <1>12, <1>13, <1>14, <1>15, <1>16, <1>17, <1>18, <1>19, <1>20
     DEF Next, Preparation, Worker, Upload

(* Every step keeps what a handler has achieved.                           *)
LEMMA ProgressStep == IInv /\ [Next]_vars => ProgressInv'
<1>. SUFFICES ASSUME IInv, [Next]_vars PROVE ProgressInv'
  OBVIOUS
<1>. USE MaxAttemptsAssumption, MaxCrashesAssumption, MaxLostAssumption
         DEF IInv, TypeOK, AttemptsInv, ProgressInv, rowVars, jobVars,
             sideVars, Tries
<1>1. ASSUME NEW j \in Jobs, Accept(j) PROVE ProgressInv'
  BY <1>1, OwnedUnchanged DEF Accept
<1>2. ASSUME NEW j \in Jobs, PrepareFails(j) PROVE ProgressInv'
  BY <1>2, OwnedUnchanged DEF PrepareFails
<1>3. ASSUME NEW j \in Jobs, Enqueue(j) PROVE ProgressInv'
  BY <1>3, OwnedUnchanged DEF Enqueue
<1>4. ASSUME NEW j \in Jobs, PrepareMarksFailed(j) PROVE ProgressInv'
  BY <1>4, OwnedUnchanged DEF PrepareMarksFailed, SetStatus
<1>5. ASSUME NEW j \in Jobs, Fetch(j) PROVE ProgressInv'
  BY <1>5, OwnedUnchanged DEF Fetch, At
<1>6. ASSUME NEW j \in Jobs, StartUpload(j) PROVE ProgressInv'
  BY <1>6, OwnedUnchanged DEF StartUpload, SetStatus, At
<1>7. ASSUME NEW j \in Jobs, UploadSucceeds(j) PROVE ProgressInv'
  <2>1. \A i \in Jobs : Owned(i)' = Owned(i)
    BY <1>7, OwnedUnchanged DEF UploadSucceeds
  <2>2. attempts[j] \in Tries
    <3>1. pc[j] = "upload"
      BY <1>7 DEF UploadSucceeds, At
    <3>2. queue[j] = "Running"
      BY <3>1
    <3>3. attempts[j] > 0 /\ attempts[j] \in 0 .. (MaxAttempts + MaxCrashes)
      BY <3>2
    <3>4. QED
      BY <3>3
  <2>3. Owned(j)
    BY <1>7, <2>2 DEF Owned, UploadSucceeds
  <2>4. QED
    BY <1>7, <2>1, <2>3 DEF UploadSucceeds, At
<1>8. ASSUME NEW j \in Jobs, UploadFails(j) PROVE ProgressInv'
  BY <1>8, OwnedUnchanged DEF UploadFails, Classify
<1>9. ASSUME NEW j \in Jobs, UploadTimesOut(j) PROVE ProgressInv'
  BY <1>9, OwnedUnchanged DEF UploadTimesOut, At
<1>10. ASSUME NEW j \in Jobs, MarkUploaded(j) PROVE ProgressInv'
  BY <1>10, OwnedUnchanged DEF MarkUploaded, SetStatus, At
<1>11. ASSUME NEW j \in Jobs, InsertVector(j) PROVE ProgressInv'
  <2>1. \A i \in Jobs : Owned(i)' = Owned(i)
    BY <1>11, OwnedUnchanged DEF InsertVector
  <2>2. UNCHANGED <<sideVars, status>>
    BY <1>11 DEF InsertVector
  <2>3. Owned(j)
    BY <1>11 DEF InsertVector, At
  <2>4. vec' \in {vec, [vec EXCEPT ![j] = TRUE]}
    BY <1>11 DEF InsertVector
  <2>5. pc' \in {[pc EXCEPT ![j] = "finish"], [pc EXCEPT ![j] = "failTransient"]}
    BY <1>11 DEF InsertVector, At
  <2>6. pc'[j] = "finish" => vec'[j]
    BY <1>11 DEF InsertVector, At
  <2>7. \A i \in Jobs : i # j => pc'[i] = pc[i] /\ vec'[i] = vec[i]
    BY <2>4, <2>5
  <2>8. pc'[j] \in {"finish", "failTransient"}
    BY <2>5
  <2>9. \A i \in Jobs : vec[i] => vec'[i]
    BY <2>4
  <2>10. QED
    BY <2>1, <2>2, <2>3, <2>6, <2>7, <2>8, <2>9
<1>12. ASSUME NEW j \in Jobs, MarkDone(j) PROVE ProgressInv'
  BY <1>12, OwnedUnchanged DEF MarkDone, SetStatus, At
<1>13. ASSUME NEW j \in Jobs, MarkFailed(j) PROVE ProgressInv'
  BY <1>13, OwnedUnchanged DEF MarkFailed, SetStatus, At
<1>14. ASSUME NEW j \in Jobs, Ack(j) PROVE ProgressInv'
  BY <1>14, OwnedUnchanged DEF Ack, At
<1>15. ASSUME NEW j \in Jobs, NEW k \in Tries, RegisterBlob(j, k) PROVE ProgressInv'
  <2>1. \A i \in Jobs : Owned(i) => Owned(i)'
    BY <1>15, OwnedKept DEF RegisterBlob, Sidecar, Objects
  <2>2. QED
    BY <1>15, <2>1 DEF RegisterBlob, Sidecar
<1>16. ASSUME NEW j \in Jobs, NEW k \in Tries, CertifyBlob(j, k) PROVE ProgressInv'
  <2>1. \A i \in Jobs : Owned(i) => Owned(i)'
    BY <1>16, OwnedKept DEF CertifyBlob, Sidecar, Objects
  <2>2. QED
    BY <1>16, <2>1 DEF CertifyBlob, Sidecar
<1>17. ASSUME NEW j \in Jobs, NEW k \in Tries, TransferBlob(j, k) PROVE ProgressInv'
  <2>1. \A i \in Jobs : Owned(i) => Owned(i)'
    BY <1>17, OwnedKept DEF TransferBlob, Sidecar, Objects
  <2>2. QED
    BY <1>17, <2>1 DEF TransferBlob, Sidecar
<1>18. ASSUME NEW j \in Jobs, NEW k \in Tries, Respond(j, k) PROVE ProgressInv'
  <2>1. \A i \in Jobs : Owned(i)' = Owned(i)
    BY <1>18, OwnedUnchanged DEF Respond
  <2>2. PICK r \in Answers(j, k) :
          req' = [req EXCEPT ![j][k] =
                    IF pc[j] = "upload" /\ attempts[j] = k THEN r ELSE "none"]
    BY <1>18 DEF Respond
  <2>3. r = "ok" => obj[j][k] = "owned"
    BY <2>2 DEF Answers, Objects
  <2>4. QED
    BY <1>18, <2>1, <2>2, <2>3 DEF Respond
<1>19. CASE Crash
  BY <1>19, OwnedUnchanged DEF Crash
<1>20. CASE UNCHANGED vars
  BY <1>20, OwnedUnchanged DEF vars
<1>21. QED
  BY <1>1, <1>2, <1>3, <1>4, <1>5, <1>6, <1>7, <1>8, <1>9, <1>10, <1>11,
     <1>12, <1>13, <1>14, <1>15, <1>16, <1>17, <1>18, <1>19, <1>20
     DEF Next, Preparation, Worker, Upload

(* Every step keeps what the row says.                                     *)
LEMMA ReportStep == IInv /\ [Next]_vars => ReportInv'
<1>. SUFFICES ASSUME IInv, [Next]_vars PROVE ReportInv'
  OBVIOUS
<1>. USE MaxAttemptsAssumption, MaxCrashesAssumption, MaxLostAssumption
         DEF IInv, TypeOK, AttemptsInv, OriginInv, ProgressInv, ReportInv,
             rowVars, jobVars, sideVars, Settled
<1>1. ASSUME NEW j \in Jobs, Accept(j) PROVE ReportInv'
  BY <1>1 DEF Accept
<1>2. ASSUME NEW j \in Jobs, PrepareFails(j) PROVE ReportInv'
  BY <1>2 DEF PrepareFails
<1>3. ASSUME NEW j \in Jobs, Enqueue(j) PROVE ReportInv'
  BY <1>3 DEF Enqueue
<1>4. ASSUME NEW j \in Jobs, PrepareMarksFailed(j) PROVE ReportInv'
  BY <1>4 DEF PrepareMarksFailed, SetStatus
<1>5. ASSUME NEW j \in Jobs, Fetch(j) PROVE ReportInv'
  BY <1>5 DEF Fetch, At
<1>6. ASSUME NEW j \in Jobs, StartUpload(j) PROVE ReportInv'
  BY <1>6 DEF StartUpload, SetStatus, At
<1>7. ASSUME NEW j \in Jobs, UploadSucceeds(j) PROVE ReportInv'
  BY <1>7 DEF UploadSucceeds, At
<1>8. ASSUME NEW j \in Jobs, UploadFails(j) PROVE ReportInv'
  BY <1>8 DEF UploadFails, Classify
<1>9. ASSUME NEW j \in Jobs, UploadTimesOut(j) PROVE ReportInv'
  BY <1>9 DEF UploadTimesOut, At
<1>10. ASSUME NEW j \in Jobs, MarkUploaded(j) PROVE ReportInv'
  BY <1>10 DEF MarkUploaded, SetStatus, At
<1>11. ASSUME NEW j \in Jobs, InsertVector(j) PROVE ReportInv'
  BY <1>11 DEF InsertVector, At
<1>12. ASSUME NEW j \in Jobs, MarkDone(j) PROVE ReportInv'
  BY <1>12 DEF MarkDone, SetStatus, At
<1>13. ASSUME NEW j \in Jobs, MarkFailed(j) PROVE ReportInv'
  <2>1. CASE status' = [status EXCEPT ![j] = "failed"] /\ UNCHANGED lost
    BY <1>13, <2>1 DEF MarkFailed, At
  <2>2. CASE lost[j] < MaxLost /\ lost' = [lost EXCEPT ![j] = @ + 1] /\ UNCHANGED status
    BY <1>13, <2>2 DEF MarkFailed, At
  <2>3. QED
    BY <1>13, <2>1, <2>2 DEF MarkFailed, SetStatus
<1>14. ASSUME NEW j \in Jobs, Ack(j) PROVE ReportInv'
  BY <1>14 DEF Ack, At
<1>15. ASSUME NEW j \in Jobs, NEW k \in Tries, RegisterBlob(j, k) PROVE ReportInv'
  BY <1>15 DEF RegisterBlob, Sidecar
<1>16. ASSUME NEW j \in Jobs, NEW k \in Tries, CertifyBlob(j, k) PROVE ReportInv'
  BY <1>16 DEF CertifyBlob, Sidecar
<1>17. ASSUME NEW j \in Jobs, NEW k \in Tries, TransferBlob(j, k) PROVE ReportInv'
  BY <1>17 DEF TransferBlob, Sidecar
<1>18. ASSUME NEW j \in Jobs, NEW k \in Tries, Respond(j, k) PROVE ReportInv'
  BY <1>18 DEF Respond, Answers
<1>19. CASE Crash
  BY <1>19 DEF Crash
<1>20. CASE UNCHANGED vars
  BY <1>20 DEF vars
<1>21. QED
  BY <1>1, <1>2, <1>3, <1>4, <1>5, <1>6, <1>7, <1>8, <1>9, <1>10, <1>11,
     <1>12, <1>13, <1>14, <1>15, <1>16, <1>17, <1>18, <1>19, <1>20
     DEF Next, Preparation, Worker, Upload

(* No step closes a request that its handler still waits for.              *)
LEMMA WaitStep == IInv /\ [Next]_vars => WaitInv'
<1>. SUFFICES ASSUME IInv, [Next]_vars PROVE WaitInv'
  OBVIOUS
<1>. USE DEF IInv, TypeOK, WaitInv, rowVars, jobVars, sideVars
<1>1. ASSUME NEW i \in Jobs, StartUpload(i) PROVE WaitInv'
  <2>1. pc[i] = "start"
    BY <1>1 DEF StartUpload, At
  <2>2. attempts[i] \in Tries
    <3>1. attempts[i] \in 0 .. (MaxAttempts + MaxCrashes) /\ attempts[i] > 0
      BY <2>1 DEF AttemptsInv
    <3>2. QED
      BY <3>1, MaxAttemptsAssumption, MaxCrashesAssumption DEF Tries
  <2>3. req'[i][attempts'[i]] = "working"
    BY <1>1, <2>2 DEF StartUpload
  <2>4. \A j \in Jobs : j # i => /\ req'[j] = req[j] /\ pc'[j] = pc[j]
                                 /\ attempts'[j] = attempts[j]
    BY <1>1 DEF StartUpload, At
  <2>5. QED
    BY <2>3, <2>4
<1>2. ASSUME NEW i \in Jobs, NEW k \in Tries, Respond(i, k) PROVE WaitInv'
  <2>1. PICK r \in Answers(i, k) :
          req' = [req EXCEPT ![i][k] =
                    IF pc[i] = "upload" /\ attempts[i] = k THEN r ELSE "none"]
    BY <1>2 DEF Respond
  <2>2. r # "none"
    BY DEF Answers, Objects
  <2>3. UNCHANGED <<pc, attempts>>
    BY <1>2 DEF Respond
  <2>4. \A j \in Jobs : j # i => req'[j] = req[j]
    BY <2>1
  <2>5. pc[i] = "upload" => req'[i][attempts[i]] # "none"
    BY <2>1, <2>2
  <2>6. QED
    BY <2>3, <2>4, <2>5
<1>3. ASSUME NEW i \in Jobs, UploadSucceeds(i) \/ UploadFails(i) PROVE WaitInv'
  <2>1. pc'[i] # "upload" /\ UNCHANGED attempts
    BY <1>3 DEF UploadSucceeds, UploadFails, Classify, At
  <2>2. \A j \in Jobs : j # i => req'[j] = req[j] /\ pc'[j] = pc[j]
    BY <1>3 DEF UploadSucceeds, UploadFails, At
  <2>3. QED
    BY <2>1, <2>2
<1>4. ASSUME NEW i \in Jobs, UploadTimesOut(i) \/ MarkUploaded(i) \/ InsertVector(i)
                             \/ MarkDone(i) \/ MarkFailed(i) \/ Ack(i)
      PROVE  WaitInv'
  <2>1. pc'[i] # "upload" /\ UNCHANGED <<attempts, req>>
    BY <1>4 DEF UploadTimesOut, MarkUploaded, InsertVector, MarkDone, MarkFailed, Ack, At
  <2>2. \A j \in Jobs : j # i => pc'[j] = pc[j]
    BY <1>4 DEF UploadTimesOut, MarkUploaded, InsertVector, MarkDone, MarkFailed, Ack, At
  <2>3. QED
    BY <2>1, <2>2
<1>5. ASSUME NEW i \in Jobs, Fetch(i) PROVE WaitInv'
  <2>1. pc'[i] # "upload" /\ UNCHANGED req
    BY <1>5 DEF Fetch, At
  <2>2. \A j \in Jobs : j # i => pc'[j] = pc[j] /\ attempts'[j] = attempts[j]
    BY <1>5 DEF Fetch, At
  <2>3. QED
    BY <2>1, <2>2
<1>6. CASE Crash
  BY <1>6 DEF Crash
<1>7. CASE UNCHANGED <<pc, attempts, req>>
  BY <1>7
<1>8. QED
  BY <1>1, <1>2, <1>3, <1>4, <1>5, <1>6, <1>7
     DEF Next, Preparation, Worker, Upload, Accept, PrepareFails, Enqueue,
         PrepareMarksFailed, RegisterBlob, CertifyBlob, TransferBlob, Sidecar, vars

(* The inductive invariant holds of every behaviour.                      *)
THEOREM Invariance == Spec => []IInv
<1>1. Init => IInv
  BY InitIInv
<1>2. IInv /\ [Next]_vars => IInv'
  BY TypeStep, AttemptsStep, OriginStep, ProgressStep, ReportStep, WaitStep
     DEF IInv
<1>3. QED
  BY <1>1, <1>2, PTL DEF Spec

(* The variables of the pipeline keep their types: in particular no        *)
(* execution runs beyond the array of sidecar requests.                    *)
THEOREM TypeCorrectness == Spec => []TypeOK
BY Invariance, PTL DEF IInv

(* Only blobs that belong to their owner on chain are indexed.             *)
THEOREM IndexSafety == Spec => []IndexedIsOwned
<1>1. IInv => IndexedIsOwned
  BY DEF IInv, ProgressInv, IndexedIsOwned
<1>2. QED
  BY <1>1, Invariance, PTL

(* A row that says "done" belongs to a recallable memory.                  *)
THEOREM DoneSafety == Spec => []DoneIsRecallable
<1>1. IInv => DoneIsRecallable
  BY DEF IInv, ProgressInv, DoneIsRecallable
<1>2. QED
  BY <1>1, Invariance, PTL

(* A job that Apalis is through with has its end in its row.               *)
THEOREM ReportSafety == Spec => []FinishedIsReported
<1>1. IInv => FinishedIsReported
  BY DEF IInv, ReportInv, FinishedIsReported
<1>2. QED
  BY <1>1, Invariance, PTL

(* Executions beyond the attempts of Apalis are paid for by crashes.       *)
THEOREM RetryBound == Spec => []RetryBudget
<1>1. IInv => RetryBudget
  BY DEF IInv, AttemptsInv, RetryBudget
<1>2. QED
  BY <1>1, Invariance, PTL

(* While nothing crashed, only a preparation task that took a stored push  *)
(* for a failed one takes "done" back: the worker of a job that is done is *)
(* past its last UPDATE.                                                   *)
THEOREM DoneFinality == Spec => DoneIsFinal
<1>. DEFINE Kept(j) == status[j] = "done" /\ status'[j] # "done"
                       => crashes > 0 \/ prep[j] = "failing"
<1>1. IInv /\ [Next]_vars => \A j \in Jobs : Kept(j)
  <2>. SUFFICES ASSUME IInv, [Next]_vars, NEW j \in Jobs,
                       status[j] = "done", status'[j] # "done", crashes = 0
                PROVE  prep[j] = "failing"
    BY MaxCrashesAssumption DEF IInv, TypeOK
  <2>1. pc[j] \in {"idle", "ackOk"}
    BY DEF IInv, ReportInv
  <2>2. ASSUME NEW i \in Jobs, Accept(i) PROVE i # j
    BY <2>2 DEF Accept
  <2>3. ASSUME NEW i \in Jobs, Accept(i) PROVE FALSE
    BY <2>2, <2>3 DEF Accept, IInv, TypeOK
  <2>4. ASSUME NEW i \in Jobs, PrepareMarksFailed(i) PROVE prep[j] = "failing"
    BY <2>4 DEF PrepareMarksFailed, SetStatus, IInv, TypeOK
  <2>5. ASSUME NEW i \in Jobs,
               StartUpload(i) \/ MarkUploaded(i) \/ MarkDone(i) \/ MarkFailed(i)
        PROVE  FALSE
    BY <2>1, <2>5 DEF StartUpload, MarkUploaded, MarkDone, MarkFailed, SetStatus,
                      At, IInv, TypeOK
  <2>6. status' # status
    OBVIOUS
  <2>7. QED
    BY <2>3, <2>4, <2>5, <2>6
       DEF Next, Preparation, Worker, Upload, PrepareFails, Enqueue, Fetch,
           UploadSucceeds, UploadFails, UploadTimesOut, InsertVector, Ack, Sidecar,
           RegisterBlob, CertifyBlob, TransferBlob, Respond, Crash, vars, rowVars
<1>2. QED
  BY <1>1, Invariance, PTL DEF Spec, DoneIsFinal

-----------------------------------------------------------------------------
(* Progress: what WorkLeft counts down, and that something always may.     *)

(* One execution less pays for the whole of the next execution.            *)
LEMMA ExecutionPays ==
  ASSUME NEW m \in Nat, NEW a \in 0 .. m, a + 1 <= m, NEW p \in Nat
  PROVE  7 * (m - (a + 1)) + 6 + p < 7 * (m - a) + 0 + p
OBVIOUS

LEMMA SevenTimes ==
  ASSUME NEW m \in Nat, NEW a \in 0 .. m
  PROVE  7 * (m - a) \in Nat
OBVIOUS

(* The summands of WorkLeft are natural numbers.                           *)
LEMMA WorkIsNat ==
  ASSUME TypeOK, NEW j \in Jobs
  PROVE  /\ MaxAttempts + MaxCrashes \in Nat
         /\ attempts[j] \in 0 .. (MaxAttempts + MaxCrashes)
         /\ 7 * ((MaxAttempts + MaxCrashes) - attempts[j]) \in Nat
         /\ StepsLeft(pc[j]) \in 0 .. 6
         /\ PrepLeft(prep[j]) \in 0 .. 3
<1>1. MaxAttempts + MaxCrashes \in Nat
  BY MaxAttemptsAssumption, MaxCrashesAssumption
<1>2. attempts[j] \in 0 .. (MaxAttempts + MaxCrashes)
  BY DEF TypeOK
<1>3. 7 * ((MaxAttempts + MaxCrashes) - attempts[j]) \in Nat
  <2>. DEFINE m == MaxAttempts + MaxCrashes
              a == attempts[j]
  <2>1. m \in Nat /\ a \in 0 .. m
    BY <1>1, <1>2
  <2>. HIDE DEF m, a
  <2>2. 7 * (m - a) \in Nat
    BY <2>1, SevenTimes
  <2>3. QED
    BY <2>2 DEF m, a
<1>4. StepsLeft(pc[j]) \in 0 .. 6
  BY DEF TypeOK, Counters, StepsLeft
<1>5. PrepLeft(prep[j]) \in 0 .. 3
  BY DEF TypeOK, Preps, PrepLeft
<1>6. QED
  BY <1>1, <1>2, <1>3, <1>4, <1>5

(* A job whose attempts, position and task stay has as much left to do.    *)
LEMMA WorkStays ==
  ASSUME TypeOK, NEW j \in Jobs, attempts'[j] = attempts[j], pc'[j] = pc[j],
         prep'[j] = prep[j]
  PROVE  WorkLeft(j)' <= WorkLeft(j)
<1>1. WorkLeft(j)' = WorkLeft(j)
  BY DEF WorkLeft
<1>2. WorkLeft(j) \in Nat
  BY WorkIsNat DEF WorkLeft
<1>3. QED
  BY <1>1, <1>2

(* A step that only lowers StepsLeft, or only PrepLeft, lowers the sum.    *)
LEMMA StepLowers ==
  ASSUME TypeOK, NEW j \in Jobs, attempts'[j] = attempts[j],
         StepsLeft(pc'[j]) \in 0 .. 6, PrepLeft(prep'[j]) \in 0 .. 3,
         StepsLeft(pc'[j]) <= StepsLeft(pc[j]), PrepLeft(prep'[j]) <= PrepLeft(prep[j])
  PROVE  /\ WorkLeft(j)' <= WorkLeft(j)
         /\ StepsLeft(pc'[j]) < StepsLeft(pc[j]) \/ PrepLeft(prep'[j]) < PrepLeft(prep[j])
              => WorkLeft(j)' < WorkLeft(j)
<1>. DEFINE w == 7 * ((MaxAttempts + MaxCrashes) - attempts[j])
            s == StepsLeft(pc[j])
            t == StepsLeft(pc'[j])
            p == PrepLeft(prep[j])
            q == PrepLeft(prep'[j])
<1>1. w \in Nat /\ s \in 0 .. 6 /\ t \in 0 .. 6 /\ p \in 0 .. 3 /\ q \in 0 .. 3
  BY WorkIsNat
<1>2. WorkLeft(j) = w + s + p /\ WorkLeft(j)' = w + t + q
  BY DEF WorkLeft, StepsLeft, PrepLeft
<1>3. t <= s /\ q <= p
  OBVIOUS
<1>. HIDE DEF w, s, t, p, q
<1>4. /\ w + t + q <= w + s + p
      /\ t < s \/ q < p => w + t + q < w + s + p
  BY <1>1, <1>3
<1>5. QED
  BY <1>2, <1>4 DEF s, t, p, q

(* Fetching a job for its next execution.                                  *)
LEMMA FetchLowers ==
  ASSUME IInv, NEW j \in Jobs, Fetch(j)
  PROVE  WorkLeft(j)' < WorkLeft(j)
<1>. DEFINE m == MaxAttempts + MaxCrashes
            p == PrepLeft(prep[j])
<1>1. m \in Nat /\ attempts[j] \in 0 .. m /\ p \in Nat
  BY WorkIsNat DEF IInv
<1>2. attempts[j] + 1 <= m
  <2>1. crashes \in 0 .. MaxCrashes /\ MaxAttempts \in Nat /\ MaxCrashes \in Nat
    BY MaxAttemptsAssumption, MaxCrashesAssumption DEF IInv, TypeOK
  <2>2. attempts[j] < MaxAttempts + crashes
    BY <2>1, <1>1 DEF Fetch, IInv, AttemptsInv
  <2>3. QED
    BY <2>1, <2>2, <1>1
<1>3. WorkLeft(j) = 7 * (m - attempts[j]) + 0 + p
  <2>1. StepsLeft(pc[j]) = 0
    BY DEF Fetch, At, StepsLeft
  <2>2. WorkLeft(j) = 7 * (m - attempts[j]) + StepsLeft(pc[j]) + p
    BY DEF WorkLeft
  <2>. HIDE DEF p, m
  <2>3. QED
    BY <2>1, <2>2
<1>4. WorkLeft(j)' = 7 * (m - (attempts[j] + 1)) + 6 + p
  <2>1. attempts'[j] = attempts[j] + 1 /\ pc'[j] = "start" /\ prep' = prep
    BY DEF Fetch, At, IInv, TypeOK
  <2>2. StepsLeft("start") = 6
    BY DEF StepsLeft
  <2>3. WorkLeft(j)' = 7 * (m - attempts'[j]) + StepsLeft(pc'[j]) + p
    BY <2>1 DEF WorkLeft
  <2>. HIDE DEF p, m
  <2>4. QED
    BY <2>1, <2>2, <2>3
<1>. HIDE DEF m, p
<1>5. QED
  BY <1>1, <1>2, <1>3, <1>4, ExecutionPays

(* Each step of the worker, of the task, of the route.                     *)
LEMMA WorkerLowers ==
  ASSUME IInv, NEW j \in Jobs, Worker(j)
  PROVE  /\ WorkLeft(j)' < WorkLeft(j)
         /\ \A i \in Jobs : i # j => WorkLeft(i)' <= WorkLeft(i)
<1>. USE DEF jobVars
<1>1. \A i \in Jobs : i # j => /\ attempts'[i] = attempts[i] /\ pc'[i] = pc[i]
                               /\ prep'[i] = prep[i]
  BY DEF Worker, Fetch, StartUpload, UploadSucceeds, UploadFails, UploadTimesOut,
         MarkUploaded, InsertVector, MarkDone, MarkFailed, Ack, At, IInv, TypeOK
<1>2. \A i \in Jobs : i # j => WorkLeft(i)' <= WorkLeft(i)
  BY <1>1, WorkStays DEF IInv
<1>3. CASE Fetch(j)
  BY <1>2, <1>3, FetchLowers
<1>4. CASE ~Fetch(j)
  <2>1. attempts' = attempts /\ prep' = prep
    BY <1>4 DEF Worker, StartUpload, UploadSucceeds, UploadFails, UploadTimesOut,
         MarkUploaded, InsertVector, MarkDone, MarkFailed, Ack
  <2>2. /\ StepsLeft(pc'[j]) \in 0 .. 6
        /\ StepsLeft(pc'[j]) < StepsLeft(pc[j])
    <3>1. CASE StartUpload(j) \/ MarkUploaded(j) \/ MarkDone(j)
      BY <3>1 DEF StartUpload, MarkUploaded, MarkDone, At, StepsLeft, IInv, TypeOK
    <3>2. CASE UploadSucceeds(j) \/ UploadFails(j) \/ UploadTimesOut(j)
      BY <3>2 DEF UploadSucceeds, UploadFails, UploadTimesOut, Classify, At, StepsLeft,
                  IInv, TypeOK
    <3>3. CASE InsertVector(j)
      BY <3>3 DEF InsertVector, At, StepsLeft, IInv, TypeOK
    <3>4. CASE MarkFailed(j) \/ Ack(j)
      BY <3>4 DEF MarkFailed, Ack, At, StepsLeft, IInv, TypeOK
    <3>5. QED
      BY <1>4, <3>1, <3>2, <3>3, <3>4 DEF Worker
  <2>3. PrepLeft(prep[j]) \in 0 .. 3 /\ StepsLeft(pc[j]) \in 0 .. 6
    BY WorkIsNat DEF IInv
  <2>4. WorkLeft(j)' < WorkLeft(j)
    BY <2>1, <2>2, <2>3, StepLowers DEF IInv
  <2>5. QED
    BY <1>2, <2>4
<1>5. QED
  BY <1>3, <1>4

LEMMA PreparationLowers ==
  ASSUME IInv, NEW j \in Jobs, Accept(j) \/ Preparation(j)
  PROVE  /\ WorkLeft(j)' <= WorkLeft(j)
         /\ Preparation(j) => WorkLeft(j)' < WorkLeft(j)
         /\ \A i \in Jobs : i # j => WorkLeft(i)' <= WorkLeft(i)
<1>1. pc' = pc /\ attempts' = attempts
  BY DEF Accept, Preparation, PrepareFails, Enqueue, PrepareMarksFailed, jobVars
<1>2. \A i \in Jobs : i # j => prep'[i] = prep[i]
  BY DEF Accept, Preparation, PrepareFails, Enqueue, PrepareMarksFailed, IInv, TypeOK
<1>3. \A i \in Jobs : i # j => WorkLeft(i)' <= WorkLeft(i)
  BY <1>1, <1>2, WorkStays DEF IInv
<1>4. Preparation(j) => /\ PrepLeft(prep'[j]) \in 0 .. 3
                        /\ PrepLeft(prep'[j]) < PrepLeft(prep[j])
  BY DEF Preparation, PrepareFails, Enqueue, PrepareMarksFailed, PrepLeft, IInv, TypeOK
<1>5. Accept(j) => PrepLeft(prep'[j]) \in 0 .. 3 /\ PrepLeft(prep'[j]) <= PrepLeft(prep[j])
  <2>1. ASSUME Accept(j) PROVE prep[j] = "none"
    BY <2>1 DEF Accept, IInv, OriginInv
  <2>2. QED
    BY <2>1 DEF Accept, PrepLeft, IInv, TypeOK
<1>6. PrepLeft(prep[j]) \in 0 .. 3 /\ StepsLeft(pc[j]) \in 0 .. 6
  BY WorkIsNat DEF IInv
<1>7. PrepLeft(prep'[j]) \in 0 .. 3 /\ PrepLeft(prep'[j]) <= PrepLeft(prep[j])
  BY <1>4, <1>5, <1>6
<1>8. /\ WorkLeft(j)' <= WorkLeft(j)
      /\ PrepLeft(prep'[j]) < PrepLeft(prep[j]) => WorkLeft(j)' < WorkLeft(j)
  BY <1>1, <1>6, <1>7, StepLowers DEF IInv
<1>9. QED
  BY <1>3, <1>4, <1>8

(* A crash only takes work away: the executions it costs were granted.     *)
LEMMA CrashLowers ==
  ASSUME IInv, Crash, NEW j \in Jobs
  PROVE  WorkLeft(j)' <= WorkLeft(j)
<1>1. attempts' = attempts /\ pc'[j] = "idle"
      /\ prep'[j] = IF prep[j] = "none" THEN "none" ELSE "over"
  BY DEF Crash
<1>2. StepsLeft(pc'[j]) = 0
  BY <1>1 DEF StepsLeft
<1>3. PrepLeft(prep[j]) \in 0 .. 3 /\ StepsLeft(pc[j]) \in 0 .. 6
  BY WorkIsNat DEF IInv
<1>4. PrepLeft(prep'[j]) \in 0 .. 3 /\ PrepLeft(prep'[j]) <= PrepLeft(prep[j])
  <2>1. CASE prep[j] = "none"
    BY <1>1, <1>3, <2>1
  <2>2. CASE prep[j] # "none"
    <3>1. PrepLeft("over") = 0
      BY DEF PrepLeft
    <3>2. QED
      BY <1>1, <1>3, <2>2, <3>1
  <2>3. QED
    BY <2>1, <2>2
<1>5. QED
  BY <1>1, <1>2, <1>3, <1>4, StepLowers DEF IInv

(* A job's own steps exclude a crash and each other's jobs.                *)
LEMMA OwnStepIsOne ==
  ASSUME IInv, NEW j \in Jobs, Preparation(j) \/ Worker(j)
  PROVE  WorkLeft(j)' < WorkLeft(j)
BY WorkerLowers, PreparationLowers

(* The guards: an unfinished job always finds one of them open.            *)
LEMMA SomeGuardHolds == IInv => \A j \in Jobs : Unfinished(j) => MayMove(j)
<1>. SUFFICES ASSUME IInv, NEW j \in Jobs, Unfinished(j) PROVE MayMove(j)
  OBVIOUS
<1>1. CASE prep[j] \in {"spawned", "failing"}
  BY <1>1 DEF MayMove
<1>2. CASE queue[j] = "Pending"
  BY <1>2 DEF MayMove, IInv, AttemptsInv
<1>3. CASE queue[j] = "Failed"
  BY <1>3 DEF MayMove, IInv, AttemptsInv
<1>4. CASE queue[j] = "Running"
  <2>1. pc[j] # "idle"
    BY <1>4 DEF IInv, AttemptsInv
  <2>2. QED
    BY <2>1 DEF MayMove, IInv, WaitInv
<1>5. QED
  BY <1>1, <1>2, <1>3, <1>4 DEF Unfinished

(* Every job advances: the two facts that, with the fairness of tasks and  *)
(* workers, make each enqueued job end.                                    *)
THEOREM Progress == Spec => JobsAdvance
<1>. DEFINE Lowers(j) == /\ WorkLeft(j)' <= WorkLeft(j)
                         /\ Preparation(j) \/ Worker(j) => WorkLeft(j)' < WorkLeft(j)
<1>1. IInv /\ [Next]_vars => \A j \in Jobs : Lowers(j)
  <2>. SUFFICES ASSUME IInv, [Next]_vars, NEW j \in Jobs PROVE Lowers(j)
    OBVIOUS
  <2>1. Preparation(j) \/ Worker(j) => WorkLeft(j)' < WorkLeft(j)
    BY OwnStepIsOne
  <2>2. WorkLeft(j)' <= WorkLeft(j)
    <3>1. ASSUME NEW i \in Jobs, Accept(i) \/ Preparation(i) PROVE WorkLeft(j)' <= WorkLeft(j)
      BY <3>1, PreparationLowers
    <3>2. ASSUME NEW i \in Jobs, Worker(i), i # j PROVE WorkLeft(j)' <= WorkLeft(j)
      BY <3>2, WorkerLowers
    <3>3. CASE Worker(j)
      <4>1. pc'[j] \in Counters /\ attempts'[j] \in 0 .. (MaxAttempts + MaxCrashes)
            /\ prep'[j] \in Preps
        BY TypeStep DEF TypeOK
      <4>2. WorkLeft(j) \in Int
        BY WorkIsNat DEF IInv, WorkLeft
      <4>3. WorkLeft(j)' \in Int
        BY <4>1, MaxAttemptsAssumption, MaxCrashesAssumption
           DEF WorkLeft, StepsLeft, PrepLeft, Counters, Preps
      <4>4. QED
        BY <2>1, <3>3, <4>2, <4>3
    <3>4. CASE Crash
      BY <3>4, CrashLowers
    <3>5. CASE UNCHANGED <<prep, attempts, pc>>
      BY <3>5, WorkStays DEF IInv
    <3>6. QED
      BY <3>1, <3>2, <3>3, <3>4, <3>5
         DEF Next, Upload, RegisterBlob, CertifyBlob, TransferBlob, Sidecar, Respond,
             jobVars, vars
  <2>3. QED
    BY <2>1, <2>2
<1>2. QED
  BY <1>1, SomeGuardHolds, Invariance, PTL DEF Spec, JobsAdvance

-----------------------------------------------------------------------------
(* The refinement of MemoryPromise.                                        *)

(* A step that touches no row, no vector and no ownership is a stutter.    *)
LEMMA PromiseStutters ==
  ASSUME UNCHANGED <<status, vec>>, \A i \in Jobs : Owned(i)' = Owned(i)
  PROVE  UNCHANGED Promise!vars
<1>1. \A i \in Jobs : MemoryOf(i)' = MemoryOf(i)
  BY DEF MemoryOf
<1>2. \A i \in Jobs : ReportOf(i)' = ReportOf(i)
  BY DEF ReportOf
<1>3. QED
  BY <1>1, <1>2 DEF Promise!vars

(* A status UPDATE of an accepted job, executed or lost, is a report.      *)
LEMMA PromiseReports ==
  ASSUME IInv, NEW j \in Jobs, NEW s \in Statuses \ {"none"}, SetStatus(j, s),
         status[j] # "none", s = "done" => vec[j], UNCHANGED <<obj, vec>>
  PROVE  [Promise!Next]_(Promise!vars)
<1>1. \A i \in Jobs : Owned(i)' = Owned(i)
  BY OwnedUnchanged
<1>2. CASE UNCHANGED status
  BY <1>1, <1>2, PromiseStutters
<1>3. CASE status' = [status EXCEPT ![j] = s]
  <2>1. \A i \in Jobs : status'[i] = IF i = j THEN s ELSE status[i]
    BY <1>3 DEF IInv, TypeOK
  <2>2. \A i \in Jobs : MemoryOf(i)' = MemoryOf(i)
    BY <2>1, <1>1 DEF MemoryOf
  <2>3. \A i \in Jobs : i # j => ReportOf(i)' = ReportOf(i)
    BY <2>1 DEF ReportOf
  <2>4. ReportOf(j)' \in Promise!Reports \ {"none"}
    BY <2>1 DEF ReportOf, Statuses, Promise!Reports
  <2>5. ReportOf(j)' = "done" => MemoryOf(j) = "recallable"
    BY <2>1 DEF ReportOf, MemoryOf
  <2>6. MemoryOf(j) # "absent"
    BY DEF MemoryOf
  <2>7. Promise!Report(j, ReportOf(j)')
    BY <2>2, <2>3, <2>5, <2>6 DEF Promise!Report
  <2>8. QED
    BY <2>4, <2>7 DEF Promise!Next
<1>4. QED
  BY <1>2, <1>3 DEF SetStatus

(* Every step of the pipeline is a step of the promise, or a stutter.      *)
LEMMA PromiseStep == IInv /\ [Next]_vars => [Promise!Next]_(Promise!vars)
<1>. SUFFICES ASSUME IInv, [Next]_vars PROVE [Promise!Next]_(Promise!vars)
  OBVIOUS
<1>. USE DEF rowVars, jobVars, sideVars
<1>1. ASSUME NEW j \in Jobs, Accept(j) PROVE [Promise!Next]_(Promise!vars)
  <2>1. /\ status[j] = "none"
        /\ \A i \in Jobs : status'[i] = IF i = j THEN "pending" ELSE status[i]
        /\ UNCHANGED <<obj, vec>>
    BY <1>1 DEF Accept, IInv, TypeOK
  <2>2. \A i \in Jobs : Owned(i)' = Owned(i)
    BY <2>1, OwnedUnchanged
  <2>3. ~vec[j] /\ ~Owned(j)
    <3>1. attempts[j] = 0
      BY <2>1 DEF IInv, OriginInv, AttemptsInv
    <3>2. \A k \in Tries : obj[j][k] = "none"
      BY <3>1 DEF IInv, OriginInv, Tries
    <3>3. QED
      BY <3>2 DEF Owned, IInv, ProgressInv, TypeOK
  <2>4. \A i \in Jobs : i # j => /\ MemoryOf(i)' = MemoryOf(i)
                                 /\ ReportOf(i)' = ReportOf(i)
    BY <2>1, <2>2 DEF MemoryOf, ReportOf
  <2>5. MemoryOf(j) = "absent" /\ MemoryOf(j)' = "accepted" /\ ReportOf(j)' = "working"
    BY <2>1, <2>2, <2>3 DEF MemoryOf, ReportOf
  <2>6. Promise!Accept(j)
    BY <2>4, <2>5 DEF Promise!Accept, Promise!Advance
  <2>7. QED
    BY <2>6 DEF Promise!Next
<1>2. ASSUME NEW j \in Jobs, PrepareMarksFailed(j) PROVE [Promise!Next]_(Promise!vars)
  <2>1. status[j] # "none"
    BY <1>2 DEF PrepareMarksFailed, IInv, OriginInv
  <2>2. QED
    BY <1>2, <2>1, PromiseReports DEF PrepareMarksFailed, Statuses
<1>3. ASSUME NEW j \in Jobs,
             StartUpload(j) \/ MarkUploaded(j) \/ MarkDone(j) \/ MarkFailed(j)
      PROVE  [Promise!Next]_(Promise!vars)
  <2>1. pc[j] # "idle"
    BY <1>3 DEF StartUpload, MarkUploaded, MarkDone, MarkFailed, At
  <2>2. status[j] # "none"
    BY <2>1 DEF IInv, OriginInv, AttemptsInv
  <2>3. PICK s \in Statuses \ {"none"} : SetStatus(j, s) /\ (s = "done" => vec[j])
    BY <1>3 DEF StartUpload, MarkUploaded, MarkDone, MarkFailed, At, Statuses,
                IInv, ProgressInv
  <2>4. UNCHANGED <<obj, vec>>
    BY <1>3 DEF StartUpload, MarkUploaded, MarkDone, MarkFailed
  <2>5. QED
    BY <2>2, <2>3, <2>4, PromiseReports
<1>4. ASSUME NEW j \in Jobs, InsertVector(j) PROVE [Promise!Next]_(Promise!vars)
  <2>1. \A i \in Jobs : Owned(i)' = Owned(i)
    BY <1>4, OwnedUnchanged DEF InsertVector
  <2>2. CASE UNCHANGED vec
    BY <1>4, <2>1, <2>2, PromiseStutters DEF InsertVector
  <2>3. CASE vec' = [vec EXCEPT ![j] = TRUE] /\ vec[j]
    BY <1>4, <2>1, <2>3, PromiseStutters DEF InsertVector, IInv, TypeOK
  <2>4. CASE vec' = [vec EXCEPT ![j] = TRUE] /\ ~vec[j]
    <3>1. pc[j] = "index"
      BY <1>4 DEF InsertVector, At
    <3>2. status[j] # "none" /\ Owned(j)
      BY <3>1 DEF IInv, OriginInv, AttemptsInv, ProgressInv
    <3>3. \A i \in Jobs : vec'[i] = IF i = j THEN TRUE ELSE vec[i]
      BY <2>4 DEF IInv, TypeOK
    <3>4. UNCHANGED status
      BY <1>4 DEF InsertVector
    <3>5. MemoryOf(j) = "durable" /\ MemoryOf(j)' = "recallable"
      BY <2>1, <2>4, <3>2, <3>3, <3>4 DEF MemoryOf
    <3>6. \A i \in Jobs : i # j => MemoryOf(i)' = MemoryOf(i)
      BY <2>1, <3>3, <3>4 DEF MemoryOf
    <3>7. \A i \in Jobs : ReportOf(i)' = ReportOf(i)
      BY <3>4 DEF ReportOf
    <3>8. Promise!Index(j)
      BY <3>5, <3>6, <3>7 DEF Promise!Index, Promise!Advance
    <3>9. QED
      BY <3>8 DEF Promise!Next
  <2>5. QED
    BY <1>4, <2>2, <2>3, <2>4 DEF InsertVector
<1>5. ASSUME NEW j \in Jobs, NEW k \in Tries, TransferBlob(j, k)
      PROVE  [Promise!Next]_(Promise!vars)
  <2>1. /\ obj[j][k] = "certified"
        /\ obj' = [obj EXCEPT ![j][k] = "owned"]
        /\ UNCHANGED <<status, vec>>
    BY <1>5 DEF TransferBlob, Sidecar
  <2>2. \A i \in Jobs : i # j => Owned(i)' = Owned(i)
    BY <2>1 DEF Owned, IInv, TypeOK
  <2>3. Owned(j)'
    BY <2>1 DEF Owned, IInv, TypeOK
  <2>4. CASE Owned(j)
    <3>1. \A i \in Jobs : Owned(i)' = Owned(i)
      BY <2>2, <2>3, <2>4 DEF Owned
    <3>2. QED
      BY <2>1, <3>1, PromiseStutters
  <2>5. CASE ~Owned(j)
    <3>1. ~vec[j]
      BY <2>5 DEF IInv, ProgressInv
    <3>2. status[j] # "none"
      BY <1>5 DEF TransferBlob, Sidecar, IInv, OriginInv, AttemptsInv, Tries
    <3>3. MemoryOf(j) = "accepted" /\ MemoryOf(j)' = "durable"
      BY <2>1, <2>3, <2>5, <3>1, <3>2 DEF MemoryOf
    <3>4. \A i \in Jobs : i # j => MemoryOf(i)' = MemoryOf(i)
      BY <2>1, <2>2 DEF MemoryOf
    <3>5. \A i \in Jobs : ReportOf(i)' = ReportOf(i)
      BY <2>1 DEF ReportOf
    <3>6. Promise!MakeDurable(j)
      BY <3>3, <3>4, <3>5 DEF Promise!MakeDurable, Promise!Advance
    <3>7. QED
      BY <3>6 DEF Promise!Next
  <2>6. QED
    BY <2>4, <2>5
<1>6. ASSUME NEW j \in Jobs, NEW k \in Tries, RegisterBlob(j, k) \/ CertifyBlob(j, k)
      PROVE  [Promise!Next]_(Promise!vars)
  <2>1. PICK to \in {"registered", "certified"} :
          obj[j][k] # "owned" /\ obj' = [obj EXCEPT ![j][k] = to]
    BY <1>6 DEF RegisterBlob, CertifyBlob, Sidecar
  <2>2. \A i \in Jobs : Owned(i)' = Owned(i)
    BY <2>1 DEF Owned, IInv, TypeOK
  <2>3. QED
    BY <1>6, <2>2, PromiseStutters DEF RegisterBlob, CertifyBlob, Sidecar
<1>7. CASE UNCHANGED <<status, obj, vec>>
  BY <1>7, OwnedUnchanged, PromiseStutters
<1>8. QED
  BY <1>1, <1>2, <1>3, <1>4, <1>5, <1>6, <1>7
     DEF Next, Preparation, Worker, Upload, PrepareFails, Enqueue, Fetch,
         UploadSucceeds, UploadFails, UploadTimesOut, Ack, Respond, Crash, vars

(* The asynchronous pipeline implements MemoryPromise.                     *)
THEOREM Refinement == Spec => KeepsPromise
<1>1. Init => Promise!Init
  BY DEF Init, Promise!Init, MemoryOf, ReportOf
<1>2. QED
  BY <1>1, PromiseStep, Invariance, PTL DEF Spec, KeepsPromise, Promise!Spec

=============================================================================
