------------------------- MODULE LegacyJobs_proofs -------------------------
(* Proofs about LegacyJobs for every backlog, every batch, every width of  *)
(* the monitors and every number of attempts and crashes.                  *)
EXTENDS LegacyJobs, FiniteSetTheorems, TLAPS

(* The three kinds of jobs.                                                *)
LEMMA JobKinds ==
  /\ Fan \in Jobs /\ Fan \notin Moves /\ Fan \notin RowJobs
  /\ Moves \subseteq Jobs /\ RowJobs \subseteq Jobs /\ Moves \cap RowJobs = {}
  /\ Jobs = {Fan} \cup Moves \cup RowJobs
  /\ \A c \in RowJobs : c[1] \in Rows /\ c[1] \in Blobs
  /\ \A c \in Moves : c[1] \in Transfers /\ c[1] \in Blobs /\ c[1] \notin Rows
  /\ OldWallet \subseteq Jobs
BY KindsAssumption
   DEF Fan, Jobs, OldJobs, Copies, RowJobs, Moves, Rows, Blobs, OldWallet

LEMMA CopyKinds ==
  /\ \A c \in Copies : /\ c \in RowJobs /\ c[1] \in Items /\ c[2] \in 1 .. Tries
                       /\ c[1] \in Rows
  /\ \A i \in Items, n \in 1 .. Tries :
       <<i, n>> \in Copies /\ <<i, n>>[1] = i /\ <<i, n>>[2] = n
  /\ Fan \notin Copies
BY KindsAssumption DEF Fan, Copies, RowJobs, Rows

LEMMA Bounds ==
  /\ Cardinality(Items) \in Nat /\ DOMAIN Batch = 1 .. Cardinality(Items)
  /\ Tries \in Nat /\ Tries = MaxAttempts + MaxCrashes + 1
  /\ MaxAttempts \in Nat /\ MaxCrashes \in Nat
BY BatchAssumption, BoundsAssumption, FS_CardinalityType DEF Tries

-----------------------------------------------------------------------------
(* What each step does to the queue rows, the handlers and the rows.       *)

LEMMA RowHandlerStep ==
  ASSUME TypeOK, NEW c \in RowJobs, RowHandler(c)
  PROVE  /\ UNCHANGED <<up, stuck, queue, attempts, next, crashes>>
         /\ pc[c] \in {"start", "upload", "uploaded", "index", "finish", "failRetry",
                       "failAbort"}
         /\ pc' = [pc EXCEPT ![c] = pc'[c]]
         /\ pc'[c] \in {"upload", "uploaded", "index", "finish", "failRetry", "failAbort",
                        "ackOk", "ackRetry", "ackAbort"}
         /\ status' \in [Rows -> Statuses]
         /\ \A r \in Rows : r # c[1] => status'[r] = status[r]
         /\ status'[c[1]] \in {status[c[1]], "running", "uploaded", "done", "failed"}
         /\ vec' \in {vec, vec \cup {c[1]}} /\ owned' \in {owned, owned \cup {c[1]}}
<1> USE DEF queueVars, At, Fails
<1>j. c \in Jobs /\ c[1] \in Rows
  BY JobKinds
<1>t. pc \in [Jobs -> Counters] /\ status \in [Rows -> Statuses]
  BY DEF TypeOK
<1>1. CASE MarkRunning(c)
  BY <1>1, <1>j, <1>t DEF MarkRunning, SetStatus, Statuses
<1>2. CASE Upload(c)
  BY <1>2, <1>j, <1>t DEF Upload
<1>3. CASE MarkUploaded(c)
  BY <1>3, <1>j, <1>t DEF MarkUploaded, SetStatus, Statuses
<1>4. CASE Insert(c)
  BY <1>4, <1>j, <1>t DEF Insert
<1>5. CASE MarkDone(c)
  BY <1>5, <1>j, <1>t DEF MarkDone, SetStatus, Statuses
<1>6. CASE MarkFailed(c)
  BY <1>6, <1>j, <1>t DEF MarkFailed, SetStatus, Statuses
<1>7. QED
  BY <1>1, <1>2, <1>3, <1>4, <1>5, <1>6 DEF RowHandler

LEMMA TransferStep ==
  ASSUME TypeOK, NEW c \in Moves, Transfer(c)
  PROVE  /\ UNCHANGED <<up, stuck, queue, attempts, next, crashes, status, vec>>
         /\ pc[c] = "transfer"
         /\ pc' = [pc EXCEPT ![c] = pc'[c]]
         /\ pc'[c] \in {"ackOk", "ackRetry", "ackAbort"}
         /\ owned' \in {owned, owned \cup {c[1]}}
         /\ pc'[c] = "ackOk" => c[1] \in owned'
<1>j. c \in Jobs
  BY JobKinds
<1>t. pc \in [Jobs -> Counters]
  BY DEF TypeOK
<1>1. QED
  BY <1>j, <1>t DEF queueVars, At, Fails, Transfer, Transferred, Unanswered

LEMMA AckStep ==
  ASSUME TypeOK, NEW c \in Jobs, Ack(c)
  PROVE  /\ UNCHANGED <<up, stuck, attempts, next, status, vec, owned, crashes>>
         /\ pc' = [pc EXCEPT ![c] = "idle"]
         /\ queue' = [queue EXCEPT ![c] = queue'[c]]
         /\ \/ pc[c] = "ackOk" /\ queue'[c] = "Done"
            \/ pc[c] = "ackRetry" /\ attempts[c] < MaxAttempts /\ queue'[c] = "Failed"
            \/ pc[c] \in {"ackRetry", "ackAbort"} /\ queue'[c] = "Killed"
<1>t. pc \in [Jobs -> Counters] /\ queue \in [Jobs -> Queues]
  BY DEF TypeOK
<1>1. UNCHANGED <<up, stuck, attempts, next, status, vec, owned, crashes>>
  BY DEF Ack
<1>2. pc' = [pc EXCEPT ![c] = "idle"]
  BY DEF Ack, At
<1>3. CASE At(c, "ackOk", "idle") /\ queue' = [queue EXCEPT ![c] = "Done"]
  BY <1>1, <1>2, <1>3, <1>t DEF At
<1>4. CASE At(c, "ackRetry", "idle") /\ queue' = [queue EXCEPT
                  ![c] = IF attempts[c] < MaxAttempts THEN "Failed" ELSE "Killed"]
  <2>1. pc[c] = "ackRetry" /\ queue' = [queue EXCEPT ![c] = queue'[c]]
    BY <1>4, <1>t DEF At
  <2>2. CASE attempts[c] < MaxAttempts
    <3>1. queue'[c] = "Failed"
      BY <1>4, <1>t, <2>2
    <3>2. QED
      BY <1>1, <1>2, <2>1, <2>2, <3>1
  <2>3. CASE ~(attempts[c] < MaxAttempts)
    <3>1. queue'[c] = "Killed"
      BY <1>4, <1>t, <2>3
    <3>2. QED
      BY <1>1, <1>2, <2>1, <3>1
  <2>4. QED
    BY <2>2, <2>3
<1>5. CASE At(c, "ackAbort", "idle") /\ queue' = [queue EXCEPT ![c] = "Killed"]
  BY <1>1, <1>2, <1>5, <1>t DEF At
<1>6. QED
  BY <1>3, <1>4, <1>5 DEF Ack

LEMMA FetchStep ==
  ASSUME TypeOK, NEW c \in Jobs, Fetch(c)
  PROVE  /\ UNCHANGED <<up, stuck, status, vec, owned, crashes>>
         /\ up /\ pc[c] = "idle"
         /\ queue[c] = "Pending" \/ (queue[c] = "Failed" /\ attempts[c] < MaxAttempts)
         /\ queue' = [queue EXCEPT ![c] = "Running"]
         /\ attempts' = [attempts EXCEPT ![c] = attempts[c] + 1]
         /\ pc' = [pc EXCEPT ![c] = pc'[c]]
         /\ pc'[c] = Entry(c)
         /\ next' = IF c = Fan THEN 1 ELSE next
<1>t. pc \in [Jobs -> Counters]
  BY DEF TypeOK
<1>1. /\ UNCHANGED <<up, stuck, status, vec, owned, crashes>>
      /\ up /\ pc[c] = "idle"
      /\ queue[c] = "Pending" \/ (queue[c] = "Failed" /\ attempts[c] < MaxAttempts)
      /\ queue' = [queue EXCEPT ![c] = "Running"]
      /\ attempts' = [attempts EXCEPT ![c] = attempts[c] + 1]
      /\ next' = IF c = Fan THEN 1 ELSE next
  BY DEF Fetch, At
<1>2. pc' = [pc EXCEPT ![c] = Entry(c)]
  BY DEF Fetch, At
<1>3. pc'[c] = Entry(c)
  BY <1>2, <1>t
<1>4. QED
  BY <1>1, <1>2, <1>3

-----------------------------------------------------------------------------
(* Types.                                                                  *)

LEMMA LeftTypes ==
  \A l \in Leftovers : /\ l[1] \in {"Pending", "Failed", "Running"}
                       /\ l[2] \in 0 .. MaxAttempts
                       /\ l[1] = "Running" => l[2] > 0
                       /\ l[1] = "Failed" => l[2] < MaxAttempts
                       /\ Told(l[1]) \in Statuses \ {"none", "done"}
                       /\ l[1] = "Failed" => Told(l[1]) = "failed"
<1> SUFFICES ASSUME NEW l \in Leftovers
    PROVE  /\ l[1] \in {"Pending", "Failed", "Running"}
           /\ l[2] \in 0 .. MaxAttempts
           /\ l[1] = "Running" => l[2] > 0
           /\ l[1] = "Failed" => l[2] < MaxAttempts
           /\ Told(l[1]) \in Statuses \ {"none", "done"}
           /\ l[1] = "Failed" => Told(l[1]) = "failed"
  OBVIOUS
<1>1. CASE l = <<"Pending", 0>>
  BY <1>1, Bounds DEF Told, Statuses
<1>2. CASE l \in {"Failed"} \X (1 .. (MaxAttempts - 1))
  <2>1. l[1] = "Failed" /\ l[2] \in 1 .. (MaxAttempts - 1)
    BY <1>2
  <2>2. Told(l[1]) = "failed"
    BY <2>1 DEF Told
  <2>3. QED
    BY <2>1, <2>2, Bounds DEF Statuses
<1>3. CASE l \in {"Running"} \X (1 .. MaxAttempts)
  <2>1. l[1] = "Running" /\ l[2] \in 1 .. MaxAttempts
    BY <1>3
  <2>2. Told(l[1]) = "running"
    BY <2>1 DEF Told
  <2>3. QED
    BY <2>1, <2>2, Bounds DEF Statuses
<1>4. QED
  BY <1>1, <1>2, <1>3 DEF Leftovers

(* The bulk handler can only be in the middle of an execution it began.    *)
LEMMA FanRuns ==
  ASSUME LegacyInv, pc[Fan] # "idle"
  PROVE  /\ up /\ queue[Fan] = "Running" /\ attempts[Fan] \in 1 .. Tries
         /\ \A n \in DOMAIN Batch : /\ <<Batch[n], attempts[Fan]>> \in Copies
                                    /\ Batch[n] \in Items
<1>1. Fan \in Jobs
  BY JobKinds
<1>2. up /\ queue[Fan] = "Running"
  BY <1>1 DEF LegacyInv, AttemptsInv
<1>3. attempts[Fan] \in Nat /\ attempts[Fan] > 0 /\ crashes \in 0 .. MaxCrashes
      /\ attempts[Fan] <= MaxAttempts + crashes + 1
  BY <1>1, <1>2 DEF LegacyInv, TypeOK, AttemptsInv
<1>4. attempts[Fan] \in 1 .. Tries
  BY <1>3, Bounds
<1>5. \A n \in DOMAIN Batch : Batch[n] \in Items
  BY BatchAssumption
<1>6. QED
  BY <1>2, <1>4, <1>5, CopyKinds

LEMMA PushStep ==
  ASSUME LegacyInv, Push
  PROVE  /\ UNCHANGED <<up, stuck, attempts, status, vec, owned, crashes>>
         /\ pc[Fan] = "push" /\ pc' = [pc EXCEPT ![Fan] = pc'[Fan]]
         /\ \/ /\ next \in DOMAIN Batch /\ pc'[Fan] = "push" /\ next' = next + 1
               /\ queue' = [queue EXCEPT ![Pushed] = "Pending"]
            \/ /\ next \in DOMAIN Batch /\ pc'[Fan] = "ackRetry" /\ next' = next
               /\ queue' = [queue EXCEPT ![Pushed] = "Pending"]
            \/ pc'[Fan] = "ackRetry" /\ next' = next /\ queue' = queue
            \/ /\ next \notin DOMAIN Batch /\ pc'[Fan] = "ackOk"
               /\ next' = next /\ queue' = queue
         /\ next \in DOMAIN Batch => /\ Pushed \in Copies /\ queue[Pushed] = "none"
                                     /\ Pushed[1] = Batch[next] /\ Batch[next] \in Items
                                     /\ Pushed[2] = attempts[Fan]
<1>1. UNCHANGED <<up, stuck, attempts, status, vec, owned, crashes>> /\ pc[Fan] = "push"
  BY DEF Push
<1>2. Fan \in Jobs /\ pc \in [Jobs -> Counters]
  BY JobKinds DEF LegacyInv, TypeOK
<1>3. next \in DOMAIN Batch => /\ Pushed \in Copies /\ queue[Pushed] = "none"
                              /\ Pushed[1] = Batch[next] /\ Batch[next] \in Items
                              /\ Pushed[2] = attempts[Fan]
  <2> SUFFICES ASSUME next \in DOMAIN Batch
               PROVE  /\ Pushed \in Copies /\ queue[Pushed] = "none"
                      /\ Pushed[1] = Batch[next] /\ Batch[next] \in Items
                      /\ Pushed[2] = attempts[Fan]
    OBVIOUS
  <2>1. Pushed \in Copies /\ Batch[next] \in Items
    BY <1>1, FanRuns DEF Pushed
  <2>2. next \in next .. Cardinality(Items)
    BY Bounds
  <2>3. queue[Pushed] = "none"
    BY <1>1, <2>2 DEF LegacyInv, PushedInv, Pushed
  <2>4. QED
    BY <2>1, <2>3 DEF Pushed
<1>4. CASE /\ next \in DOMAIN Batch /\ next' = next + 1 /\ UNCHANGED pc
           /\ queue' = [queue EXCEPT ![Pushed] = "Pending"]
  BY <1>1, <1>2, <1>3, <1>4
<1>5. CASE /\ next \in DOMAIN Batch /\ At(Fan, "push", "ackRetry") /\ UNCHANGED next
           /\ queue' \in {queue, [queue EXCEPT ![Pushed] = "Pending"]}
  <2>1. pc' = [pc EXCEPT ![Fan] = "ackRetry"] /\ pc'[Fan] = "ackRetry"
    BY <1>2, <1>5 DEF At
  <2>2. QED
    BY <1>1, <1>3, <1>5, <2>1
<1>6. CASE /\ next \notin DOMAIN Batch /\ At(Fan, "push", "ackOk")
           /\ UNCHANGED <<next, queue>>
  <2>1. pc' = [pc EXCEPT ![Fan] = "ackOk"] /\ pc'[Fan] = "ackOk"
    BY <1>2, <1>6 DEF At
  <2>2. QED
    BY <1>1, <1>3, <1>6, <2>1
<1>7. QED
  BY <1>4, <1>5, <1>6 DEF Push

LEMMA StartStep ==
  ASSUME LegacyInv, Start
  PROVE  /\ UNCHANGED <<attempts, pc, next, status, vec, owned, crashes>>
         /\ ~up /\ up' = TRUE /\ stuck' = {} /\ queue' \in [Jobs -> Queues]
         /\ \A c \in Jobs : pc[c] = "idle"
         /\ \A c \in Jobs : queue'[c] = IF queue[c] = "Running" THEN "Pending" ELSE queue[c]
BY DEF LegacyInv, TypeOK, AttemptsInv, Start, Freed, Queues

LEMMA CrashStep ==
  ASSUME TypeOK, Crash
  PROVE  /\ UNCHANGED <<stuck, queue, attempts, next, status, vec, owned>>
         /\ up /\ up' = FALSE /\ crashes' = crashes + 1 /\ crashes' \in 0 .. MaxCrashes
         /\ pc' \in [Jobs -> Counters] /\ \A c \in Jobs : pc'[c] = "idle"
<1>1. crashes \in Nat /\ crashes < MaxCrashes /\ crashes' = crashes + 1
  BY Bounds DEF TypeOK, Crash
<1>2. crashes' \in 0 .. MaxCrashes
  BY <1>1, Bounds
<1>3. QED
  BY <1>1, <1>2 DEF Crash, queueVars, Counters

LEMMA EntryKinds ==
  \A c \in Jobs : /\ Entry(c) \in {"push", "transfer", "start"} /\ Entry(c) \in Counters
                  /\ c \in RowJobs => Entry(c) = "start"
                  /\ c \in Moves => Entry(c) = "transfer"
                  /\ Entry(Fan) = "push"
BY JobKinds DEF Entry, Counters

(* An execution that begins is one that AttemptsInv has room for.          *)
LEMMA FetchRoom ==
  ASSUME LegacyInv, NEW c \in Jobs, Fetch(c)
  PROVE  /\ attempts[c] \in Nat /\ attempts[c] <= MaxAttempts + crashes
         /\ crashes \in 0 .. MaxCrashes /\ attempts[c] + 1 \in 1 .. Tries
<1>1. attempts[c] \in Nat /\ crashes \in 0 .. MaxCrashes /\ crashes \in Nat
  BY Bounds DEF LegacyInv, TypeOK
<1>2. queue[c] = "Pending" \/ attempts[c] < MaxAttempts
  BY FetchStep DEF LegacyInv
<1>3. queue[c] = "Pending" => attempts[c] <= MaxAttempts + crashes
  BY DEF LegacyInv, AttemptsInv
<1>4. attempts[c] <= MaxAttempts + crashes
  BY <1>1, <1>2, <1>3, Bounds
<1>5. QED
  BY <1>1, <1>4, Bounds

LEMMA TypeStep == LegacyInv /\ [Next]_vars => TypeOK'
<1> SUFFICES ASSUME LegacyInv, [Next]_vars PROVE TypeOK'
  OBVIOUS
<1>t. TypeOK
  BY DEF LegacyInv
<1>1. ASSUME NEW c \in RowJobs, RowHandler(c) PROVE TypeOK'
  <2>1. c \in Jobs /\ c[1] \in Rows /\ c[1] \in Blobs
    BY <1>1, JobKinds
  <2>2. pc' \in [Jobs -> Counters]
    BY <1>1, <1>t, <2>1, RowHandlerStep DEF TypeOK, Counters
  <2>3. vec' \subseteq Rows /\ owned' \subseteq Blobs
    BY <1>1, <1>t, <2>1, RowHandlerStep DEF TypeOK
  <2>4. QED
    BY <1>1, <1>t, <2>2, <2>3, RowHandlerStep DEF TypeOK
<1>2. ASSUME NEW c \in Moves, Transfer(c) PROVE TypeOK'
  <2>1. c \in Jobs /\ c[1] \in Blobs
    BY <1>2, JobKinds
  <2>2. pc' \in [Jobs -> Counters]
    BY <1>2, <1>t, <2>1, TransferStep DEF TypeOK, Counters
  <2>3. owned' \subseteq Blobs
    BY <1>2, <1>t, <2>1, TransferStep DEF TypeOK
  <2>4. QED
    BY <1>2, <1>t, <2>2, <2>3, TransferStep DEF TypeOK
<1>3. ASSUME NEW c \in Jobs, Ack(c) PROVE TypeOK'
  <2>1. pc' \in [Jobs -> Counters]
    BY <1>3, <1>t, AckStep DEF TypeOK, Counters
  <2>2. queue' \in [Jobs -> Queues]
    BY <1>3, <1>t, AckStep DEF TypeOK, Queues
  <2>3. QED
    BY <1>3, <1>t, <2>1, <2>2, AckStep DEF TypeOK
<1>4. ASSUME NEW c \in Jobs, Fetch(c) PROVE TypeOK'
  <2>1. pc' \in [Jobs -> Counters]
    BY <1>4, <1>t, FetchStep, EntryKinds DEF TypeOK
  <2>2. queue' \in [Jobs -> Queues]
    BY <1>4, <1>t, FetchStep DEF TypeOK, Queues
  <2>3. attempts' \in [Jobs -> Nat]
    <3>1. attempts \in [Jobs -> Nat] /\ attempts[c] + 1 \in Nat
      BY <1>t DEF TypeOK
    <3>2. attempts' = [attempts EXCEPT ![c] = attempts[c] + 1]
      BY <1>4, <1>t, FetchStep
    <3>3. QED
      BY <3>1, <3>2
  <2>4. next' \in 1 .. (Cardinality(Items) + 1)
    <3>1. 1 \in 1 .. (Cardinality(Items) + 1)
      BY Bounds
    <3>2. QED
      BY <1>4, <1>t, <3>1, FetchStep DEF TypeOK
  <2>5. QED
    BY <1>4, <1>t, <2>1, <2>2, <2>3, <2>4, FetchStep DEF TypeOK
<1>5. CASE Push
  <2>1. pc' \in [Jobs -> Counters]
    <3>1. pc'[Fan] \in Counters
      BY <1>5, PushStep DEF Counters
    <3>2. QED
      BY <1>5, <1>t, <3>1, PushStep DEF TypeOK
  <2>2. queue' \in [Jobs -> Queues]
    BY <1>5, <1>t, PushStep DEF TypeOK, Queues
  <2>3. next' \in 1 .. (Cardinality(Items) + 1)
    <3>1. next \in 1 .. (Cardinality(Items) + 1)
      BY <1>t DEF TypeOK
    <3>2. next' = next \/ (next \in DOMAIN Batch /\ next' = next + 1)
      BY <1>5, PushStep
    <3>3. QED
      BY <3>1, <3>2, Bounds
  <2>4. QED
    BY <1>5, <1>t, <2>1, <2>2, <2>3, PushStep DEF TypeOK
<1>6. CASE Start
  BY <1>6, <1>t, StartStep DEF TypeOK
<1>7. CASE Crash
  BY <1>7, <1>t, CrashStep DEF TypeOK
<1>8. CASE UNCHANGED vars
  BY <1>8, <1>t DEF TypeOK, vars, queueVars
<1>9. QED
  BY <1>1, <1>2, <1>3, <1>4, <1>5, <1>6, <1>7, <1>8 DEF Next, Worker

LEMMA AttemptsStep == LegacyInv /\ [Next]_vars => AttemptsInv'
<1> SUFFICES ASSUME LegacyInv, [Next]_vars PROVE AttemptsInv'
  OBVIOUS
<1>t. TypeOK /\ AttemptsInv
  BY DEF LegacyInv
<1>n. /\ pc \in [Jobs -> Counters] /\ queue \in [Jobs -> Queues]
      /\ attempts \in [Jobs -> Nat] /\ crashes \in Nat
  BY <1>t, Bounds DEF TypeOK
<1>1. ASSUME NEW c \in RowJobs, RowHandler(c) PROVE AttemptsInv'
  <2>1. pc[c] # "idle" /\ pc'[c] # "idle"
    BY <1>1, <1>t, RowHandlerStep
  <2>2. \A k \in Jobs : (pc'[k] # "idle") = (pc[k] # "idle")
    BY <1>1, <1>t, <1>n, <2>1, RowHandlerStep
  <2>3. QED
    BY <1>1, <1>t, <2>2, RowHandlerStep DEF AttemptsInv
<1>2. ASSUME NEW c \in Moves, Transfer(c) PROVE AttemptsInv'
  <2>1. pc[c] # "idle" /\ pc'[c] # "idle"
    BY <1>2, <1>t, TransferStep
  <2>2. \A k \in Jobs : (pc'[k] # "idle") = (pc[k] # "idle")
    BY <1>2, <1>t, <1>n, <2>1, TransferStep
  <2>3. QED
    BY <1>2, <1>t, <2>2, TransferStep DEF AttemptsInv
<1>3. ASSUME NEW c \in Jobs, Ack(c) PROVE AttemptsInv'
  <2>1. \A k \in Jobs : k # c => pc'[k] = pc[k] /\ queue'[k] = queue[k]
    BY <1>3, <1>t, <1>n, AckStep
  <2>2. /\ pc'[c] = "idle" /\ queue'[c] \in {"Done", "Failed", "Killed"} /\ pc[c] # "idle"
        /\ queue'[c] = "Failed" => attempts[c] < MaxAttempts
    BY <1>3, <1>t, <1>n, AckStep
  <2>3. up
    BY <1>t, <2>2 DEF AttemptsInv
  <2>4. UNCHANGED <<up, attempts, crashes>>
    BY <1>3, <1>t, AckStep
  <2>5. QED
    BY <1>t, <2>1, <2>2, <2>3, <2>4 DEF AttemptsInv
<1>4. ASSUME NEW c \in Jobs, Fetch(c) PROVE AttemptsInv'
  <2>1. \A k \in Jobs : k # c => /\ pc'[k] = pc[k] /\ queue'[k] = queue[k]
                                 /\ attempts'[k] = attempts[k]
    BY <1>4, <1>t, <1>n, FetchStep
  <2>2. /\ pc'[c] # "idle" /\ queue'[c] = "Running" /\ attempts'[c] = attempts[c] + 1
        /\ up /\ UNCHANGED <<up, crashes>>
    BY <1>4, <1>t, <1>n, FetchStep, EntryKinds
  <2>3. attempts'[c] > 0 /\ attempts'[c] <= MaxAttempts + crashes + 1
    BY <1>4, <2>2, <1>n, FetchRoom, Bounds
  <2>4. QED
    BY <1>t, <2>1, <2>2, <2>3 DEF AttemptsInv
<1>5. CASE Push
  <2>1. UNCHANGED <<up, attempts, crashes>>
    BY <1>5, PushStep
  <2>2. pc'[Fan] # "idle" /\ pc[Fan] # "idle" /\ \A k \in Jobs : k # Fan => pc'[k] = pc[k]
    BY <1>5, <1>n, PushStep
  <2>3. CASE queue' = queue
    BY <1>t, <2>1, <2>2, <2>3 DEF AttemptsInv
  <2>4. CASE next \in DOMAIN Batch /\ queue' = [queue EXCEPT ![Pushed] = "Pending"]
    <3>1. Pushed \in Copies /\ queue[Pushed] = "none" /\ Pushed \in Jobs /\ Pushed # Fan
      BY <1>5, <2>4, PushStep, CopyKinds, JobKinds
    <3>2. attempts[Pushed] = 0 /\ pc[Pushed] = "idle"
      BY <1>t, <3>1 DEF AttemptsInv
    <3>3. queue'[Pushed] = "Pending" /\ \A k \in Jobs : k # Pushed => queue'[k] = queue[k]
      BY <1>n, <2>4, <3>1
    <3>4. attempts[Pushed] <= MaxAttempts + crashes /\ attempts[Pushed] <= MaxAttempts + crashes + 1
      BY <1>n, <3>2, Bounds
    <3>5. QED
      BY <1>t, <2>1, <2>2, <3>1, <3>2, <3>3, <3>4 DEF AttemptsInv
  <2>5. QED
    BY <1>5, <2>3, <2>4, PushStep
<1>6. CASE Start
  <2>1. \A k \in Jobs : queue'[k] # "Running" /\ pc'[k] = "idle"
    BY <1>6, StartStep
  <2>2. \A k \in Jobs : attempts'[k] = attempts[k] /\ attempts[k] <= MaxAttempts + crashes
    BY <1>6, <1>t, StartStep DEF AttemptsInv
  <2>3. \A k \in Jobs : attempts[k] <= MaxAttempts + crashes + 1
    BY <1>t DEF AttemptsInv
  <2>4. \A k \in Jobs : /\ queue'[k] = "none" => attempts[k] = 0
                        /\ queue'[k] = "Failed" => attempts[k] < MaxAttempts
    BY <1>6, <1>t, StartStep DEF AttemptsInv
  <2>5. crashes' = crashes
    BY <1>6, StartStep
  <2>6. QED
    BY <2>1, <2>2, <2>3, <2>4, <2>5 DEF AttemptsInv
<1>7. CASE Crash
  <2>1. \A k \in Jobs : /\ attempts[k] \in Nat
                        /\ attempts[k] <= MaxAttempts + crashes + 1
    BY <1>t, <1>n DEF AttemptsInv
  <2>2. crashes' = crashes + 1
    BY <1>7, <1>t, CrashStep
  <2>3. \A k \in Jobs : /\ attempts[k] <= MaxAttempts + crashes'
                        /\ attempts[k] <= MaxAttempts + crashes' + 1
    BY <2>1, <2>2, <1>n, Bounds
  <2>4. QED
    BY <1>7, <1>t, <2>3, CrashStep DEF AttemptsInv
<1>8. CASE UNCHANGED vars
  BY <1>8, <1>t DEF AttemptsInv, vars, queueVars
<1>9. QED
  BY <1>1, <1>2, <1>3, <1>4, <1>5, <1>6, <1>7, <1>8 DEF Next, Worker

(* The parts of KindsInv that speak of rows, under a step that queues no   *)
(* new job.                                                                *)
LEMMA NamesKept ==
  ASSUME LegacyInv, \A k \in Jobs : (queue'[k] = "none") = (queue[k] = "none"),
         \A r \in Rows : status[r] # "none" => status'[r] # "none",
         attempts'[Fan] \in Nat, attempts'[Fan] >= attempts[Fan]
  PROVE  /\ \A r \in Rows : JobsOf(r)' = JobsOf(r)
         /\ \A r \in Rows : JobsOf(r)' # {} => status'[r] # "none"
         /\ \A i \in Items : queue'[Fan] # "none" => status'[i] # "none"
         /\ \A c \in Copies : c[2] > attempts'[Fan] => queue'[c] = "none"
<1>1. \A r \in Rows : JobsOf(r)' = JobsOf(r)
  BY JobKinds DEF JobsOf
<1>2. Fan \in Jobs /\ Copies \subseteq Jobs /\ Items \subseteq Rows
  BY JobKinds, CopyKinds DEF Rows
<1>3. \A c \in Copies : c[2] \in Nat
  BY CopyKinds, Bounds
<1>4. attempts[Fan] \in Nat
  BY <1>2 DEF LegacyInv, TypeOK
<1>5. \A c \in Copies : c[2] > attempts'[Fan] => c[2] > attempts[Fan]
  BY <1>3, <1>4
<1>6. QED
  BY <1>1, <1>2, <1>5 DEF LegacyInv, KindsInv

LEMMA KindsStep == LegacyInv /\ [Next]_vars => KindsInv'
<1> SUFFICES ASSUME LegacyInv, [Next]_vars PROVE KindsInv'
  OBVIOUS
<1>t. TypeOK /\ AttemptsInv /\ KindsInv
  BY DEF LegacyInv
<1>n. /\ pc \in [Jobs -> Counters] /\ queue \in [Jobs -> Queues]
      /\ attempts \in [Jobs -> Nat] /\ attempts[Fan] \in Nat
  BY <1>t, JobKinds DEF TypeOK
<1>1. ASSUME NEW c \in RowJobs, RowHandler(c) PROVE KindsInv'
  <2>1. \A k \in Jobs : k # c => pc'[k] = pc[k]
    BY <1>1, <1>t, <1>n, RowHandlerStep
  <2>2. pc[Fan]' = pc[Fan] /\ \A k \in Moves : pc'[k] = pc[k]
    BY <1>1, <2>1, JobKinds
  <2>3. \A k \in RowJobs : pc'[k] \notin {"push", "transfer"}
    <3>1. pc'[c] \notin {"push", "transfer"}
      BY <1>1, <1>t, RowHandlerStep
    <3>2. QED
      BY <1>t, <2>1, <3>1, JobKinds DEF KindsInv
  <2>4. status[c[1]] # "none"
    <3>1. pc[c] # "idle"
      BY <1>1, <1>t, RowHandlerStep
    <3>2. queue[c] # "none"
      BY <1>1, <1>t, <3>1, JobKinds DEF AttemptsInv
    <3>3. c \in JobsOf(c[1])
      BY <1>1, <3>2 DEF JobsOf
    <3>4. QED
      BY <1>1, <1>t, <3>3, JobKinds DEF KindsInv
  <2>5. \A r \in Rows : status[r] # "none" => status'[r] # "none"
    BY <1>1, <1>t, <2>4, RowHandlerStep
  <2>6. UNCHANGED <<up, stuck, queue, attempts>>
    BY <1>1, <1>t, RowHandlerStep
  <2>7. QED
    BY <1>t, <1>n, <2>2, <2>3, <2>5, <2>6, NamesKept DEF KindsInv
<1>2. ASSUME NEW c \in Moves, Transfer(c) PROVE KindsInv'
  <2>1. \A k \in Jobs : k # c => pc'[k] = pc[k]
    BY <1>2, <1>t, <1>n, TransferStep
  <2>2. pc[Fan]' = pc[Fan] /\ \A k \in RowJobs : pc'[k] = pc[k]
    BY <1>2, <2>1, JobKinds
  <2>3. pc'[c] \in {"ackOk", "ackRetry", "ackAbort"}
    BY <1>2, <1>t, TransferStep
  <2>4. UNCHANGED <<up, stuck, queue, attempts, status>>
    BY <1>2, <1>t, TransferStep
  <2>5. \A k \in Moves : pc'[k] \in {"idle", "transfer", "ackOk", "ackRetry", "ackAbort"}
    BY <1>2, <1>t, <2>1, <2>3, JobKinds DEF KindsInv
  <2>6. QED
    BY <1>t, <1>n, <2>2, <2>4, <2>5, NamesKept DEF KindsInv
<1>3. ASSUME NEW c \in Jobs, Ack(c) PROVE KindsInv'
  <2>1. \A k \in Jobs : pc'[k] \in {pc[k], "idle"}
    BY <1>3, <1>t, <1>n, AckStep
  <2>2. pc[c] # "idle" /\ queue'[c] # "none"
    BY <1>3, <1>t, AckStep
  <2>3. \A k \in Jobs : (queue'[k] = "none") = (queue[k] = "none")
    BY <1>3, <1>t, <1>n, <2>2, AckStep DEF AttemptsInv
  <2>4. UNCHANGED <<up, stuck, attempts, status>>
    BY <1>3, <1>t, AckStep
  <2>5. /\ pc'[Fan] \in {"idle", "push", "ackOk", "ackRetry"}
        /\ \A k \in Moves : pc'[k] \in {"idle", "transfer", "ackOk", "ackRetry", "ackAbort"}
        /\ \A k \in RowJobs : pc'[k] \notin {"push", "transfer"}
    BY <1>t, <2>1, JobKinds DEF KindsInv
  <2>6. QED
    BY <1>t, <1>n, <2>3, <2>4, <2>5, NamesKept DEF KindsInv
<1>4. ASSUME NEW c \in Jobs, Fetch(c) PROVE KindsInv'
  <2>1. \A k \in Jobs : pc'[k] = IF k = c THEN Entry(c) ELSE pc[k]
    BY <1>4, <1>t, <1>n, FetchStep
  <2>2. \A k \in Jobs : (queue'[k] = "none") = (queue[k] = "none")
    BY <1>4, <1>t, <1>n, FetchStep
  <2>3. UNCHANGED <<up, stuck, status>>
    BY <1>4, <1>t, FetchStep
  <2>4. attempts'[Fan] \in {attempts[Fan], attempts[Fan] + 1}
    BY <1>4, <1>t, <1>n, FetchStep, JobKinds
  <2>5. attempts'[Fan] \in Nat /\ attempts'[Fan] >= attempts[Fan]
    BY <1>n, <2>4
  <2>6. pc'[Fan] \in {"idle", "push", "ackOk", "ackRetry"}
    BY <1>t, <2>1, EntryKinds, JobKinds DEF KindsInv
  <2>7. \A k \in Moves : pc'[k] \in {"idle", "transfer", "ackOk", "ackRetry", "ackAbort"}
    BY <1>t, <2>1, EntryKinds, JobKinds DEF KindsInv
  <2>8. \A k \in RowJobs : pc'[k] \notin {"push", "transfer"}
    BY <1>t, <2>1, EntryKinds, JobKinds DEF KindsInv
  <2>9. QED
    BY <1>t, <2>2, <2>3, <2>5, <2>6, <2>7, <2>8, NamesKept DEF KindsInv
<1>5. CASE Push
  <2>1. \A k \in Jobs : k # Fan => pc'[k] = pc[k]
    BY <1>5, <1>n, PushStep
  <2>2. /\ pc'[Fan] \in {"idle", "push", "ackOk", "ackRetry"}
        /\ UNCHANGED <<up, stuck, attempts, status>>
    BY <1>5, PushStep
  <2>3. /\ \A k \in Moves : pc'[k] \in {"idle", "transfer", "ackOk", "ackRetry", "ackAbort"}
        /\ \A k \in RowJobs : pc'[k] \notin {"push", "transfer"}
    BY <1>t, <2>1, JobKinds DEF KindsInv
  <2>4. CASE queue' = queue
    BY <1>t, <1>n, <2>2, <2>3, <2>4, NamesKept DEF KindsInv
  <2>5. CASE next \in DOMAIN Batch /\ queue' = [queue EXCEPT ![Pushed] = "Pending"]
    <3>1. /\ Pushed \in Copies /\ Pushed \in Jobs /\ Pushed # Fan
          /\ Pushed[1] \in Items /\ Pushed[2] = attempts[Fan]
      BY <1>5, <2>5, PushStep, CopyKinds, JobKinds
    <3>2. \A k \in Jobs : k # Pushed => queue'[k] = queue[k]
      BY <1>n, <2>5
    <3>3. \A c \in Copies : c[2] > attempts[Fan] => queue'[c] = "none"
      <4>1. \A c \in Copies : c[2] > attempts[Fan] => c # Pushed
        BY <1>n, <3>1
      <4>2. QED
        BY <1>t, <3>2, <4>1, CopyKinds, JobKinds DEF KindsInv
    <3>4. queue'[Fan] = queue[Fan] /\ queue[Fan] # "none"
      BY <1>5, <3>1, <3>2, FanRuns, PushStep, JobKinds
    <3>5. \A i \in Items : status[i] # "none"
      BY <1>t, <3>4 DEF KindsInv
    <3>6. \A r \in Rows : r \notin Items => JobsOf(r)' = JobsOf(r)
      BY <3>1, <3>2, JobKinds DEF JobsOf
    <3>7. \A r \in Rows : JobsOf(r)' # {} => status'[r] # "none"
      BY <1>t, <2>2, <3>5, <3>6 DEF KindsInv
    <3>8. QED
      BY <1>t, <2>2, <2>3, <3>3, <3>5, <3>7 DEF KindsInv
  <2>6. QED
    BY <1>5, <2>4, <2>5, PushStep
<1>6. CASE Start
  <2>1. \A k \in Jobs : (queue'[k] = "none") = (queue[k] = "none")
    BY <1>6, StartStep
  <2>2. UNCHANGED <<attempts, pc, status>> /\ stuck' = {}
    BY <1>6, StartStep
  <2>3. QED
    BY <1>t, <1>n, <2>1, <2>2, NamesKept DEF KindsInv
<1>7. CASE Crash
  <2>1. UNCHANGED <<stuck, queue, attempts, status>> /\ up' = FALSE
    BY <1>7, <1>t, CrashStep
  <2>2. \A k \in Jobs : pc'[k] = "idle"
    BY <1>7, <1>t, CrashStep
  <2>3. /\ pc'[Fan] \in {"idle", "push", "ackOk", "ackRetry"}
        /\ \A k \in Moves : pc'[k] \in {"idle", "transfer", "ackOk", "ackRetry", "ackAbort"}
        /\ \A k \in RowJobs : pc'[k] \notin {"push", "transfer"}
    BY <2>2, JobKinds
  <2>4. QED
    BY <1>n, <2>1, <2>3, NamesKept DEF KindsInv
<1>8. CASE UNCHANGED vars
  BY <1>8, <1>t DEF KindsInv, JobsOf, vars, queueVars
<1>9. QED
  BY <1>1, <1>2, <1>3, <1>4, <1>5, <1>6, <1>7, <1>8 DEF Next, Worker

-----------------------------------------------------------------------------
(* A step that neither queues a job nor belongs to the bulk job.           *)
LEMMA PushedKept ==
  ASSUME LegacyInv, \A k \in Jobs : (queue'[k] = "none") = (queue[k] = "none"),
         queue'[Fan] = "Done" => queue[Fan] = "Done",
         pc'[Fan] # "idle" => UNCHANGED <<pc[Fan], next, attempts[Fan]>>
  PROVE  PushedInv'
<1>1. \A i \in Items : JobsOf(i)' = JobsOf(i)
  BY JobKinds DEF JobsOf
<1>2. FannedOutIsQueued'
  BY <1>1 DEF FannedOutIsQueued, LegacyInv, PushedInv
<1>3. ASSUME pc'[Fan] # "idle"
      PROVE  /\ \A n \in 1 .. (next' - 1) : queue'[<<Batch[n], attempts'[Fan]>>] # "none"
             /\ pc'[Fan] = "push" => \A n \in next' .. Cardinality(Items) :
                                      queue'[<<Batch[n], attempts'[Fan]>>] = "none"
             /\ pc'[Fan] = "ackOk" => next' \notin DOMAIN Batch
  <2>1. \A n \in DOMAIN Batch : <<Batch[n], attempts[Fan]>> \in Jobs
    BY <1>3, FanRuns, CopyKinds, JobKinds
  <2>2. next \in 1 .. (Cardinality(Items) + 1)
    BY DEF LegacyInv, TypeOK
  <2>3. /\ \A n \in 1 .. (next - 1) : n \in DOMAIN Batch
        /\ \A n \in next .. Cardinality(Items) : n \in DOMAIN Batch
    BY <2>2, Bounds
  <2>4. QED
    BY <1>3, <2>1, <2>3 DEF LegacyInv, PushedInv
<1>4. QED
  BY <1>2, <1>3 DEF PushedInv

LEMMA PushedStep == LegacyInv /\ [Next]_vars => PushedInv'
<1> SUFFICES ASSUME LegacyInv, [Next]_vars PROVE PushedInv'
  OBVIOUS
<1>t. TypeOK /\ AttemptsInv /\ KindsInv /\ PushedInv
  BY DEF LegacyInv
<1>n. /\ pc \in [Jobs -> Counters] /\ queue \in [Jobs -> Queues]
      /\ attempts \in [Jobs -> Nat] /\ next \in 1 .. (Cardinality(Items) + 1)
      /\ Fan \in Jobs
  BY <1>t, JobKinds DEF TypeOK
<1>1. ASSUME NEW c \in RowJobs, RowHandler(c) PROVE PushedInv'
  <2>1. pc'[Fan] = pc[Fan]
    BY <1>1, <1>t, <1>n, RowHandlerStep, JobKinds
  <2>2. QED
    BY <1>1, <1>t, <2>1, RowHandlerStep, PushedKept
<1>2. ASSUME NEW c \in Moves, Transfer(c) PROVE PushedInv'
  <2>1. pc'[Fan] = pc[Fan]
    BY <1>2, <1>t, <1>n, TransferStep, JobKinds
  <2>2. QED
    BY <1>2, <1>t, <2>1, TransferStep, PushedKept
<1>3. ASSUME NEW c \in Jobs, Ack(c) PROVE PushedInv'
  <2>1. \A k \in Jobs : (queue'[k] = "none") = (queue[k] = "none")
    BY <1>3, <1>t, <1>n, AckStep DEF AttemptsInv
  <2>2. UNCHANGED <<next, attempts>> /\ pc'[Fan] \in {pc[Fan], "idle"}
    BY <1>3, <1>t, <1>n, AckStep
  <2>3. CASE queue'[Fan] = "Done" => queue[Fan] = "Done"
    BY <2>1, <2>2, <2>3, PushedKept
  <2>4. CASE queue'[Fan] = "Done" /\ queue[Fan] # "Done"
    <3>1. c = Fan
      BY <1>3, <1>t, <1>n, <2>4, AckStep
    <3>2. pc[Fan] = "ackOk" /\ pc'[Fan] = "idle"
      BY <1>3, <1>t, <1>n, <2>4, <3>1, AckStep
    <3>3. next \notin DOMAIN Batch
      BY <1>t, <3>2 DEF PushedInv
    <3>4. next - 1 = Cardinality(Items)
      BY <1>n, <3>3, Bounds
    <3>5. \A n \in DOMAIN Batch : queue[<<Batch[n], attempts[Fan]>>] # "none"
      BY <1>t, <3>2, <3>4, Bounds DEF PushedInv
    <3>6. ASSUME NEW i \in Items PROVE JobsOf(i)' # {}
      <4>1. PICK n \in DOMAIN Batch : Batch[n] = i
        BY BatchAssumption
      <4>2. <<i, attempts[Fan]>> \in Copies /\ queue[<<i, attempts[Fan]>>] # "none"
        BY <3>2, <3>5, <4>1, FanRuns
      <4>3. <<i, attempts[Fan]>> \in RowJobs /\ <<i, attempts[Fan]>> \in Jobs
        BY <4>2, CopyKinds, JobKinds
      <4>4. <<i, attempts[Fan]>> \in JobsOf(i)'
        BY <2>1, <4>2, <4>3 DEF JobsOf
      <4>5. QED
        BY <4>4
    <3>7. QED
      BY <3>2, <3>6 DEF PushedInv, FannedOutIsQueued
  <2>5. QED
    BY <2>3, <2>4
<1>4. ASSUME NEW c \in Jobs, Fetch(c) PROVE PushedInv'
  <2>1. \A k \in Jobs : (queue'[k] = "none") = (queue[k] = "none")
    BY <1>4, <1>t, <1>n, FetchStep
  <2>2. queue'[Fan] = "Done" => queue[Fan] = "Done"
    BY <1>4, <1>t, <1>n, FetchStep
  <2>3. CASE c # Fan
    <3>1. UNCHANGED <<pc[Fan], next, attempts[Fan]>>
      BY <1>4, <1>t, <1>n, <2>3, FetchStep
    <3>2. QED
      BY <2>1, <2>2, <3>1, PushedKept
  <2>4. CASE c = Fan
    <3>1. /\ next' = 1 /\ attempts'[Fan] = attempts[Fan] + 1 /\ queue'[Fan] = "Running"
          /\ pc'[Fan] = "push"
      BY <1>4, <1>t, <1>n, <2>4, FetchStep, EntryKinds
    <3>2. attempts[Fan] \in Nat /\ attempts[Fan] + 1 \in 1 .. Tries
      BY <1>4, <1>n, <2>4, FetchRoom
    <3>3. ASSUME NEW n \in DOMAIN Batch
          PROVE  queue'[<<Batch[n], attempts'[Fan]>>] = "none"
      <4>1. Batch[n] \in Items
        BY BatchAssumption
      <4>2. /\ <<Batch[n], attempts'[Fan]>> \in Copies
            /\ <<Batch[n], attempts'[Fan]>>[2] = attempts[Fan] + 1
        BY <3>1, <3>2, <4>1, CopyKinds
      <4>3. attempts[Fan] + 1 > attempts[Fan]
        BY <3>2
      <4>4. queue[<<Batch[n], attempts'[Fan]>>] = "none"
        BY <1>t, <4>2, <4>3 DEF KindsInv
      <4>5. QED
        BY <2>1, <4>2, <4>4, CopyKinds, JobKinds
    <3>4. \A n \in next' .. Cardinality(Items) : queue'[<<Batch[n], attempts'[Fan]>>] = "none"
      BY <3>1, <3>3, Bounds
    <3>5. \A n \in 1 .. (next' - 1) : FALSE
      BY <3>1
    <3>6. QED
      BY <3>1, <3>4, <3>5 DEF PushedInv, FannedOutIsQueued
  <2>5. QED
    BY <2>3, <2>4
<1>5. CASE Push
  <2>1. /\ pc[Fan] = "push" /\ attempts' = attempts /\ queue[Fan] = "Running"
        /\ pc'[Fan] \in {"push", "ackOk", "ackRetry"}
    BY <1>5, PushStep, FanRuns
  <2>2. CASE queue' = queue
    <3>1. next' = next
      BY <1>5, <2>2, <1>n, PushStep, CopyKinds, JobKinds
    <3>2. pc'[Fan] = "push" => FALSE
      BY <1>5, <2>2, <1>n, PushStep, CopyKinds, JobKinds
    <3>3. pc'[Fan] = "ackOk" => next \notin DOMAIN Batch
      BY <1>5, PushStep
    <3>4. QED
      BY <1>t, <2>1, <2>2, <3>1, <3>2, <3>3 DEF PushedInv, FannedOutIsQueued
  <2>3. CASE next \in DOMAIN Batch /\ queue' = [queue EXCEPT ![Pushed] = "Pending"]
    <3>1. Pushed \in Copies /\ Pushed \in Jobs /\ Pushed # Fan
      BY <1>5, <2>3, PushStep, CopyKinds, JobKinds
    <3>2. \A k \in Jobs : queue'[k] = IF k = Pushed THEN "Pending" ELSE queue[k]
      BY <1>n, <2>3
    <3>3. queue'[Fan] = "Running"
      BY <1>n, <2>1, <3>1, <3>2
    <3>4. \A n \in DOMAIN Batch : <<Batch[n], attempts[Fan]>> \in Jobs
      BY <2>1, FanRuns, CopyKinds, JobKinds
    <3>5. \A n \in 1 .. (next - 1) : queue'[<<Batch[n], attempts[Fan]>>] # "none"
      <4>1. \A n \in 1 .. (next - 1) : n \in DOMAIN Batch
        BY <1>n, Bounds
      <4>2. \A n \in 1 .. (next - 1) : queue[<<Batch[n], attempts[Fan]>>] # "none"
        BY <1>t, <2>1 DEF PushedInv
      <4>3. QED
        BY <3>2, <3>4, <4>1, <4>2
    <3>6. queue'[<<Batch[next], attempts[Fan]>>] # "none"
      BY <3>1, <3>2 DEF Pushed
    <3>7. \A n \in (next + 1) .. Cardinality(Items) :
            queue'[<<Batch[n], attempts[Fan]>>] = "none"
      <4>1. ASSUME NEW n \in (next + 1) .. Cardinality(Items)
            PROVE  n \in DOMAIN Batch /\ n # next /\ n \in next .. Cardinality(Items)
        BY <1>n, Bounds
      <4>2. ASSUME NEW n \in (next + 1) .. Cardinality(Items)
            PROVE  <<Batch[n], attempts[Fan]>> # Pushed
        BY <2>3, <4>1, BatchAssumption DEF Pushed
      <4>3. \A n \in next .. Cardinality(Items) : queue[<<Batch[n], attempts[Fan]>>] = "none"
        BY <1>t, <2>1 DEF PushedInv
      <4>4. QED
        BY <3>2, <3>4, <4>1, <4>2, <4>3
    <3>8. CASE next' = next + 1
      <4>1. \A n \in 1 .. (next' - 1) : n \in 1 .. (next - 1) \/ n = next
        BY <1>n, <3>8
      <4>2. \A n \in 1 .. (next' - 1) : queue'[<<Batch[n], attempts'[Fan]>>] # "none"
        BY <2>1, <3>5, <3>6, <4>1
      <4>3. pc'[Fan] # "ackOk"
        BY <1>5, <2>3, PushStep
      <4>4. QED
        BY <2>1, <3>3, <3>7, <3>8, <4>2, <4>3 DEF PushedInv, FannedOutIsQueued
    <3>9. CASE next' = next /\ pc'[Fan] = "ackRetry"
      BY <2>1, <3>3, <3>5, <3>9 DEF PushedInv, FannedOutIsQueued
    <3>10. QED
      <4>1. queue' # queue
        BY <1>5, <2>3, <3>1, <3>2, PushStep
      <4>2. QED
        BY <1>5, <3>8, <3>9, <4>1, PushStep
  <2>4. QED
    BY <1>5, <2>2, <2>3, PushStep
<1>6. CASE Start
  BY <1>6, <1>n, StartStep, PushedKept
<1>7. CASE Crash
  BY <1>7, <1>t, <1>n, CrashStep, PushedKept
<1>8. CASE UNCHANGED vars
  BY <1>8, PushedKept DEF vars, queueVars
<1>9. QED
  BY <1>1, <1>2, <1>3, <1>4, <1>5, <1>6, <1>7, <1>8 DEF Next, Worker

-----------------------------------------------------------------------------
(* A step that takes no row back and puts no handler ahead of its memory.  *)
LEMMA ProgressKept ==
  ASSUME ProgressInv, UNCHANGED <<vec, owned, status>>,
         \A c \in RowJobs :
           /\ pc'[c] \in {"uploaded", "index", "finish", "ackOk"} => pc[c] = pc'[c]
           /\ queue'[c] = "Done" => queue[c] = "Done" \/ pc[c] = "ackOk",
         \A c \in Moves :
           /\ pc'[c] = "ackOk" => pc[c] = "ackOk"
           /\ queue'[c] = "Done" => queue[c] = "Done" \/ pc[c] = "ackOk"
  PROVE  ProgressInv'
BY DEF ProgressInv

LEMMA ProgressStep == LegacyInv /\ [Next]_vars => ProgressInv'
<1> SUFFICES ASSUME LegacyInv, [Next]_vars PROVE ProgressInv'
  OBVIOUS
<1>t. TypeOK /\ AttemptsInv /\ ProgressInv
  BY DEF LegacyInv
<1>n. /\ pc \in [Jobs -> Counters] /\ queue \in [Jobs -> Queues]
      /\ status \in [Rows -> Statuses] /\ vec \subseteq Rows
      /\ RowJobs \subseteq Jobs /\ Moves \subseteq Jobs
  BY <1>t, JobKinds DEF TypeOK
<1>1. ASSUME NEW c \in RowJobs, RowHandler(c) PROVE ProgressInv'
  <2>1. queue' = queue /\ c \in Jobs /\ c[1] \in Rows
    BY <1>1, <1>t, <1>n, RowHandlerStep, JobKinds
  <2>2. \A k \in Jobs : k # c => pc'[k] = pc[k]
    BY <1>1, <1>t, <1>n, RowHandlerStep
  <2>3. /\ vec \subseteq vec' /\ owned \subseteq owned'
        /\ \A r \in Rows : r # c[1] => status'[r] = status[r]
    BY <1>1, <1>t, RowHandlerStep
  <2>4. ASSUME vec' \subseteq owned', status'[c[1]] = "done" => c[1] \in vec',
               pc'[c] \in {"uploaded", "index", "finish", "ackOk"} => c[1] \in owned',
               pc'[c] \in {"finish", "ackOk"} => c[1] \in vec'
        PROVE  ProgressInv'
    <3>1. \A r \in Rows : status'[r] = "done" => r \in vec'
      BY <1>t, <2>3, <2>4 DEF ProgressInv
    <3>2. \A k \in RowJobs :
            pc'[k] \in {"uploaded", "index", "finish", "ackOk"} => k[1] \in owned'
      BY <1>t, <1>n, <2>2, <2>3, <2>4 DEF ProgressInv
    <3>3. \A k \in RowJobs :
            pc'[k] \in {"finish", "ackOk"} \/ queue'[k] = "Done" => k[1] \in vec'
      BY <1>t, <1>n, <2>1, <2>2, <2>3, <2>4 DEF ProgressInv
    <3>4. \A k \in Moves : pc'[k] = pc[k]
      BY <1>1, <1>n, <2>2, JobKinds
    <3>5. QED
      BY <1>t, <2>1, <2>3, <2>4, <3>1, <3>2, <3>3, <3>4 DEF ProgressInv
  <2>5. CASE MarkRunning(c)
    <3>1. UNCHANGED <<vec, owned>> /\ pc'[c] = "upload"
      BY <2>1, <2>5, <1>n DEF MarkRunning, At
    <3>2. status'[c[1]] \in {status[c[1]], "running"}
      BY <2>1, <2>5, <1>n DEF MarkRunning, SetStatus
    <3>3. QED
      BY <1>t, <2>1, <2>4, <3>1, <3>2 DEF ProgressInv
  <2>6. CASE Upload(c)
    <3>1. UNCHANGED <<vec, status>>
      BY <2>6 DEF Upload
    <3>2. c[1] \in owned' \/ pc'[c] \in {"failRetry", "failAbort"}
      BY <2>1, <2>6, <1>n DEF Upload, At, Fails
    <3>3. pc'[c] \notin {"finish", "ackOk"}
      BY <2>1, <2>6, <1>n DEF Upload, At, Fails
    <3>4. QED
      BY <1>t, <2>1, <2>3, <2>4, <3>1, <3>2, <3>3 DEF ProgressInv
  <2>7. CASE MarkUploaded(c)
    <3>1. UNCHANGED <<vec, owned>> /\ pc'[c] = "index" /\ pc[c] = "uploaded"
      BY <2>1, <2>7, <1>n DEF MarkUploaded, At
    <3>2. status'[c[1]] \in {status[c[1]], "uploaded"}
      BY <2>1, <2>7, <1>n DEF MarkUploaded, SetStatus
    <3>3. QED
      BY <1>1, <1>t, <2>1, <2>4, <3>1, <3>2 DEF ProgressInv
  <2>8. CASE Insert(c)
    <3>1. UNCHANGED <<status, owned>> /\ pc[c] = "index"
      BY <2>8 DEF Insert, At
    <3>2. c[1] \in owned
      BY <1>1, <1>t, <3>1 DEF ProgressInv
    <3>3. vec' \in {vec, vec \cup {c[1]}}
      BY <2>8 DEF Insert
    <3>4. (pc'[c] = "finish" /\ c[1] \in vec') \/ pc'[c] = "failRetry"
      BY <2>1, <2>8, <1>n DEF Insert, At
    <3>5. QED
      BY <1>t, <2>1, <2>3, <2>4, <3>1, <3>2, <3>3, <3>4 DEF ProgressInv
  <2>9. CASE MarkDone(c)
    <3>1. UNCHANGED <<vec, owned>> /\ pc'[c] = "ackOk" /\ pc[c] = "finish"
      BY <2>1, <2>9, <1>n DEF MarkDone, At
    <3>2. QED
      BY <1>1, <1>t, <2>1, <2>4, <3>1 DEF ProgressInv
  <2>10. CASE MarkFailed(c)
    <3>1. UNCHANGED <<vec, owned>> /\ pc'[c] \in {"ackRetry", "ackAbort"}
      BY <2>1, <2>10, <1>n DEF MarkFailed, At
    <3>2. status'[c[1]] \in {status[c[1]], "failed"}
      BY <2>1, <2>10, <1>n DEF MarkFailed, SetStatus
    <3>3. QED
      BY <1>t, <2>1, <2>4, <3>1, <3>2 DEF ProgressInv
  <2>11. QED
    BY <1>1, <2>5, <2>6, <2>7, <2>8, <2>9, <2>10 DEF RowHandler
<1>2. ASSUME NEW c \in Moves, Transfer(c) PROVE ProgressInv'
  <2>1. UNCHANGED <<queue, status, vec>> /\ owned \subseteq owned'
    BY <1>2, <1>t, TransferStep
  <2>2. \A k \in Jobs : k # c => pc'[k] = pc[k]
    BY <1>2, <1>t, <1>n, TransferStep
  <2>3. pc'[c] = "ackOk" => c[1] \in owned'
    BY <1>2, <1>t, TransferStep
  <2>4. \A k \in RowJobs : pc'[k] = pc[k]
    BY <1>2, <1>n, <2>2, JobKinds
  <2>5. \A k \in Moves : pc'[k] = "ackOk" \/ queue'[k] = "Done" => k[1] \in owned'
    BY <1>t, <1>n, <2>1, <2>2, <2>3 DEF ProgressInv
  <2>6. QED
    BY <1>t, <2>1, <2>4, <2>5 DEF ProgressInv
<1>3. ASSUME NEW c \in Jobs, Ack(c) PROVE ProgressInv'
  <2>1. UNCHANGED <<vec, owned, status>>
    BY <1>3, <1>t, AckStep
  <2>2. \A k \in Jobs : /\ pc'[k] = "idle" \/ pc'[k] = pc[k]
                        /\ queue'[k] = "Done" => queue[k] = "Done" \/ pc[k] = "ackOk"
    BY <1>3, <1>t, <1>n, AckStep
  <2>3. QED
    BY <1>t, <1>n, <2>1, <2>2, ProgressKept
<1>4. ASSUME NEW c \in Jobs, Fetch(c) PROVE ProgressInv'
  <2>1. UNCHANGED <<vec, owned, status>>
    BY <1>4, <1>t, FetchStep
  <2>2. \A k \in Jobs : /\ pc'[k] \in {"push", "transfer", "start"} \/ pc'[k] = pc[k]
                        /\ queue'[k] = "Done" => queue[k] = "Done"
    BY <1>4, <1>t, <1>n, FetchStep, EntryKinds
  <2>3. QED
    BY <1>t, <1>n, <2>1, <2>2, ProgressKept
<1>5. CASE Push
  <2>1. UNCHANGED <<vec, owned, status>>
    BY <1>5, PushStep
  <2>2. \A k \in Jobs : k # Fan => pc'[k] = pc[k]
    BY <1>5, <1>n, PushStep
  <2>3. \A k \in Jobs : queue'[k] = "Done" => queue[k] = "Done"
    BY <1>5, <1>n, PushStep
  <2>4. QED
    BY <1>t, <1>n, <2>1, <2>2, <2>3, JobKinds, ProgressKept
<1>6. CASE Start
  BY <1>6, <1>t, <1>n, StartStep, ProgressKept
<1>7. CASE Crash
  BY <1>7, <1>t, <1>n, CrashStep, ProgressKept
<1>8. CASE UNCHANGED vars
  BY <1>8, <1>t, ProgressKept DEF vars, queueVars
<1>9. QED
  BY <1>1, <1>2, <1>3, <1>4, <1>5, <1>6, <1>7, <1>8 DEF Next, Worker

-----------------------------------------------------------------------------
(* What ReportInv says of one row.                                         *)
Reported(r) ==
  /\ JobsOf(r) # {} /\ (\A c \in JobsOf(r) : Marked(c)) => Settled(r)
  /\ status[r] = "done" => \E c \in JobsOf(r) : Untouched(c)

(* A step that writes no row, marks no job that was not, and leaves the    *)
(* successful jobs untouched.                                              *)
LEMMA ReportKept ==
  ASSUME LegacyInv, NEW r \in Rows \ Losing, status'[r] = status[r],
         JobsOf(r) \subseteq JobsOf(r)',
         \A k \in JobsOf(r)' : Marked(k)' => k \in JobsOf(r) /\ Marked(k),
         \A k \in JobsOf(r) : Untouched(k) => Untouched(k)'
  PROVE  Reported(r)'
<1>1. Reported(r)
  BY DEF LegacyInv, ReportInv, Reported
<1>2. Settled(r)' = Settled(r)
  BY DEF Settled
<1>3. status'[r] = "done" => \E k \in JobsOf(r)' : Untouched(k)'
  BY <1>1 DEF Reported
<1>4. JobsOf(r)' # {} /\ (\A k \in JobsOf(r)' : Marked(k)') => Settled(r)'
  BY <1>1, <1>2 DEF Reported
<1>5. QED
  BY <1>3, <1>4 DEF Reported

(* The same when the step leaves the queue alone.                          *)
LEMMA QueueKept ==
  ASSUME LegacyInv, queue' = queue
  PROVE  \A r \in Rows : JobsOf(r)' = JobsOf(r)
BY DEF JobsOf

LEMMA ReportStep == LegacyInv /\ [Next]_vars => ReportInv'
<1> SUFFICES ASSUME LegacyInv, [Next]_vars, NEW r \in Rows \ Losing PROVE Reported(r)'
  <2>1. (\A r \in Rows \ Losing : Reported(r)') => ReportInv'
    BY DEF Reported, ReportInv
  <2>2. QED
    BY <2>1
<1>t. TypeOK /\ AttemptsInv /\ KindsInv
  BY DEF LegacyInv
<1>n. /\ pc \in [Jobs -> Counters] /\ queue \in [Jobs -> Queues]
      /\ status \in [Rows -> Statuses]
      /\ \A k \in JobsOf(r) : /\ k \in RowJobs /\ k \in Jobs /\ k # Fan /\ k \notin Moves
                              /\ k[1] = r /\ queue[k] # "none"
  BY <1>t, JobKinds DEF TypeOK, JobsOf
<1>1. ASSUME NEW c \in RowJobs, RowHandler(c) PROVE Reported(r)'
  <2>1. /\ queue' = queue /\ c \in Jobs /\ c[1] \in Rows /\ JobsOf(r)' = JobsOf(r)
        /\ pc[c] # "idle"
    BY <1>1, <1>t, RowHandlerStep, JobKinds, QueueKept
  <2>2. queue[c] = "Running"
    BY <1>t, <2>1 DEF AttemptsInv
  <2>3. \A k \in Jobs : k # c => /\ pc'[k] = pc[k] /\ Marked(k)' = Marked(k)
                                 /\ Untouched(k)' = Untouched(k)
    <3>1. \A k \in Jobs : k # c => pc'[k] = pc[k]
      BY <1>1, <1>t, <1>n, RowHandlerStep
    <3>2. QED
      BY <2>1, <3>1 DEF Marked, Untouched, Ended
  <2>4. CASE c[1] # r
    <3>1. status'[r] = status[r]
      BY <1>1, <1>t, <2>4, RowHandlerStep
    <3>2. \A k \in JobsOf(r) : k # c
      BY <1>n, <2>4
    <3>3. QED
      BY <1>n, <2>1, <2>3, <3>1, <3>2, ReportKept
  <2>5. CASE c[1] = r
    <3>1. c \in JobsOf(r)
      BY <1>1, <2>2, <2>5 DEF JobsOf
    <3>2. CASE MarkRunning(c) \/ MarkUploaded(c)
      <4>1. status'[r] \in {"running", "uploaded"}
        BY <1>n, <2>5, <3>2 DEF MarkRunning, MarkUploaded, SetStatus
      <4>2. pc'[c] \in {"upload", "index"}
        BY <1>n, <2>1, <3>2 DEF MarkRunning, MarkUploaded, At
      <4>3. ~Marked(c)'
        BY <2>1, <2>2, <4>2 DEF Marked, Ended
      <4>4. QED
        BY <2>1, <3>1, <4>1, <4>3 DEF Reported
    <3>3. CASE Upload(c) \/ Insert(c)
      <4>1. status' = status /\ pc[c] \in {"upload", "index"}
        BY <3>3 DEF Upload, Insert, At, Fails
      <4>2. pc'[c] \in {"index", "uploaded", "finish", "failRetry", "failAbort"}
        BY <1>n, <2>1, <3>3 DEF Upload, Insert, At, Fails
      <4>3. ~Marked(c)' /\ ~Untouched(c)
        BY <2>1, <2>2, <4>1, <4>2 DEF Marked, Ended, Untouched
      <4>4. QED
        BY <1>n, <2>1, <2>3, <4>1, <4>3, ReportKept
    <3>4. CASE MarkDone(c)
      <4>1. status'[r] = "done" /\ pc'[c] = "ackOk"
        BY <1>n, <2>1, <2>5, <3>4 DEF MarkDone, SetStatus, At
      <4>2. Untouched(c)'
        BY <2>1, <2>2, <4>1 DEF Untouched
      <4>3. QED
        BY <2>1, <3>1, <4>1, <4>2 DEF Reported, Settled
    <3>5. CASE MarkFailed(c)
      <4>1. status'[r] = "failed"
        BY <1>n, <2>5, <3>5 DEF MarkFailed, SetStatus
      <4>2. QED
        BY <4>1 DEF Reported, Settled
    <3>6. QED
      BY <1>1, <3>2, <3>3, <3>4, <3>5 DEF RowHandler
  <2>6. QED
    BY <2>4, <2>5
<1>2. ASSUME NEW c \in Moves, Transfer(c) PROVE Reported(r)'
  <2>1. UNCHANGED <<queue, status>> /\ JobsOf(r)' = JobsOf(r)
    BY <1>2, <1>t, TransferStep, QueueKept
  <2>2. \A k \in JobsOf(r) : pc'[k] = pc[k]
    BY <1>2, <1>t, <1>n, TransferStep
  <2>3. \A k \in JobsOf(r) : Marked(k)' = Marked(k) /\ Untouched(k)' = Untouched(k)
    BY <2>1, <2>2 DEF Marked, Untouched, Ended
  <2>4. QED
    BY <2>1, <2>3, ReportKept
<1>3. ASSUME NEW c \in Jobs, Ack(c) PROVE Reported(r)'
  <2>1. UNCHANGED status /\ \A k \in Jobs : k # c => pc'[k] = pc[k] /\ queue'[k] = queue[k]
    BY <1>3, <1>t, <1>n, AckStep
  <2>2. /\ pc'[c] = "idle" /\ pc[c] \in {"ackOk", "ackRetry", "ackAbort"}
        /\ queue'[c] \in {"Done", "Failed", "Killed"}
        /\ pc[c] = "ackOk" => queue'[c] = "Done"
    BY <1>3, <1>t, <1>n, AckStep
  <2>3. queue[c] = "Running"
    BY <1>t, <2>2 DEF AttemptsInv
  <2>4. JobsOf(r)' = JobsOf(r)
    BY <2>1, <2>2, <2>3, JobKinds DEF JobsOf
  <2>5. Marked(c) /\ (Untouched(c) => Untouched(c)')
    BY <2>2, <2>3 DEF Marked, Untouched
  <2>6. \A k \in Jobs : k # c => Marked(k)' = Marked(k) /\ Untouched(k)' = Untouched(k)
    BY <2>1 DEF Marked, Untouched, Ended
  <2>7. QED
    BY <1>n, <2>1, <2>4, <2>5, <2>6, ReportKept
<1>4. ASSUME NEW c \in Jobs, Fetch(c) PROVE Reported(r)'
  <2>1. /\ UNCHANGED status
        /\ \A k \in Jobs : k # c => pc'[k] = pc[k] /\ queue'[k] = queue[k]
    BY <1>4, <1>t, <1>n, FetchStep
  <2>2. /\ queue[c] \in {"Pending", "Failed"} /\ queue'[c] = "Running"
        /\ pc'[c] = Entry(c) /\ Entry(c) \in {"push", "transfer", "start"}
        /\ c \in RowJobs => pc'[c] = "start"
    BY <1>4, <1>t, <1>n, FetchStep, EntryKinds
  <2>3. JobsOf(r)' = JobsOf(r)
    BY <2>1, <2>2, JobKinds DEF JobsOf
  <2>4. ~Marked(c)' /\ (c \in RowJobs => Untouched(c)')
    BY <2>2 DEF Marked, Untouched, Ended
  <2>5. \A k \in Jobs : k # c => Marked(k)' = Marked(k) /\ Untouched(k)' = Untouched(k)
    BY <2>1 DEF Marked, Untouched, Ended
  <2>6. QED
    BY <1>n, <2>1, <2>3, <2>4, <2>5, ReportKept
<1>5. CASE Push
  <2>1. UNCHANGED status /\ \A k \in Jobs : k # Fan => pc'[k] = pc[k]
    BY <1>5, <1>n, PushStep
  <2>2. CASE queue' = queue
    <3>1. JobsOf(r)' = JobsOf(r)
      BY <2>2, QueueKept
    <3>2. \A k \in JobsOf(r) : Marked(k)' = Marked(k) /\ Untouched(k)' = Untouched(k)
      BY <1>n, <2>1, <2>2 DEF Marked, Untouched, Ended
    <3>3. QED
      BY <2>1, <3>1, <3>2, ReportKept
  <2>3. CASE next \in DOMAIN Batch /\ queue' = [queue EXCEPT ![Pushed] = "Pending"]
    <3>0. PICK p \in Jobs : p = Pushed
      BY <1>5, <2>3, PushStep, CopyKinds, JobKinds
    <3>1. p # Fan /\ queue[p] = "none"
      BY <1>5, <2>3, <3>0, PushStep, CopyKinds
    <3>2. \A k \in Jobs : queue'[k] = IF k = p THEN "Pending" ELSE queue[k]
      BY <1>n, <2>3, <3>0
    <3>3. pc[p] = "idle"
      BY <1>t, <3>1 DEF AttemptsInv
    <3>4. ~Marked(p)'
      BY <2>1, <3>1, <3>2, <3>3 DEF Marked, Ended
    <3>5. /\ JobsOf(r) \subseteq JobsOf(r)'
          /\ \A k \in JobsOf(r)' : k = p \/ k \in JobsOf(r)
      BY <1>n, <3>1, <3>2, JobKinds DEF JobsOf
    <3>6. \A k \in JobsOf(r) : Marked(k)' = Marked(k) /\ Untouched(k)' = Untouched(k)
      BY <1>n, <2>1, <3>1, <3>2 DEF Marked, Untouched, Ended
    <3>7. QED
      BY <2>1, <3>4, <3>5, <3>6, ReportKept
  <2>4. QED
    BY <1>5, <2>2, <2>3, PushStep
<1>6. CASE Start
  <2>1. UNCHANGED status /\ \A k \in Jobs : /\ pc'[k] = "idle" /\ pc[k] = "idle"
          /\ queue'[k] = IF queue[k] = "Running" THEN "Pending" ELSE queue[k]
    BY <1>6, StartStep
  <2>2. JobsOf(r)' = JobsOf(r)
    BY <2>1, JobKinds DEF JobsOf
  <2>3. \A k \in Jobs : /\ Marked(k)' => Marked(k)
                        /\ Untouched(k) => Untouched(k)'
    BY <2>1 DEF Marked, Untouched, Ended
  <2>4. QED
    BY <1>n, <2>1, <2>2, <2>3, ReportKept
<1>7. CASE Crash
  <2>1. UNCHANGED <<status, queue>> /\ \A k \in Jobs : pc'[k] = "idle"
    BY <1>7, <1>t, CrashStep
  <2>2. JobsOf(r)' = JobsOf(r)
    BY <2>1, QueueKept
  <2>3. \A k \in Jobs : /\ Marked(k)' => Marked(k)
                        /\ Untouched(k) => Untouched(k)'
    BY <2>1 DEF Marked, Untouched, Ended
  <2>4. QED
    BY <1>n, <2>1, <2>2, <2>3, ReportKept
<1>8. CASE UNCHANGED vars
  <2>1. UNCHANGED <<status, queue, pc>> /\ JobsOf(r)' = JobsOf(r)
    BY <1>8, QueueKept DEF vars, queueVars
  <2>2. \A k \in Jobs : Marked(k)' = Marked(k) /\ Untouched(k)' = Untouched(k)
    BY <2>1 DEF Marked, Untouched, Ended
  <2>3. QED
    BY <1>n, <2>1, <2>2, ReportKept
<1>9. QED
  BY <1>1, <1>2, <1>3, <1>4, <1>5, <1>6, <1>7, <1>8 DEF Next, Worker

-----------------------------------------------------------------------------
(* Every backlog that may be found satisfies the invariant.                *)
LEMMA InitLegacy == Init => LegacyInv
<1> SUFFICES ASSUME Init PROVE LegacyInv
  OBVIOUS
<1>1. PICK ids \in Backlogs : \E left \in [ids -> Leftovers] :
        /\ queue = [c \in Jobs |->
             IF c[1] \in ids /\ c[2] = 0 THEN left[c[1]][1] ELSE "none"]
        /\ attempts = [c \in Jobs |->
             IF c[1] \in ids /\ c[2] = 0 THEN left[c[1]][2] ELSE 0]
        /\ stuck = OldWallet \cap (ids \X {0})
        /\ status = [r \in Rows |->
             IF r \in ids THEN Told(left[r][1])
             ELSE IF r \in Items /\ Bulk \in ids THEN "pending" ELSE "none"]
  BY DEF Init
<1>2. PICK left \in [ids -> Leftovers] :
        /\ queue = [c \in Jobs |->
             IF c[1] \in ids /\ c[2] = 0 THEN left[c[1]][1] ELSE "none"]
        /\ attempts = [c \in Jobs |->
             IF c[1] \in ids /\ c[2] = 0 THEN left[c[1]][2] ELSE 0]
        /\ stuck = OldWallet \cap (ids \X {0})
        /\ status = [r \in Rows |->
             IF r \in ids THEN Told(left[r][1])
             ELSE IF r \in Items /\ Bulk \in ids THEN "pending" ELSE "none"]
  BY <1>1
<1>3. /\ up = FALSE /\ pc = [c \in Jobs |-> "idle"] /\ next = 1 /\ vec = {} /\ owned = {}
      /\ crashes = 0
  BY DEF Init
<1>4. ids \subseteq Singles \cup Transfers \cup {Bulk} /\ ids \cap Items = {}
  BY KindsAssumption
<1>5. \A c \in Jobs :
        /\ queue[c] \in {"none", "Pending", "Failed", "Running"}
        /\ attempts[c] \in 0 .. MaxAttempts
        /\ queue[c] = "none" => attempts[c] = 0
        /\ queue[c] = "Running" => attempts[c] > 0
        /\ queue[c] = "Failed" => attempts[c] < MaxAttempts
  <2> SUFFICES ASSUME NEW c \in Jobs
               PROVE  /\ queue[c] \in {"none", "Pending", "Failed", "Running"}
                      /\ attempts[c] \in 0 .. MaxAttempts
                      /\ queue[c] = "none" => attempts[c] = 0
                      /\ queue[c] = "Running" => attempts[c] > 0
                      /\ queue[c] = "Failed" => attempts[c] < MaxAttempts
    OBVIOUS
  <2>1. CASE c[1] \in ids /\ c[2] = 0
    <3>1. left[c[1]] \in Leftovers /\ queue[c] = left[c[1]][1] /\ attempts[c] = left[c[1]][2]
      BY <1>2, <2>1
    <3>2. QED
      BY <3>1, LeftTypes
  <2>2. CASE ~(c[1] \in ids /\ c[2] = 0)
    <3>1. queue[c] = "none" /\ attempts[c] = 0
      BY <1>2, <2>2
    <3>2. QED
      BY <3>1, Bounds
  <2>3. QED
    BY <2>1, <2>2
<1>6. \A r \in Rows : /\ status[r] \in Statuses \ {"done"}
                      /\ r \in ids => status[r] # "none"
                      /\ r \in ids /\ left[r][1] = "Failed" => status[r] = "failed"
                      /\ r \in Items /\ Bulk \in ids => status[r] # "none"
  <2>1. \A r \in Rows : r \in ids => left[r] \in Leftovers /\ status[r] = Told(left[r][1])
    BY <1>2
  <2>2. \A r \in Rows : r \notin ids => status[r] \in {"pending", "none"}
    BY <1>2
  <2>3. \A r \in Rows : r \in Items /\ Bulk \in ids => status[r] = "pending"
    BY <1>2, <1>4
  <2>4. QED
    BY <2>1, <2>2, <2>3, LeftTypes DEF Statuses
<1>7. TypeOK
  <2>1. queue \in [Jobs -> Queues]
    BY <1>2, <1>5 DEF Queues
  <2>2. attempts \in [Jobs -> Nat]
    <3>1. \A c \in Jobs : attempts[c] \in Nat
      BY <1>5, Bounds
    <3>2. QED
      BY <1>2, <3>1
  <2>3. status \in [Rows -> Statuses]
    BY <1>2, <1>6
  <2>4. 1 \in 1 .. (Cardinality(Items) + 1) /\ 0 \in 0 .. MaxCrashes
    BY Bounds
  <2>5. QED
    BY <1>2, <1>3, <2>1, <2>2, <2>3, <2>4 DEF TypeOK, Counters
<1>8. AttemptsInv
  <2>1. \A c \in Jobs : /\ attempts[c] <= MaxAttempts + crashes
                        /\ attempts[c] <= MaxAttempts + crashes + 1
    BY <1>3, <1>5, Bounds
  <2>2. \A c \in Jobs : pc[c] = "idle"
    BY <1>3
  <2>3. QED
    BY <1>3, <1>5, <2>1, <2>2 DEF AttemptsInv
<1>9. \A c \in Jobs : queue[c] # "none" => c[1] \in ids /\ c[2] = 0
  BY <1>2
<1>10. KindsInv
  <2>1. \A c \in Jobs : pc[c] = "idle"
    BY <1>3
  <2>2. \A r \in Rows : JobsOf(r) # {} => status[r] # "none"
    BY <1>6, <1>9, JobKinds DEF JobsOf
  <2>3. \A i \in Items : queue[Fan] # "none" => status[i] # "none"
    <3>1. queue[Fan] # "none" => Bulk \in ids
      BY <1>9, JobKinds DEF Fan
    <3>2. QED
      BY <1>6, <3>1 DEF Rows
  <2>4. \A c \in Copies : queue[c] = "none"
    BY <1>4, <1>9, CopyKinds, JobKinds
  <2>5. QED
    BY <1>3, <2>1, <2>2, <2>3, <2>4, JobKinds DEF KindsInv
<1>11. PushedInv
  BY <1>3, <1>5, JobKinds DEF PushedInv, FannedOutIsQueued
<1>12. ProgressInv
  BY <1>3, <1>5, <1>6, JobKinds DEF ProgressInv
<1>13. ReportInv
  <2> SUFFICES ASSUME NEW r \in Rows \ Losing
               PROVE  /\ JobsOf(r) # {} /\ (\A c \in JobsOf(r) : Marked(c)) => Settled(r)
                      /\ status[r] = "done" => \E c \in JobsOf(r) : Untouched(c)
    BY DEF ReportInv
  <2>1. ASSUME NEW c \in JobsOf(r), Marked(c) PROVE Settled(r)
    <3>1. c \in Jobs /\ c[1] = r /\ queue[c] # "none" /\ pc[c] = "idle"
      BY <1>3, JobKinds DEF JobsOf
    <3>2. queue[c] = "Failed"
      BY <1>5, <2>1, <3>1 DEF Marked, Ended
    <3>3. r \in ids /\ left[r][1] = "Failed"
      BY <1>2, <1>9, <3>1, <3>2
    <3>4. QED
      BY <1>6, <3>3 DEF Settled
  <2>2. QED
    BY <1>6, <2>1
<1>14. QED
  BY <1>7, <1>8, <1>10, <1>11, <1>12, <1>13 DEF LegacyInv

(* The inductive invariant, for every backlog.                             *)
THEOREM LegacyInvariance == Spec => []LegacyInv
<1>1. LegacyInv /\ [Next]_vars => LegacyInv'
  BY TypeStep, AttemptsStep, KindsStep, PushedStep, ProgressStep, ReportStep DEF LegacyInv
<1>2. QED
  BY <1>1, InitLegacy, PTL DEF Spec

(* A bulk job that ended well has queued all of its items.                 *)
THEOREM LegacyFanOut == Spec => []FannedOutIsQueued
<1>1. LegacyInv => FannedOutIsQueued
  BY DEF LegacyInv, PushedInv
<1>2. QED
  BY <1>1, LegacyInvariance, PTL

(* A row whose jobs have all ended tells how.                              *)
THEOREM LegacyReports == Spec => []EndedRowIsReported
<1>1. LegacyInv => EndedRowIsReported
  <2> SUFFICES ASSUME LegacyInv, NEW r \in Rows \ Losing, JobsOf(r) # {},
                      \A c \in JobsOf(r) : Ended(c)
               PROVE  /\ Settled(r)
                      /\ (\A c \in JobsOf(r) : queue[c] = "Killed") => status[r] = "failed"
    BY DEF EndedRowIsReported
  <2>1. Settled(r)
    BY DEF LegacyInv, ReportInv, Marked
  <2>2. status[r] = "done" => \E c \in JobsOf(r) : Untouched(c)
    BY DEF LegacyInv, ReportInv
  <2>3. QED
    BY <2>1, <2>2 DEF Settled, Untouched
<1>2. QED
  BY <1>1, LegacyInvariance, PTL

-----------------------------------------------------------------------------
(* Progress: what WorkLeft counts down, and that something always may.     *)

LEMMA TimesNat == ASSUME NEW a \in Nat, NEW b \in Nat PROVE a * b \in Nat
OBVIOUS

(* One execution less pays for every step and push of the next.            *)
LEMMA ExecutionPays ==
  ASSUME NEW k \in Nat, NEW d \in Nat, d > 0, NEW s \in Nat, NEW q \in Nat,
         NEW t \in Nat, NEW r \in Nat, t + r < k
  PROVE  k * (d - 1) + t + r < k * d + s + q
<1>1. k * (d - 1) = k * d - k
  OBVIOUS
<1>. DEFINE w == k * d
<1>2. w \in Nat
  BY TimesNat
<1>. HIDE DEF w
<1>3. (w - k) + t + r < w + s + q
  BY <1>2
<1>4. QED
  BY <1>1, <1>3 DEF w

(* The summands of WorkLeft, now and after a step.                         *)
LEMMA WorkIsNat ==
  ASSUME TypeOK, AttemptsInv, NEW c \in Jobs
  PROVE  /\ attempts[c] \in 0 .. Tries /\ Tries - attempts[c] \in Nat
         /\ Cardinality(Items) + 7 \in Nat
         /\ (Cardinality(Items) + 7) * (Tries - attempts[c]) \in Nat
         /\ StepsLeft(pc[c]) \in 0 .. 6
         /\ PushesLeft(c) \in 0 .. Cardinality(Items)
<1>. DEFINE n == Cardinality(Items)
<1>1. n \in Nat /\ n + 7 \in Nat
  BY Bounds
<1>2. attempts[c] \in 0 .. Tries
  <2>1. attempts[c] \in Nat /\ crashes \in 0 .. MaxCrashes
        /\ attempts[c] <= MaxAttempts + crashes + 1
    BY DEF TypeOK, AttemptsInv
  <2>2. QED
    BY <2>1, Bounds
<1>3. Tries - attempts[c] \in Nat
  BY <1>2, Bounds
<1>4. (n + 7) * (Tries - attempts[c]) \in Nat
  BY <1>1, <1>3, TimesNat
<1>5. StepsLeft(pc[c]) \in 0 .. 6
  BY DEF TypeOK, Counters, StepsLeft
<1>6. PushesLeft(c) \in 0 .. n
  <2>1. next \in 1 .. (n + 1)
    BY DEF TypeOK
  <2>. HIDE DEF n
  <2>2. n + 1 - next \in 0 .. n
    BY <2>1, <1>1
  <2>3. QED
    BY <1>1, <2>2 DEF PushesLeft, n
<1>7. QED
  BY <1>1, <1>2, <1>3, <1>4, <1>5, <1>6

(* A step that begins no execution of c.                                   *)
LEMMA WorkFalls ==
  ASSUME TypeOK, AttemptsInv, NEW c \in Jobs, attempts'[c] = attempts[c],
         NEW t \in 0 .. 6, t = StepsLeft(pc'[c]), t <= StepsLeft(pc[c]),
         NEW q \in Nat, q = PushesLeft(c)', q <= PushesLeft(c)
  PROVE  /\ WorkLeft(c)' <= WorkLeft(c)
         /\ t < StepsLeft(pc[c]) \/ q < PushesLeft(c) => WorkLeft(c)' < WorkLeft(c)
<1>. DEFINE w == (Cardinality(Items) + 7) * (Tries - attempts[c])
            s == StepsLeft(pc[c])
            p == PushesLeft(c)
<1>1. w \in Nat /\ s \in 0 .. 6 /\ p \in Nat
  <2>1. w \in Nat
    BY WorkIsNat
  <2>2. s \in 0 .. 6
    BY WorkIsNat
  <2>3. p \in Nat
    BY WorkIsNat, Bounds
  <2>4. QED
    BY <2>1, <2>2, <2>3
<1>2. WorkLeft(c) = w + s + p
  BY DEF WorkLeft
<1>3. WorkLeft(c)' = w + t + q
  BY DEF WorkLeft
<1>4. t <= s /\ q <= p
  OBVIOUS
<1>. HIDE DEF w, s, p
<1>5. w + t + q <= w + s + p /\ (t < s \/ q < p => w + t + q < w + s + p)
  BY <1>1, <1>4
<1>6. QED
  BY <1>2, <1>3, <1>5 DEF s, p

(* A step that leaves c alone.                                             *)
LEMMA WorkStays ==
  ASSUME TypeOK, AttemptsInv, NEW c \in Jobs, attempts'[c] = attempts[c],
         pc'[c] = pc[c], c # Fan \/ next' = next
  PROVE  WorkLeft(c)' <= WorkLeft(c)
<1>1. PushesLeft(c)' = PushesLeft(c)
  BY DEF PushesLeft
<1>2. StepsLeft(pc[c]) \in 0 .. 6 /\ PushesLeft(c) \in Nat
  BY WorkIsNat, Bounds
<1>3. QED
  BY <1>1, <1>2, WorkFalls

(* A step of c's handler: fewer steps left, and the pushes untouched.      *)
LEMMA HandlerLowers ==
  ASSUME TypeOK, AttemptsInv, NEW c \in Jobs, UNCHANGED <<attempts, next>>,
         StepsLeft(pc'[c]) \in 0 .. 6, StepsLeft(pc'[c]) < StepsLeft(pc[c]),
         pc' = [pc EXCEPT ![c] = pc'[c]]
  PROVE  /\ \A k \in Jobs : WorkLeft(k)' <= WorkLeft(k)
         /\ WorkLeft(c)' < WorkLeft(c)
<1>1. \A k \in Jobs : k # c => pc'[k] = pc[k]
  BY DEF TypeOK
<1>2. \A k \in Jobs : k # c => WorkLeft(k)' <= WorkLeft(k)
  BY <1>1, WorkStays
<1>3. PushesLeft(c)' = PushesLeft(c) /\ PushesLeft(c) \in Nat
  BY WorkIsNat, Bounds DEF PushesLeft
<1>4. StepsLeft(pc[c]) \in 0 .. 6
  BY WorkIsNat
<1>5. WorkLeft(c)' <= WorkLeft(c) /\ WorkLeft(c)' < WorkLeft(c)
  BY <1>3, <1>4, WorkFalls
<1>6. QED
  BY <1>2, <1>5

LEMMA FetchLowers ==
  ASSUME LegacyInv, NEW c \in Jobs, Fetch(c)
  PROVE  /\ \A k \in Jobs : WorkLeft(k)' <= WorkLeft(k)
         /\ WorkLeft(c)' < WorkLeft(c)
<1>t. TypeOK /\ AttemptsInv
  BY DEF LegacyInv
<1>1. /\ attempts'[c] = attempts[c] + 1 /\ pc'[c] = Entry(c)
      /\ next' = IF c = Fan THEN 1 ELSE next
      /\ \A k \in Jobs : k # c => pc'[k] = pc[k] /\ attempts'[k] = attempts[k]
  BY <1>t, FetchStep DEF TypeOK
<1>2. \A k \in Jobs : k # c => WorkLeft(k)' <= WorkLeft(k)
  BY <1>t, <1>1, WorkStays
<1>. DEFINE n == Cardinality(Items)
            d == Tries - attempts[c]
            s == StepsLeft(pc[c])
            p == PushesLeft(c)
            t == StepsLeft(pc'[c])
            q == PushesLeft(c)'
<1>3. n \in Nat /\ d \in Nat /\ s \in Nat /\ p \in Nat
  BY <1>t, WorkIsNat, Bounds
<1>4. d > 0 /\ Tries - (attempts[c] + 1) = d - 1
  <2>1. attempts[c] \in Nat /\ attempts[c] + 1 \in 1 .. Tries
    BY FetchRoom
  <2>2. QED
    BY <2>1, Bounds
<1>5. t \in Nat /\ q \in Nat /\ t + q < n + 7
  <2>1. CASE c = Fan
    <3>1. t = 2
      BY <2>1, <1>1, EntryKinds DEF StepsLeft
    <3>2. q = n + 1 - 1
      BY <2>1, <1>1 DEF PushesLeft
    <3>3. QED
      BY <1>3, <3>1, <3>2
  <2>2. CASE c # Fan
    <3>1. t \in {2, 6}
      BY <1>1, EntryKinds DEF StepsLeft
    <3>2. q = 0
      BY <2>2 DEF PushesLeft
    <3>3. QED
      BY <1>3, <3>1, <3>2
  <2>3. QED
    BY <2>1, <2>2
<1>6. WorkLeft(c) = (n + 7) * d + s + p
  BY DEF WorkLeft
<1>7. WorkLeft(c)' = (n + 7) * (d - 1) + t + q
  <2>1. WorkLeft(c)' = (n + 7) * (Tries - attempts'[c]) + t + q
    BY DEF WorkLeft
  <2>2. Tries - attempts'[c] = d - 1
    BY <1>1, <1>4
  <2>. HIDE DEF n, d, t, q
  <2>3. QED
    BY <2>1, <2>2
<1>. HIDE DEF n, d, s, p, t, q
<1>8. n + 7 \in Nat
  BY <1>3
<1>9. WorkLeft(c)' < WorkLeft(c)
  BY <1>3, <1>4, <1>5, <1>6, <1>7, <1>8, ExecutionPays
<1>a. WorkLeft(c) \in Int /\ WorkLeft(c)' \in Int
  <2>1. (n + 7) * d \in Nat /\ (n + 7) * (d - 1) \in Nat
    BY <1>3, <1>4, <1>8, TimesNat
  <2>2. QED
    BY <1>3, <1>5, <1>6, <1>7, <2>1
<1>b. QED
  BY <1>2, <1>9, <1>a

LEMMA PushLowers ==
  ASSUME LegacyInv, Push
  PROVE  /\ \A k \in Jobs : WorkLeft(k)' <= WorkLeft(k)
         /\ WorkLeft(Fan)' < WorkLeft(Fan)
<1>t. TypeOK /\ AttemptsInv /\ Fan \in Jobs
  BY JobKinds DEF LegacyInv
<1>p. /\ UNCHANGED attempts /\ pc[Fan] = "push" /\ pc' = [pc EXCEPT ![Fan] = pc'[Fan]]
      /\ \/ next \in DOMAIN Batch /\ pc'[Fan] = "push" /\ next' = next + 1
         \/ pc'[Fan] \in {"ackRetry", "ackOk"} /\ next' = next
  BY PushStep
<1>1. \A k \in Jobs : k # Fan => pc'[k] = pc[k]
  BY <1>t, <1>p DEF TypeOK
<1>2. \A k \in Jobs : k # Fan => WorkLeft(k)' <= WorkLeft(k)
  BY <1>t, <1>p, <1>1, WorkStays
<1>3. CASE pc'[Fan] \in {"ackRetry", "ackOk"} /\ next' = next
  <2>1. StepsLeft(pc[Fan]) = 2 /\ StepsLeft(pc'[Fan]) = 1
    BY <1>p, <1>3 DEF StepsLeft
  <2>2. QED
    BY <1>t, <1>p, <1>3, <2>1, HandlerLowers
<1>4. CASE next \in DOMAIN Batch /\ pc'[Fan] = "push" /\ next' = next + 1
  <2>. DEFINE n == Cardinality(Items)
  <2>1. n \in Nat /\ next \in 1 .. n
    BY <1>4, Bounds
  <2>2. PushesLeft(Fan) = n + 1 - next /\ PushesLeft(Fan)' = n + 1 - next'
    BY DEF PushesLeft
  <2>. HIDE DEF n
  <2>3. PushesLeft(Fan)' \in Nat /\ PushesLeft(Fan)' < PushesLeft(Fan)
        /\ PushesLeft(Fan)' <= PushesLeft(Fan)
    BY <1>4, <2>1, <2>2
  <2>4. StepsLeft(pc'[Fan]) = StepsLeft(pc[Fan]) /\ StepsLeft(pc[Fan]) \in 0 .. 6
        /\ StepsLeft(pc'[Fan]) <= StepsLeft(pc[Fan])
    BY <1>p, <1>4 DEF StepsLeft
  <2>5. WorkLeft(Fan)' <= WorkLeft(Fan) /\ WorkLeft(Fan)' < WorkLeft(Fan)
    BY <1>t, <1>p, <2>3, <2>4, WorkFalls
  <2>6. QED
    BY <1>2, <2>5
<1>5. QED
  BY <1>p, <1>3, <1>4

(* A start, or a crash, gives no job more to do.                           *)
LEMMA RestartLowers ==
  ASSUME LegacyInv, Start \/ Crash, NEW c \in Jobs
  PROVE  WorkLeft(c)' <= WorkLeft(c)
<1>t. TypeOK /\ AttemptsInv
  BY DEF LegacyInv
<1>1. UNCHANGED <<attempts, next>> /\ pc'[c] \in {pc[c], "idle"}
  BY <1>t, StartStep, CrashStep
<1>2. PushesLeft(c)' = PushesLeft(c) /\ PushesLeft(c) \in Nat
  BY <1>t, <1>1, WorkIsNat, Bounds DEF PushesLeft
<1>3. StepsLeft(pc[c]) \in 0 .. 6 /\ StepsLeft("idle") = 0
  BY <1>t, WorkIsNat DEF StepsLeft
<1>4. StepsLeft(pc'[c]) \in 0 .. 6 /\ StepsLeft(pc'[c]) <= StepsLeft(pc[c])
  BY <1>1, <1>3
<1>5. QED
  BY <1>t, <1>1, <1>2, <1>4, WorkFalls

(* Every step of a worker.                                                 *)
LEMMA WorkerLowers ==
  ASSUME LegacyInv, Worker
  PROVE  /\ \A k \in Jobs : WorkLeft(k)' <= WorkLeft(k)
         /\ \E c \in Jobs : WorkLeft(c)' < WorkLeft(c)
<1>t. TypeOK /\ AttemptsInv
  BY DEF LegacyInv
<1>1. ASSUME NEW c \in RowJobs, RowHandler(c)
      PROVE  /\ c \in Jobs
             /\ \A k \in Jobs : WorkLeft(k)' <= WorkLeft(k)
             /\ WorkLeft(c)' < WorkLeft(c)
  <2>1. c \in Jobs /\ UNCHANGED <<attempts, next>> /\ pc' = [pc EXCEPT ![c] = pc'[c]]
    BY <1>1, <1>t, JobKinds, RowHandlerStep
  <2>n. pc \in [Jobs -> Counters]
    BY <1>t DEF TypeOK
  <2>2. CASE MarkRunning(c) \/ MarkUploaded(c) \/ MarkDone(c)
    BY <1>t, <2>1, <2>2, <2>n, HandlerLowers
       DEF MarkRunning, MarkUploaded, MarkDone, At, StepsLeft
  <2>3. CASE Upload(c)
    <3>1. pc[c] = "upload" /\ pc'[c] \in {"index", "uploaded", "failRetry", "failAbort"}
      BY <2>1, <2>3, <2>n DEF Upload, Fails, At
    <3>2. StepsLeft(pc[c]) = 5 /\ StepsLeft(pc'[c]) \in {2, 3, 4}
      BY <3>1 DEF StepsLeft
    <3>3. QED
      BY <1>t, <2>1, <3>2, HandlerLowers
  <2>4. CASE Insert(c) \/ MarkFailed(c)
    <3>1. \/ pc[c] = "index" /\ pc'[c] \in {"finish", "failRetry"}
          \/ pc[c] \in {"failRetry", "failAbort"} /\ pc'[c] \in {"ackRetry", "ackAbort"}
      BY <2>1, <2>4, <2>n DEF Insert, MarkFailed, At
    <3>2. StepsLeft(pc'[c]) \in {1, 2} /\ StepsLeft(pc[c]) = StepsLeft(pc'[c]) + 1
      BY <3>1 DEF StepsLeft
    <3>3. QED
      BY <1>t, <2>1, <3>2, HandlerLowers
  <2>5. QED
    BY <1>1, <2>2, <2>3, <2>4 DEF RowHandler
<1>2. ASSUME NEW c \in Moves, Transfer(c)
      PROVE  /\ c \in Jobs
             /\ \A k \in Jobs : WorkLeft(k)' <= WorkLeft(k)
             /\ WorkLeft(c)' < WorkLeft(c)
  <2>1. /\ c \in Jobs /\ UNCHANGED <<attempts, next>> /\ pc' = [pc EXCEPT ![c] = pc'[c]]
        /\ pc[c] = "transfer" /\ pc'[c] \in {"ackOk", "ackRetry", "ackAbort"}
    BY <1>2, <1>t, JobKinds, TransferStep
  <2>2. StepsLeft(pc[c]) = 2 /\ StepsLeft(pc'[c]) = 1
    BY <2>1 DEF StepsLeft
  <2>3. QED
    BY <1>t, <2>1, <2>2, HandlerLowers
<1>3. ASSUME NEW c \in Jobs, Ack(c)
      PROVE  /\ \A k \in Jobs : WorkLeft(k)' <= WorkLeft(k)
             /\ WorkLeft(c)' < WorkLeft(c)
  <2>1. /\ UNCHANGED <<attempts, next>> /\ pc' = [pc EXCEPT ![c] = "idle"]
        /\ pc[c] \in {"ackOk", "ackRetry", "ackAbort"}
    BY <1>3, <1>t, AckStep
  <2>2. pc'[c] = "idle" /\ pc' = [pc EXCEPT ![c] = pc'[c]]
    BY <1>t, <2>1 DEF TypeOK
  <2>3. StepsLeft(pc[c]) = 1 /\ StepsLeft(pc'[c]) = 0
    BY <2>1, <2>2 DEF StepsLeft
  <2>4. StepsLeft(pc'[c]) \in 0 .. 6 /\ StepsLeft(pc'[c]) < StepsLeft(pc[c])
    BY <2>3
  <2>5. QED
    BY <1>t, <2>1, <2>2, <2>4, HandlerLowers
<1>4. QED
  BY <1>1, <1>2, <1>3, FetchLowers, PushLowers, JobKinds DEF Worker

(* A job that has not ended, while the process runs.                       *)
LEMMA SomeGuardHolds ==
  ASSUME LegacyInv, NEW c \in Jobs, up, queue[c] # "none", ~Ended(c)
  PROVE  MayFetch(c) \/ \E d \in Jobs : Name(d) = Name(c) /\ MayStep(d)
<1>t. TypeOK /\ AttemptsInv /\ KindsInv
  BY DEF LegacyInv
<1>1. \A d \in Jobs : pc[d] # "idle" => MayStep(d)
  BY <1>t, JobKinds DEF KindsInv, MayStep, TypeOK
<1>2. CASE \E d \in Jobs : pc[d] # "idle" /\ Name(d) = Name(c)
  BY <1>1, <1>2
<1>3. CASE \A d \in Jobs : Name(d) = Name(c) => pc[d] = "idle"
  <2>1. {d \in Jobs : pc[d] # "idle" /\ Name(d) = Name(c)} = {}
    BY <1>3
  <2>2. Busy(Name(c)) = 0
    BY <2>1, FS_EmptySet DEF Busy
  <2>3. Name(c) \in Names
    BY JobKinds DEF Name, Names, Jobs, OldJobs, Classifies, OldWallet, Copies, Fan
  <2>4. Width[Name(c)] \in Nat \ {0}
    BY <2>3, BoundsAssumption
  <2>5. pc[c] = "idle" /\ c \notin stuck
    BY <1>t, <1>3 DEF KindsInv
  <2>6. queue[c] \in {"Pending", "Failed"}
    <3>1. queue[c] \in Queues
      BY <1>t DEF TypeOK
    <3>2. queue[c] # "Running"
      BY <1>t, <2>5 DEF AttemptsInv
    <3>3. QED
      BY <3>1, <3>2 DEF Queues, Ended
  <2>7. queue[c] = "Failed" => attempts[c] < MaxAttempts
    BY <1>t DEF AttemptsInv
  <2>8. QED
    BY <2>2, <2>4, <2>5, <2>6, <2>7 DEF MayFetch
<1>4. QED
  BY <1>2, <1>3

(* The backlog advances, step by step and without stops: the two facts     *)
(* that, with the supervisor's and the workers' fairness, end every job.   *)
THEOREM LegacyProgress == Spec => BacklogAdvances
<1>. DEFINE Open == \A c \in Jobs :
              up /\ queue[c] # "none" /\ ~Ended(c) =>
                MayFetch(c) \/ \E d \in Jobs : Name(d) = Name(c) /\ MayStep(d)
            Lowers == /\ \A c \in Jobs : WorkLeft(c)' <= WorkLeft(c)
                      /\ up /\ up' => \E c \in Jobs : WorkLeft(c)' < WorkLeft(c)
<1>1. LegacyInv => Open
  BY SomeGuardHolds
<1>2. LegacyInv /\ [Next]_vars => [Lowers]_vars
  <2>. SUFFICES ASSUME LegacyInv, Next PROVE Lowers
    OBVIOUS
  <2>1. CASE Start
    <3>1. ~up
      BY <2>1 DEF Start
    <3>2. QED
      BY <2>1, <3>1, RestartLowers
  <2>2. CASE Crash
    <3>1. up' = FALSE
      BY <2>2 DEF Crash
    <3>2. QED
      BY <2>2, <3>1, RestartLowers
  <2>3. CASE Worker
    BY <2>3, WorkerLowers
  <2>4. QED
    BY <2>1, <2>2, <2>3 DEF Next
<1>3. QED
  BY <1>1, <1>2, LegacyInvariance, PTL DEF Spec, BacklogAdvances

-----------------------------------------------------------------------------
(* The refinement of MemoryPromise, step by step.                          *)
LEMMA PromiseStutters ==
  ASSUME UNCHANGED <<status, vec>>,
         \A r \in Rows : (r \in owned') = (r \in owned)
  PROVE  UNCHANGED Promise!vars
<1>1. \A r \in Rows : MemoryOf(r)' = MemoryOf(r) /\ ReportOf(r)' = ReportOf(r)
  BY DEF MemoryOf, ReportOf
<1>2. QED
  BY <1>1 DEF Promise!vars

(* An UPDATE of a known row, executed or lost, is a report.                *)
LEMMA PromiseReports ==
  ASSUME TypeOK, NEW r \in Rows, NEW s \in Statuses \ {"none"}, status[r] # "none",
         UNCHANGED status \/ status' = [status EXCEPT ![r] = s],
         s = "done" => r \in vec, UNCHANGED <<owned, vec>>
  PROVE  [Promise!Next]_(Promise!vars)
<1>1. CASE UNCHANGED status
  BY <1>1, PromiseStutters
<1>2. CASE status' = [status EXCEPT ![r] = s]
  <2>1. \A i \in Rows : status'[i] = IF i = r THEN s ELSE status[i]
    BY <1>2 DEF TypeOK
  <2>2. \A i \in Rows : MemoryOf(i)' = MemoryOf(i)
    BY <2>1 DEF MemoryOf
  <2>3. \A i \in Rows : i # r => ReportOf(i)' = ReportOf(i)
    BY <2>1 DEF ReportOf
  <2>4. ReportOf(r)' \in Promise!Reports \ {"none"}
    BY <2>1 DEF ReportOf, Statuses, Promise!Reports
  <2>5. ReportOf(r)' = "done" => MemoryOf(r) = "recallable"
    BY <2>1 DEF ReportOf, MemoryOf
  <2>6. MemoryOf(r) # "absent"
    BY DEF MemoryOf
  <2>7. Promise!Report(r, ReportOf(r)')
    BY <2>2, <2>3, <2>5, <2>6 DEF Promise!Report
  <2>8. QED
    BY <2>4, <2>7 DEF Promise!Next
<1>3. QED
  BY <1>1, <1>2

LEMMA LegacyPromise == LegacyInv /\ [Next]_vars => [Promise!Next]_(Promise!vars)
<1> SUFFICES ASSUME LegacyInv, [Next]_vars PROVE [Promise!Next]_(Promise!vars)
  OBVIOUS
<1>t. TypeOK /\ AttemptsInv /\ KindsInv /\ ProgressInv
  BY DEF LegacyInv
<1>1. ASSUME NEW c \in RowJobs, RowHandler(c) PROVE [Promise!Next]_(Promise!vars)
  <2>1. c[1] \in Rows /\ status[c[1]] # "none" /\ pc[c] # "idle"
    <3>1. pc[c] # "idle" /\ c[1] \in Rows /\ c \in Jobs
      BY <1>1, <1>t, RowHandlerStep, JobKinds
    <3>2. c \in JobsOf(c[1])
      BY <1>1, <1>t, <3>1 DEF AttemptsInv, JobsOf
    <3>3. QED
      BY <1>t, <3>1, <3>2 DEF KindsInv
  <2>2. CASE MarkRunning(c) \/ MarkUploaded(c) \/ MarkDone(c) \/ MarkFailed(c)
    <3>1. UNCHANGED <<owned, vec>>
      BY <2>2 DEF MarkRunning, MarkUploaded, MarkDone, MarkFailed
    <3>2. PICK s \in Statuses \ {"none"} :
            /\ UNCHANGED status \/ status' = [status EXCEPT ![c[1]] = s]
            /\ s = "done" => pc[c] = "finish"
      BY <2>2 DEF MarkRunning, MarkUploaded, MarkDone, MarkFailed, SetStatus, At, Statuses
    <3>3. s = "done" => c[1] \in vec
      BY <1>1, <1>t, <3>2 DEF ProgressInv
    <3>4. QED
      BY <1>t, <2>1, <3>1, <3>2, <3>3, PromiseReports
  <2>3. CASE Upload(c)
    <3>1. UNCHANGED <<status, vec>> /\ owned' \in {owned, owned \cup {c[1]}}
      BY <2>3 DEF Upload
    <3>2. CASE owned' = owned \/ c[1] \in owned
      BY <3>1, <3>2, PromiseStutters
    <3>3. CASE owned' = owned \cup {c[1]} /\ c[1] \notin owned
      <4>1. c[1] \notin vec
        BY <1>t, <3>3 DEF ProgressInv
      <4>2. MemoryOf(c[1]) = "accepted" /\ MemoryOf(c[1])' = "durable"
        BY <2>1, <3>1, <3>3, <4>1 DEF MemoryOf
      <4>3. \A r \in Rows : r # c[1] => MemoryOf(r)' = MemoryOf(r)
        BY <3>1, <3>3 DEF MemoryOf
      <4>4. \A r \in Rows : ReportOf(r)' = ReportOf(r)
        BY <3>1 DEF ReportOf
      <4>5. Promise!MakeDurable(c[1])
        <5>1. PICK q \in Rows : q = c[1]
          BY <2>1
        <5>2. [r \in Rows |-> MemoryOf(r)]' =
                [[r \in Rows |-> MemoryOf(r)] EXCEPT ![q] = "durable"]
          BY <4>2, <4>3, <5>1
        <5>3. Promise!MakeDurable(q)
          BY <4>2, <4>4, <5>1, <5>2 DEF Promise!MakeDurable, Promise!Advance
        <5>4. QED
          BY <5>1, <5>3
      <4>6. QED
        BY <2>1, <4>5 DEF Promise!Next
    <3>4. QED
      BY <3>1, <3>2, <3>3
  <2>4. CASE Insert(c)
    <3>1. UNCHANGED <<status, owned>> /\ vec' \in {vec, vec \cup {c[1]}} /\ pc[c] = "index"
      BY <2>4 DEF Insert, At
    <3>2. CASE vec' = vec \/ c[1] \in vec
      BY <3>1, <3>2, PromiseStutters
    <3>3. CASE vec' = vec \cup {c[1]} /\ c[1] \notin vec
      <4>1. c[1] \in owned
        BY <1>1, <1>t, <3>1 DEF ProgressInv
      <4>2. MemoryOf(c[1]) = "durable" /\ MemoryOf(c[1])' = "recallable"
        BY <2>1, <3>1, <3>3, <4>1 DEF MemoryOf
      <4>3. \A r \in Rows : r # c[1] => MemoryOf(r)' = MemoryOf(r)
        BY <3>1, <3>3 DEF MemoryOf
      <4>4. \A r \in Rows : ReportOf(r)' = ReportOf(r)
        BY <3>1 DEF ReportOf
      <4>5. Promise!Index(c[1])
        <5>1. PICK q \in Rows : q = c[1]
          BY <2>1
        <5>2. [r \in Rows |-> MemoryOf(r)]' =
                [[r \in Rows |-> MemoryOf(r)] EXCEPT ![q] = "recallable"]
          BY <4>2, <4>3, <5>1
        <5>3. Promise!Index(q)
          BY <4>2, <4>4, <5>1, <5>2 DEF Promise!Index, Promise!Advance
        <5>4. QED
          BY <5>1, <5>3
      <4>6. QED
        BY <2>1, <4>5 DEF Promise!Next
    <3>4. QED
      BY <3>1, <3>2, <3>3
  <2>5. QED
    BY <1>1, <2>2, <2>3, <2>4 DEF RowHandler
<1>2. ASSUME NEW c \in Moves, Transfer(c) PROVE [Promise!Next]_(Promise!vars)
  <2>1. UNCHANGED <<status, vec>> /\ owned' \in {owned, owned \cup {c[1]}}
    BY <1>2, <1>t, TransferStep
  <2>2. \A r \in Rows : (r \in owned') = (r \in owned)
    BY <1>2, <2>1, JobKinds
  <2>3. QED
    BY <2>1, <2>2, PromiseStutters
<1>3. CASE UNCHANGED <<status, vec, owned>>
  BY <1>3, PromiseStutters
<1>4. QED
  BY <1>1, <1>2, <1>3 DEF Next, Worker, Fetch, Ack, Push, Start, Crash, vars, queueVars

(* Several jobs on one row never break the promise that one job keeps.     *)
THEOREM LegacyKeepsPromise == Spec => StepsKeepPromise
BY LegacyPromise, LegacyInvariance, PTL DEF Spec, StepsKeepPromise
=============================================================================
