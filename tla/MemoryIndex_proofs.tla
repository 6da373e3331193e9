------------------------- MODULE MemoryIndex_proofs -------------------------
(***************************************************************************)
(* IndexInv is inductive, for every set of blobs and of requests, every    *)
(* limit and every number of uploads and restarts.  Each part of it has a  *)
(* lemma, with one step for each action that writes a variable of that     *)
(* part, and one for all the others.                                       *)
(***************************************************************************)
EXTENDS MemoryIndex, TLAPS

USE DEF Blob

(* The parts of an entry.                                                  *)
LEMMA EntryParts ==
  /\ \A e \in Entries : Blob(e) \in Blobs /\ e[3] \in 1 .. MaxObjects
  /\ \A t \in Requests \X Entries : t[1] \in Requests /\ t[2] \in Entries
  /\ Rows \subseteq Entries /\ Objects \subseteq Entries
  BY DEF Entries, Rows, Objects

(* A limited answer is a part of the whole one.                            *)
LEMMA LimitedIsPart ==
  ASSUME NEW S, NEW T \in Limited(S)
  PROVE  T \subseteq S
  BY DEF Limited

(* What remember inserts is a row of its blob.                             *)
LEMMA InsertOfIsRow ==
  ASSUME TypeOK, NEW b \in Blobs, inserts[b] < uploads[b]
  PROVE  InsertOf(b) \in Rows /\ Blob(InsertOf(b)) = b
  BY BoundsAssumption DEF TypeOK, InsertOf, Rows

(* What a restore inserts is a row of the blob of its object.              *)
LEMMA RestoredIsRow ==
  ASSUME NEW r \in Restores, NEW e \in Objects
  PROVE  /\ <<Blob(e), r, e[3]>> \in Rows
         /\ Blob(<<Blob(e), r, e[3]>>) = Blob(e)
  BY DEF Rows, Objects

(* The objects on chain were uploaded.                                     *)
LEMMA OnChainIsUploaded ==
  ASSUME TypeOK, NEW e \in OnChain
  PROVE  e \in Objects /\ uploads[Blob(e)] > 0
  <1>1. e \in Objects /\ e[3] <= uploads[Blob(e)]
    BY DEF OnChain
  <1>2. e[3] >= 1 /\ e[3] \in Nat /\ Blob(e) \in Blobs
    BY <1>1 DEF Objects
  <1>3. QED
    BY <1>1, <1>2, BoundsAssumption DEF TypeOK

(* The invariant holds initially.                                          *)
LEMMA InitIndexInv == Init => IndexInv
  BY BoundsAssumption DEF Init, IndexInv, TypeOK, InsertsAreUploaded, RowsAreOnChain,
     TasksInv, Tasks, TasksAreOnChain, DropsHaveReason, TasksAreMissing, NoLateCopies, Stages

-----------------------------------------------------------------------------
(* The types.                                                              *)
LEMMA TypeStep ==
  ASSUME IndexInv, [Next]_vars
  PROVE  TypeOK'
  <1> USE EntryParts, BoundsAssumption DEF IndexInv, TypeOK
  <1>1. ASSUME NEW b \in Blobs, Certify(b) \/ Upload(b) \/ Expire(b) PROVE TypeOK'
    BY <1>1 DEF Certify, Upload, Expire, taskVars
  <1>2. ASSUME NEW b \in Blobs, Index(b) PROVE TypeOK'
    <2>1. rows' \subseteq Rows
      BY <1>2, InsertOfIsRow DEF Index
    <2>2. inserts' \in [Blobs -> 0 .. MaxObjects]
      BY <1>2 DEF Index
    <2>3. QED
      BY <1>2, <2>1, <2>2 DEF Index, taskVars
  <1>3. ASSUME NEW r \in Restores, RestoreQuery(r) PROVE TypeOK'
    <2>1. found' \in [Restores -> SUBSET Objects]
      BY <1>3, OnChainIsUploaded DEF RestoreQuery
    <2>2. pc' \in [Requests -> Stages]
      BY <1>3 DEF RestoreQuery, Stage, Stages
    <2>3. QED
      BY <1>3, <2>1, <2>2 DEF RestoreQuery, storeVars, taskVars
  <1>4. ASSUME NEW r \in Restores, RestoreSelect(r) PROVE TypeOK'
    <2>1. Missing(r) \subseteq Entries
      BY DEF Missing
    <2>2. fetching' \subseteq Requests \X Entries
      BY <1>4, <2>1, LimitedIsPart DEF RestoreSelect, Requests
    <2>3. existing' \in [Restores -> SUBSET Blobs]
      BY <1>4 DEF RestoreSelect, Indexed
    <2>4. pc' \in [Requests -> Stages]
      BY <1>4 DEF RestoreSelect, Stage, Stages
    <2>5. QED
      BY <1>4, <2>2, <2>3, <2>4 DEF RestoreSelect, storeVars
  <1>5. ASSUME NEW q \in Recalls, Search(q) PROVE TypeOK'
    <2>1. fetching' \subseteq Requests \X Entries
      BY <1>5, LimitedIsPart DEF Search, Requests
    <2>2. pc' \in [Requests -> Stages]
      BY <1>5 DEF Search, Stage, Stages
    <2>3. QED
      BY <1>5, <2>1, <2>2 DEF Search, storeVars
  <1>6. ASSUME NEW p \in Requests, NEW e \in Entries, Fetch(p, e) PROVE TypeOK'
    BY <1>6 DEF Fetch, storeVars
  <1>7. ASSUME NEW p \in Requests, NEW e \in Entries, Drop(p, e) PROVE TypeOK'
    BY <1>7 DEF Drop, storeVars
  <1>8. ASSUME NEW p \in Requests, NEW e \in Entries, Open(p, e) PROVE TypeOK'
    <2>1. ready' \subseteq Restores \X Objects
      <3>1. <<p, e>> \in opening
        BY <1>8 DEF Open
      <3>2. p \in Restores => e \in Objects
        BY <3>1 DEF TasksAreOnChain
      <3>3. QED
        BY <1>8, <3>2 DEF Open
    <2>2. dropping' \subseteq Requests \X Entries /\ denied' \subseteq dropping'
      BY <1>8 DEF Open
    <2>3. opening' \subseteq Requests \X Entries
      BY <1>8 DEF Open
    <2>4. QED
      BY <1>8, <2>1, <2>2, <2>3 DEF Open, storeVars
  <1>9. ASSUME NEW r \in Restores, NEW e \in Objects, Insert(r, e) PROVE TypeOK'
    <2>1. rows' \subseteq Rows
      BY <1>9, RestoredIsRow DEF Insert
    <2>2. ready' \subseteq Restores \X Objects
      BY <1>9 DEF Insert
    <2>3. QED
      BY <1>9, <2>1, <2>2 DEF Insert, storeVars
  <1>10. ASSUME NEW p \in Requests, Return(p) PROVE TypeOK'
    BY <1>10 DEF Return, Stage, Stages, storeVars, taskVars
  <1>11. CASE Restart
    BY <1>11 DEF Restart, Stages, storeVars
  <1>12. CASE UNCHANGED vars
    BY <1>12 DEF vars
  <1>13. QED
    BY <1>1, <1>2, <1>3, <1>4, <1>5, <1>6, <1>7, <1>8, <1>9, <1>10, <1>11, <1>12
    DEF Next

-----------------------------------------------------------------------------
(* Uploads only grow, and an insert follows an upload.                     *)
LEMMA UploadsStep ==
  ASSUME IndexInv, [Next]_vars
  PROVE  /\ InsertsAreUploaded'
         /\ \A b \in Blobs : uploads'[b] >= uploads[b]
  <1> USE DEF IndexInv, TypeOK, InsertsAreUploaded
  <1>1. ASSUME NEW b \in Blobs, Upload(b)
        PROVE  InsertsAreUploaded' /\ \A c \in Blobs : uploads'[c] >= uploads[c]
    BY <1>1, BoundsAssumption DEF Upload
  <1>2. ASSUME NEW b \in Blobs, Index(b)
        PROVE  InsertsAreUploaded' /\ \A c \in Blobs : uploads'[c] >= uploads[c]
    BY <1>2, BoundsAssumption DEF Index
  <1>3. ASSUME UNCHANGED <<uploads, inserts>>
        PROVE  InsertsAreUploaded' /\ \A c \in Blobs : uploads'[c] >= uploads[c]
    BY <1>3, BoundsAssumption
  <1>4. QED
    BY <1>1, <1>2, <1>3
    DEF Next, vars, storeVars, Certify, Expire, RestoreQuery, RestoreSelect, Search, Return,
        Fetch, Drop, Open, Insert, Restart

(* Rows are written for uploaded blobs.                                    *)
LEMMA RowsStep ==
  ASSUME IndexInv, [Next]_vars
  PROVE  RowsAreOnChain'
  <1> USE EntryParts, BoundsAssumption DEF IndexInv, TypeOK, RowsAreOnChain
  <1>0. \A b \in Blobs : uploads[b] > 0 => uploads'[b] > 0
    <2>1. TypeOK'
      BY TypeStep
    <2>2. QED
      BY <2>1, UploadsStep
  <1>1. ASSUME NEW b \in Blobs, Index(b) PROVE RowsAreOnChain'
    <2>1. uploads'[b] > 0
      BY <1>0, <1>1 DEF Index
    <2>2. Blob(InsertOf(b)) = b
      BY <1>1, InsertOfIsRow DEF Index
    <2>3. rows' = rows \cup {InsertOf(b)}
      BY <1>1 DEF Index
    <2>4. QED
      BY <1>0, <2>1, <2>2, <2>3
  <1>2. ASSUME NEW r \in Restores, NEW e \in Objects, Insert(r, e) PROVE RowsAreOnChain'
    <2>1. rows' \subseteq rows \cup {<<Blob(e), r, e[3]>>}
      BY <1>2 DEF Insert
    <2>2. uploads[Blob(e)] > 0
      BY <1>2 DEF Insert, TasksAreOnChain
    <2>3. QED
      BY <1>0, <2>1, <2>2, RestoredIsRow
  <1>3. ASSUME rows' \subseteq rows PROVE RowsAreOnChain'
    BY <1>0, <1>3
  <1>4. QED
    BY <1>1, <1>2, <1>3
    DEF Next, vars, Certify, Upload, Expire, RestoreQuery, RestoreSelect, Search, Return,
        Fetch, Drop, Open, Restart

(* Restores work on objects that are on chain.                             *)
LEMMA TasksStep ==
  ASSUME IndexInv, [Next]_vars
  PROVE  TasksAreOnChain'
  <1> USE EntryParts, BoundsAssumption DEF IndexInv, TypeOK, TasksAreOnChain
  <1>0. \A b \in Blobs : uploads[b] > 0 => uploads'[b] > 0
    <2>1. TypeOK'
      BY TypeStep
    <2>2. QED
      BY <2>1, UploadsStep
  <1>1. ASSUME NEW r \in Restores, RestoreQuery(r) PROVE TasksAreOnChain'
    <2>1. \A s \in Restores : \A e \in found'[s] : uploads[Blob(e)] > 0
      BY <1>1, OnChainIsUploaded DEF RestoreQuery
    <2>2. QED
      BY <1>1, <2>1 DEF RestoreQuery, storeVars, taskVars
  <1>2. ASSUME NEW r \in Restores, RestoreSelect(r) PROVE TasksAreOnChain'
    <2>1. Missing(r) \subseteq found[r] /\ found[r] \subseteq Objects
      BY DEF Missing
    <2>2. \A t \in fetching' : t \in fetching \/ (t[1] = r /\ t[2] \in found[r])
      BY <1>2, <2>1, LimitedIsPart DEF RestoreSelect
    <2>3. QED
      BY <1>2, <2>1, <2>2 DEF RestoreSelect, storeVars
  <1>3. ASSUME NEW q \in Recalls, Search(q) PROVE TasksAreOnChain'
    <2>1. \A t \in fetching' : t \in fetching \/ t[1] = q
      BY <1>3 DEF Search
    <2>2. QED
      BY <1>3, <2>1, RequestsAssumption DEF Search, storeVars
  <1>4. ASSUME NEW p \in Requests, NEW e \in Entries, Fetch(p, e) PROVE TasksAreOnChain'
    BY <1>4 DEF Fetch, storeVars
  <1>5. ASSUME NEW p \in Requests, NEW e \in Entries, Open(p, e) PROVE TasksAreOnChain'
    BY <1>5 DEF Open, storeVars
  <1>6. ASSUME found' = found, fetching' \subseteq fetching, opening' \subseteq opening,
               ready' \subseteq ready
        PROVE  TasksAreOnChain'
    BY <1>0, <1>6
  <1>7. QED
    BY <1>1, <1>2, <1>3, <1>4, <1>5, <1>6
    DEF Next, vars, taskVars, Certify, Upload, Index, Expire, Return, Drop, Insert, Restart

(* A deletion keeps its reason, or is noted as overtaken.                  *)
LEMMA DropsStep ==
  ASSUME IndexInv, [Next]_vars
  PROVE  DropsHaveReason'
  <1> USE EntryParts DEF IndexInv, TypeOK, DropsHaveReason
  <1>1. ASSUME NEW p \in Requests, NEW e \in Entries, Fetch(p, e) PROVE DropsHaveReason'
    BY <1>1 DEF Fetch, storeVars
  <1>2. ASSUME NEW p \in Requests, NEW e \in Entries, Open(p, e) PROVE DropsHaveReason'
    BY <1>2 DEF Open, storeVars
  <1>3. ASSUME NEW b \in Blobs, Certify(b) PROVE DropsHaveReason'
    BY <1>3 DEF Certify
  <1>4. ASSUME NEW p \in Requests, NEW e \in Entries, Drop(p, e) PROVE DropsHaveReason'
    BY <1>4 DEF Drop, storeVars
  <1>5. CASE Restart
    BY <1>5 DEF Restart
  <1>6. ASSUME UNCHANGED <<dropping, denied, stale>>, expired \subseteq expired'
        PROVE  DropsHaveReason'
    BY <1>6
  <1>7. QED
    BY <1>1, <1>2, <1>3, <1>4, <1>5, <1>6
    DEF Next, vars, storeVars, taskVars, Upload, Index, Expire, RestoreQuery,
        RestoreSelect, Search, Return, Insert

(* Outside a restart the table loses a blob only to a deletion that is     *)
(* carried out, which has its reason.                                      *)
LEMMA OnlyGoneRowsVanishStep ==
  ASSUME IndexInv, [Next]_vars, restarts' = restarts
  PROVE  \A b \in Indexed \ Indexed' :
           \E t \in dropping \ dropping' :
              Blob(t[2]) = b /\ (b \in expired \/ t \in denied \cup stale)
  <1>1. ASSUME NEW p \in Requests, NEW e \in Entries, Drop(p, e),
               NEW b \in Indexed \ Indexed'
        PROVE  \E t \in dropping \ dropping' :
                 Blob(t[2]) = b /\ (b \in expired \/ t \in denied \cup stale)
    <2> DEFINE t == <<p, e>>
    <2>1. t \in dropping \ dropping' /\ t[2] = e
      BY <1>1 DEF Drop
    <2>2. b = Blob(e)
      BY <1>1 DEF Drop, Indexed
    <2>3. Blob(t[2]) \in expired \/ t \in denied \cup stale
      BY <2>1 DEF IndexInv, DropsHaveReason
    <2>4. QED
      BY <2>1, <2>2, <2>3
  <1>2. ASSUME rows \subseteq rows' PROVE Indexed \subseteq Indexed'
    BY <1>2 DEF Indexed
  <1>3. ~ Restart
    BY BoundsAssumption DEF Restart, IndexInv, TypeOK
  <1>4. QED
    BY <1>1, <1>2, <1>3
    DEF Next, vars, Certify, Upload, Index, Expire, RestoreQuery, RestoreSelect, Search,
        Return, Fetch, Open, Insert

(* The rows and the tasks of a restore are of blobs that were missing when *)
(* it compared: from the comparison on its tasks only come from tasks, and *)
(* its rows from tasks that are ready.                                     *)
LEMMA MissingStep ==
  ASSUME IndexInv, [Next]_vars
  PROVE  TasksAreMissing' /\ NoLateCopies'
  <1> USE EntryParts, RequestsAssumption DEF IndexInv, TypeOK, TasksAreMissing, NoLateCopies
  <1>1. ASSUME NEW r \in Restores, RestoreSelect(r)
        PROVE  TasksAreMissing' /\ NoLateCopies'
    <2>1. pc[r] = "select" /\ r \in Requests
          /\ UNCHANGED <<rows, opening, dropping, ready>>
          /\ \A q \in Requests : q # r => pc'[q] = pc[q]
      BY <1>1 DEF RestoreSelect, Stage, Requests
    <2>2. \A x \in rows : x[2] # r
      BY <2>1
    <2>3. \A t \in Tasks : t[1] # r
      BY <2>1 DEF TasksInv
    <2>4. \A s \in Restores : s # r => existing'[s] = existing[s]
      BY <1>1 DEF RestoreSelect
    <2>5. \A t \in Tasks' : t \in Tasks \/ (t[1] = r /\ Blob(t[2]) \notin existing'[r])
      <3>1. CASE UNCHANGED fetching
        BY <2>1, <3>1 DEF Tasks
      <3>2. CASE ~ UNCHANGED fetching
        <4>1. PICK S \in Limited(Missing(r)) : fetching' = fetching \cup ({r} \X S)
          BY <1>1, <3>2 DEF RestoreSelect
        <4>2. existing'[r] = Indexed
          BY <1>1, <3>2 DEF RestoreSelect
        <4>3. \A e \in S : Blob(e) \notin Indexed
          BY LimitedIsPart DEF Missing
        <4>4. QED
          BY <2>1, <4>1, <4>2, <4>3 DEF Tasks
      <3>3. QED
        BY <3>1, <3>2
    <2>6. \A x \in rows : x[2] \in Restores => x[2] \in Requests
      BY DEF Requests
    <2>7. TasksAreMissing'
      BY <2>1, <2>2, <2>3, <2>4, <2>5, <2>6
    <2>8. NoLateCopies'
      BY <2>1, <2>2, <2>4
    <2>9. QED
      BY <2>7, <2>8
  <1>2. ASSUME NEW q \in Recalls, Search(q) PROVE TasksAreMissing' /\ NoLateCopies'
    <2>1. \A t \in Tasks' : t \in Tasks \/ t[1] = q
      BY <1>2 DEF Search, Tasks
    <2>2. UNCHANGED <<rows, existing>> /\ \A s \in Restores : pc'[s] = pc[s]
      BY <1>2 DEF Search, Stage, Requests
    <2>3. QED
      BY <2>1, <2>2
  <1>3. ASSUME NEW r \in Restores, NEW e \in Objects, Insert(r, e)
        PROVE  TasksAreMissing' /\ NoLateCopies'
    <2>1. <<r, e>> \in Tasks /\ Blob(e) \notin existing[r] /\ pc[r] = "work"
      BY <1>3 DEF Insert, Tasks, TasksInv
    <2>2. rows' \subseteq rows \cup {<<Blob(e), r, e[3]>>} /\ UNCHANGED <<pc, existing>>
      BY <1>3 DEF Insert
    <2>3. Tasks' \subseteq Tasks
      BY <1>3 DEF Insert, Tasks
    <2>4. <<Blob(e), r, e[3]>>[2] = r /\ Blob(<<Blob(e), r, e[3]>>) = Blob(e)
      OBVIOUS
    <2>5. QED
      BY <2>1, <2>2, <2>3, <2>4
  <1>4. ASSUME NEW b \in Blobs, Index(b) PROVE TasksAreMissing' /\ NoLateCopies'
    <2>1. rows' = rows \cup {InsertOf(b)} /\ InsertOf(b)[2] \notin Restores
      BY <1>4 DEF Index, InsertOf
    <2>2. UNCHANGED <<pc, existing>> /\ Tasks' = Tasks
      BY <1>4 DEF Index, taskVars, Tasks
    <2>3. QED
      BY <2>1, <2>2
  <1>5. ASSUME NEW p \in Requests, RestoreQuery(p) \/ Return(p), UNCHANGED <<rows, existing>>,
               Tasks' \subseteq Tasks
        PROVE  TasksAreMissing' /\ NoLateCopies'
    <2>1. \A x \in rows : x[2] \in Restores => pc'[x[2]] \in {"work", "over"}
      BY <1>5 DEF RestoreQuery, Return, Stage, Requests
    <2>2. QED
      BY <1>5, <2>1
  <1>6. CASE Restart
    <2>1. \A x \in rows' : x[2] \in Restores => pc'[x[2]] \in {"work", "over"}
      BY <1>6 DEF Restart, Requests
    <2>2. QED
      BY <1>6, <2>1 DEF Restart, Tasks
  <1>7. ASSUME rows' \subseteq rows, Tasks' \subseteq Tasks, UNCHANGED <<pc, existing>>
        PROVE  TasksAreMissing' /\ NoLateCopies'
    BY <1>7
  <1>8. ASSUME NEW p \in Requests, NEW e \in Entries, Fetch(p, e) \/ Drop(p, e) \/ Open(p, e)
        PROVE  rows' \subseteq rows /\ Tasks' \subseteq Tasks /\ UNCHANGED <<pc, existing>>
    BY <1>8 DEF Fetch, Drop, Open, Tasks
  <1>9. ASSUME NEW b \in Blobs, Certify(b) \/ Upload(b) \/ Expire(b)
        PROVE  rows' \subseteq rows /\ Tasks' \subseteq Tasks /\ UNCHANGED <<pc, existing>>
    BY <1>9 DEF Certify, Upload, Expire, Tasks, taskVars
  <1>10. ASSUME NEW p \in Requests, Return(p)
         PROVE  UNCHANGED <<rows, existing>> /\ Tasks' \subseteq Tasks
    BY <1>10 DEF Return, Tasks, taskVars
  <1>11. ASSUME NEW r \in Restores, RestoreQuery(r)
         PROVE  r \in Requests /\ UNCHANGED <<rows, existing>> /\ Tasks' \subseteq Tasks
    BY <1>11 DEF RestoreQuery, Tasks, taskVars, Requests
  <1>12. CASE UNCHANGED vars
    BY <1>12 DEF vars, Tasks
  <1>13. QED
    BY <1>1, <1>2, <1>3, <1>4, <1>5, <1>6, <1>7, <1>8, <1>9, <1>10, <1>11, <1>12 DEF Next

-----------------------------------------------------------------------------
(* The tasks of the requests.                                              *)

(* A step that begins the work of p: it gives p downloads, and had no task *)
(* of p to meet.                                                           *)
Begins(p) ==
  /\ pc[p] \in {"idle", "select"}
  /\ pc' = [pc EXCEPT ![p] = "work"]
  /\ fetching \subseteq fetching'
  /\ \A t \in fetching' : t \in fetching \/ t[1] = p
  /\ UNCHANGED <<opening, dropping, ready>>

(* A step of the task t: it is at a later stage, if anywhere; an insert    *)
(* that fails may end the other inserts of its request as well.            *)
Moves(t) ==
  /\ t \in Tasks
  /\ UNCHANGED pc
  /\ t \notin fetching'
  /\ t \in opening' => t \in fetching
  /\ t \in dropping' \cup ready' => t \in opening \cup fetching
  /\ t \notin dropping' \/ t \notin ready'
  /\ t \in opening' => t \notin dropping' \cup ready'
  /\ fetching' \subseteq fetching
  /\ opening' \subseteq opening \cup {t}
  /\ dropping' \subseteq dropping \cup {t}
  /\ ready' \subseteq ready \cup {t}
  /\ fetching \subseteq fetching' \cup {t}
  /\ opening \subseteq opening' \cup {t}
  /\ dropping \subseteq dropping' \cup {t}

(* Whatever else happens leaves every task alone, or ends all of them.     *)
Rests ==
  /\ \A t \in Tasks' : pc'[t[1]] = pc[t[1]]
  /\ \/ UNCHANGED <<fetching, opening, dropping, ready>>
     \/ fetching' = {} /\ opening' = {} /\ dropping' = {} /\ ready' = {}

LEMMA MoveIsMoves ==
  ASSUME IndexInv, NEW p \in Requests, NEW e \in Entries, Move(p, e)
  PROVE  Moves(<<p, e>>)
  <1> DEFINE t == <<p, e>>
  <1> USE DEF IndexInv, TasksInv, Tasks
  <1>1. CASE Fetch(p, e)
    BY <1>1 DEF Fetch, Moves
  <1>2. CASE Drop(p, e)
    BY <1>2 DEF Drop, Moves
  <1>3. CASE Open(p, e)
    BY <1>3 DEF Open, Moves
  <1>4. CASE Insert(p, e)
    BY <1>4 DEF Insert, Moves
  <1>5. QED
    BY <1>1, <1>2, <1>3, <1>4 DEF Move

LEMMA TaskStep ==
  ASSUME IndexInv, [Next]_vars
  PROVE  \/ \E p \in Requests : Begins(p)
         \/ \E p \in Requests, e \in Entries : Move(p, e)
         \/ Rests
  <1> USE EntryParts DEF IndexInv, TypeOK
  <1>1. ASSUME NEW r \in Restores, RestoreQuery(r) PROVE Rests
    <2>1. pc[r] = "idle" /\ pc' = [pc EXCEPT ![r] = pc'[r]] /\ UNCHANGED taskVars
      BY <1>1 DEF RestoreQuery, Stage, Requests
    <2>2. \A t \in Tasks : t[1] # r
      BY <2>1 DEF TasksInv
    <2>3. Tasks' = Tasks /\ \A t \in Tasks : t[1] \in Requests
      BY <2>1 DEF Tasks, taskVars, Requests
    <2>4. \A t \in Tasks : pc'[t[1]] = pc[t[1]]
      BY <2>1, <2>2, <2>3
    <2>5. QED
      BY <2>1, <2>3, <2>4 DEF Rests, taskVars
  <1>2. ASSUME NEW r \in Restores, RestoreSelect(r) PROVE Begins(r) \/ Rests
    <2>1. CASE Stage(r, "select", "work")
      BY <1>2, <2>1 DEF RestoreSelect, Stage, Begins
    <2>2. CASE Stage(r, "select", "over") /\ UNCHANGED fetching
      <3>1. \A t \in Tasks : t[1] # r
        BY <2>2 DEF TasksInv, Stage
      <3>2. QED
        BY <1>2, <2>2, <3>1 DEF RestoreSelect, Stage, Rests, Tasks, taskVars
    <2>3. QED
      BY <1>2, <2>1, <2>2 DEF RestoreSelect
  <1>3. ASSUME NEW q \in Recalls, Search(q) PROVE Begins(q) \/ Rests
    <2>1. CASE Stage(q, "idle", "work")
      BY <1>3, <2>1 DEF Search, Stage, Begins
    <2>2. CASE Stage(q, "idle", "over") /\ UNCHANGED fetching
      <3>1. \A t \in Tasks : t[1] # q
        BY <2>2 DEF TasksInv, Stage
      <3>2. QED
        BY <1>3, <2>2, <3>1 DEF Search, Stage, Rests, Tasks, taskVars
    <2>3. QED
      BY <1>3, <2>1, <2>2 DEF Search
  <1>4. ASSUME NEW p \in Requests, Return(p) PROVE Rests
    <2>1. \A t \in Tasks : t \in Requests \X Entries
      BY DEF Tasks, Requests
    <2>2. \A t \in Tasks : t[1] # p
      BY <1>4, <2>1 DEF Return, Busy, Tasks
    <2>3. QED
      BY <1>4, <2>2 DEF Return, Stage, Rests, Tasks, taskVars
  <1>5. CASE Restart
    BY <1>5 DEF Restart, Rests, Tasks
  <1>6. ASSUME NEW p \in Requests, NEW e \in Entries, Fetch(p, e) \/ Drop(p, e) \/ Open(p, e)
        PROVE  Move(p, e)
    BY <1>6 DEF Move
  <1>7. ASSUME NEW r \in Restores, NEW e \in Objects, Insert(r, e)
        PROVE  Move(r, e) /\ r \in Requests /\ e \in Entries
    BY <1>7 DEF Move, Requests
  <1>8. CASE UNCHANGED <<pc, fetching, opening, dropping, ready>>
    BY <1>8 DEF Rests
  <1>9. QED
    BY <1>1, <1>2, <1>3, <1>4, <1>5, <1>6, <1>7, <1>8
    DEF Next, Certify, Upload, Index, Expire, vars, taskVars, Requests

(* A task stays at one stage, and with a request that works.               *)
LEMMA StagesStep ==
  ASSUME IndexInv, [Next]_vars
  PROVE  TasksInv'
  <1> USE DEF IndexInv, TasksInv
  <1>1. ASSUME NEW p \in Requests, Begins(p) PROVE TasksInv'
    <2>1. \A t \in Tasks : t[1] # p
      BY <1>1 DEF Begins
    <2>2. pc'[p] = "work" /\ \A q \in Requests : q # p => pc'[q] = pc[q]
      BY <1>1 DEF Begins, TypeOK
    <2>3. \A t \in Tasks : t[1] \in Requests
      BY EntryParts DEF Tasks, TypeOK, Requests
    <2>4. \A t \in Tasks' : t \in Tasks \/ t[1] = p
      BY <1>1 DEF Begins, Tasks
    <2>5. \A t \in Tasks' : pc'[t[1]] = "work"
      BY <2>2, <2>3, <2>4
    <2>6. \A t \in fetching' : t \notin opening' \cup dropping' \cup ready'
      BY <1>1, <2>1 DEF Begins, Tasks
    <2>7. QED
      BY <1>1, <2>5, <2>6 DEF Begins
  <1>2. ASSUME NEW p \in Requests, NEW e \in Entries, Move(p, e) PROVE TasksInv'
    <2> DEFINE t == <<p, e>>
    <2> HIDE DEF t
    <2>1. Moves(t)
      BY <1>2, MoveIsMoves DEF t
    <2>2. Tasks' \subseteq Tasks /\ UNCHANGED pc
      BY <2>1 DEF Moves, Tasks
    <2>3. \A u \in Tasks' : pc'[u[1]] = "work"
      BY <2>2
    <2>4. \A u \in fetching' : u \notin opening' \cup dropping' \cup ready'
      BY <2>1 DEF Moves
    <2>5. \A u \in opening' : u \notin dropping' \cup ready'
      BY <2>1 DEF Moves
    <2>6. \A u \in dropping' : u \notin ready'
      BY <2>1 DEF Moves
    <2>7. QED
      BY <2>3, <2>4, <2>5, <2>6
  <1>3. CASE Rests
    BY <1>3 DEF Rests, Tasks, taskVars
  <1>4. QED
    BY <1>1, <1>2, <1>3, TaskStep

-----------------------------------------------------------------------------
(* The invariant of the index holds in every reachable state.              *)
THEOREM Invariance == Spec => []IndexInv
  <1>1. Init => IndexInv
    BY InitIndexInv
  <1>2. IndexInv /\ [Next]_vars => IndexInv'
    BY TypeStep, UploadsStep, RowsStep, TasksStep, DropsStep, MissingStep, StagesStep DEF IndexInv
  <1>3. QED
    BY <1>1, <1>2, PTL DEF Spec

(* Type correctness.                                                       *)
THEOREM TypeCorrectness == Spec => []TypeOK
  <1>1. IndexInv => TypeOK
    BY DEF IndexInv
  <1>2. QED
    BY <1>1, Invariance, PTL

(* Every row, also one that a restore wrote, can be found on chain again.  *)
THEOREM IndexIsRestorable == Spec => []RowsAreOnChain
  <1>1. IndexInv => RowsAreOnChain
    BY DEF IndexInv
  <1>2. QED
    BY <1>1, Invariance, PTL

(* A restore copies no row that was there when it compared.                *)
THEOREM CopySafety == Spec => []NoLateCopies
  <1>1. IndexInv => NoLateCopies
    BY DEF IndexInv
  <1>2. QED
    BY <1>1, Invariance, PTL

(* A blob leaves the index only by a deletion of which the task itself was *)
(* told 404 or failed to decrypt; if the blob is stored by then, it was    *)
(* stored again between that answer and the deletion.                      *)
THEOREM CleanupSafety == Spec => OnlyGoneRowsVanish
  <1>1. IndexInv /\ [Next]_vars =>
          [restarts' = restarts =>
             \A b \in Indexed \ Indexed' :
               \E t \in dropping \ dropping' :
                  Blob(t[2]) = b /\ (b \in expired \/ t \in denied \cup stale)]_vars
    BY OnlyGoneRowsVanishStep
  <1>2. QED
    BY <1>1, Invariance, PTL DEF Spec, OnlyGoneRowsVanish

-----------------------------------------------------------------------------
(* Progress of the requests.                                               *)

(* The guards: a request with a task can move one of its tasks.            *)
LEMMA SomeTaskMayMove ==
  ASSUME IndexInv, NEW t \in Tasks
  PROVE  \E u \in Tasks : u[1] = t[1] /\ MayMove(u[1], u[2])
  <1> DEFINE p == t[1]
  <1>0. /\ p \in Requests /\ t = <<p, t[2]>> /\ t[2] \in Entries
        /\ \A e \in Entries : <<p, e>> \in Tasks =>
             <<p, e>>[1] = p /\ <<p, e>>[2] = e
    BY EntryParts DEF IndexInv, TypeOK, Tasks, Requests
  <1>1. CASE Busy(p, fetching \cup dropping)
    <2>1. PICK e \in Entries : <<p, e>> \in fetching \cup dropping
      BY <1>1 DEF Busy
    <2>2. <<p, e>> \in Tasks /\ MayMove(p, e)
      BY <2>1 DEF Tasks, MayMove
    <2>3. QED
      BY <1>0, <2>2
  <1>2. CASE ~Busy(p, fetching \cup dropping) /\ Busy(p, opening)
    <2>1. PICK e \in Entries : <<p, e>> \in opening
      BY <1>2 DEF Busy
    <2>2. <<p, e>> \in Tasks /\ MayMove(p, e)
      BY <1>2, <2>1 DEF Tasks, MayMove, MayOpen
    <2>3. QED
      BY <1>0, <2>2
  <1>3. CASE ~Busy(p, fetching \cup dropping) /\ ~Busy(p, opening)
    <2>1. ~Busy(p, fetching \cup dropping \cup opening)
      BY <1>3 DEF Busy
    <2>2. t \in ready
      BY <1>0, <2>1 DEF Tasks, Busy
    <2>3. MayMove(p, t[2])
      BY <1>0, <2>1, <2>2 DEF MayMove
    <2>4. QED
      BY <2>3
  <1>4. QED
    BY <1>1, <1>2, <1>3

(* A step of one task leaves the others at their stage, or ends them.      *)
LEMMA MovesLower ==
  ASSUME TasksInv, NEW t, Moves(t)
  PROVE  /\ TaskLeft(t)' < TaskLeft(t)
         /\ \A u \in Tasks : TaskLeft(u)' <= TaskLeft(u)
  <1>1. TaskLeft(t)' < TaskLeft(t)
    <2>1. CASE t \in fetching
      BY <2>1 DEF Moves, TaskLeft
    <2>2. CASE t \in opening /\ t \notin fetching
      BY <2>2 DEF Moves, TaskLeft
    <2>3. CASE t \in dropping \cup ready /\ t \notin fetching \cup opening
      BY <2>3 DEF Moves, TaskLeft
    <2>4. QED
      BY <2>1, <2>2, <2>3 DEF Moves, Tasks
  <1>2. ASSUME NEW u \in Tasks, u # t PROVE TaskLeft(u)' <= TaskLeft(u)
    <2>1. /\ u \in fetching' <=> u \in fetching
          /\ u \in opening' <=> u \in opening
          /\ u \in dropping' \cup ready' => u \in dropping \cup ready
      BY <1>2 DEF Moves
    <2>2. QED
      BY <2>1 DEF TaskLeft
  <1>3. TaskLeft(t)' <= TaskLeft(t)
    BY <1>1 DEF TaskLeft
  <1>4. QED
    BY <1>1, <1>2, <1>3

(* Every request that searches or restores comes to its answer if each of  *)
(* the calls it awaits returns: there is always one that it awaits, and    *)
(* no answer leaves it more to do.                                         *)
THEOREM RequestProgress == Spec => RequestsAdvance
  <1> DEFINE Lowers ==
        /\ \A t \in Tasks :
             /\ TaskLeft(t)' <= TaskLeft(t)
             /\ Move(t[1], t[2]) => TaskLeft(t)' < TaskLeft(t)
        /\ \A t \in Tasks' \ Tasks : pc[t[1]] \in {"idle", "select"}
  <1>1. IndexInv => \A t \in Tasks : \E u \in Tasks : u[1] = t[1] /\ MayMove(u[1], u[2])
    BY SomeTaskMayMove
  <1>2. ASSUME IndexInv, [Next]_vars PROVE Lowers
    <2>1. \A t \in Tasks : /\ t[1] \in Requests /\ t[2] \in Entries
                           /\ t = <<t[1], t[2]>>
      BY <1>2, EntryParts DEF IndexInv, TypeOK, Tasks, Requests
    <2>2. TasksInv
      BY <1>2 DEF IndexInv
    <2>3. ASSUME NEW t \in Tasks, Move(t[1], t[2]) PROVE TaskLeft(t)' < TaskLeft(t)
      <3>1. Moves(t)
        BY <1>2, <2>1, <2>3, MoveIsMoves
      <3>2. QED
        BY <2>2, <3>1, MovesLower
    <2>4. CASE \E p \in Requests, e \in Entries : Move(p, e)
      <3>1. PICK p \in Requests, e \in Entries : Move(p, e)
        BY <2>4
      <3>2. Moves(<<p, e>>)
        BY <1>2, <3>1, MoveIsMoves
      <3>3. \A t \in Tasks : TaskLeft(t)' <= TaskLeft(t)
        BY <2>2, <3>2, MovesLower
      <3>4. Tasks' \subseteq Tasks
        BY <3>2 DEF Moves, Tasks
      <3>5. QED
        BY <2>3, <3>3, <3>4
    <2>5. CASE \E p \in Requests : Begins(p)
      <3>1. PICK p \in Requests : Begins(p)
        BY <2>5
      <3>2. \A t \in Tasks : t[1] # p
        BY <2>2, <3>1 DEF Begins, TasksInv
      <3>3. \A t \in Tasks : TaskLeft(t)' = TaskLeft(t) /\ TaskLeft(t) \in Nat
        BY <3>1, <3>2 DEF Begins, TaskLeft
      <3>4. \A t \in Tasks' \ Tasks : t[1] = p
        BY <3>1 DEF Begins, Tasks
      <3>5. QED
        BY <2>3, <3>1, <3>3, <3>4 DEF Begins
    <2>6. CASE Rests
      <3>1. Tasks' \subseteq Tasks
        BY <2>6 DEF Rests, Tasks, taskVars
      <3>2. \A t \in Tasks : TaskLeft(t)' <= TaskLeft(t)
        BY <2>6 DEF Rests, TaskLeft, taskVars
      <3>3. QED
        BY <2>3, <3>1, <3>2
    <2>7. QED
      BY <1>2, <2>4, <2>5, <2>6, TaskStep
  <1>3. IndexInv /\ [Next]_vars => [Lowers]_vars
    BY <1>2
  <1>4. QED
    BY <1>1, <1>3, Invariance, PTL DEF Spec, RequestsAdvance
=============================================================================
