---------------------------- MODULE MemoryIndex ----------------------------
(***************************************************************************)
(* The vector table of one owner and namespace against the blobs that      *)
(* Walrus and the chain hold.  Remember inserts rows; restore compares the *)
(* chain with the table and inserts what is missing; recall, ask and       *)
(* restore delete the rows of blobs they take for gone.  All of them run   *)
(* concurrently and await a service between any two of their steps.        *)
(***************************************************************************)
EXTENDS Integers, FiniteSets

CONSTANTS
  Blobs,        \* Walrus blob ids
  Manual,       \* those that clients sent to /api/remember/manual
  Restores,     \* requests to /api/restore
  Recalls,      \* requests to /api/recall and /api/ask
  Limit,        \* `limit` of each request
  MaxObjects,   \* bound: uploads of one blob (a retry repeats the upload)
  MaxRestarts,  \* bound: restarts of the process
  Credential    \* does /seal/decrypt find a credential on the request?
                \* The relayer sends none (seal.rs:111-121): FALSE today

ASSUME RequestsAssumption ==
  /\ Manual \subseteq Blobs
  /\ Restores \cap Recalls = {} /\ "remember" \notin Restores
ASSUME BoundsAssumption ==
  /\ Limit \in Nat /\ MaxObjects \in Nat /\ MaxRestarts \in Nat
  /\ Credential \in BOOLEAN

Requests == Restores \cup Recalls

(* A row, or a Sui Blob object, of a blob: <<blob, who made it, number>>.  *)
Rows    == Blobs \X (Restores \cup {"remember"}) \X (1 .. MaxObjects)
Objects == Blobs \X {"chain"} \X (1 .. MaxObjects)
Entries == Rows \cup Objects
Blob(e) == e[1]

VARIABLES
  uploads,   \* uploads[b]: Blob objects of b that belong to the owner
  inserts,   \* inserts[b]: uploads of b whose row was written
  expired,   \* blobs that Walrus no longer serves
  rows,      \* vector_entries
  pc,        \* pc[p]: the stage of request p
  found,     \* found[r]: what restore r read on chain
  fetching,  \* <<p, e>>: task of p that downloads the blob of e
  opening,   \* <<p, e>>: task that decrypts (and, in a restore, embeds)
  dropping,  \* <<p, e>>: task about to delete the rows of the blob of e
  ready,     \* <<r, e>>: restore r has a vector for e
  existing,  \* existing[r]: the blobs r found in the table (existing_set)
  denied,    \* history: those of dropping whose decryption failed
  stale,     \* history: those of dropping that read 404 before the blob was
             \* stored again
  restarts

storeVars == <<uploads, inserts, expired>>
taskVars  == <<fetching, opening, dropping, ready, denied, stale>>
vars == <<uploads, inserts, expired, rows, pc, found, fetching, opening,
          dropping, ready, existing, denied, stale, restarts>>

Stages == {"idle", "select", "work", "over"}

TypeOK ==
  /\ uploads \in [Blobs -> 0 .. MaxObjects]
  /\ inserts \in [Blobs -> 0 .. MaxObjects]
  /\ expired \subseteq Blobs
  /\ rows \subseteq Rows
  /\ pc \in [Requests -> Stages]
  /\ found \in [Restores -> SUBSET Objects]
  /\ fetching \subseteq Requests \X Entries
  /\ opening \subseteq Requests \X Entries
  /\ dropping \subseteq Requests \X Entries
  /\ ready \subseteq Restores \X Objects
  /\ existing \in [Restores -> SUBSET Blobs]
  /\ denied \subseteq dropping
  /\ stale \subseteq dropping
  /\ restarts \in 0 .. MaxRestarts

Init ==
  /\ uploads = [b \in Blobs |-> 0]
  /\ inserts = [b \in Blobs |-> 0]
  /\ expired = {}
  /\ rows = {}
  /\ pc = [p \in Requests |-> "idle"]
  /\ found = [r \in Restores |-> {}]
  /\ fetching = {} /\ opening = {} /\ dropping = {} /\ ready = {}
  /\ existing = [r \in Restores |-> {}]
  /\ denied = {} /\ stale = {}
  /\ restarts = 0

Indexed == {Blob(e) : e \in rows}

(* The first `Limit` of S in the order of the query, which is arbitrary.   *)
Limited(S) ==
  IF Cardinality(S) <= Limit THEN {S}
  ELSE {T \in SUBSET S : Cardinality(T) = Limit}

Stage(p, from, to) ==
  /\ pc[p] = from
  /\ pc' = [pc EXCEPT ![p] = to]

-----------------------------------------------------------------------------
(* What remember does to the chain and to the table (RememberJobs has the  *)
(* steps in between): an upload certifies the blob, ends with the transfer *)
(* of a Blob object to the owner, and its row is written afterwards or     *)
(* never.  A blob id is a content address: a client that sends the same    *)
(* ciphertext again, or an execution that repeats an upload, has an        *)
(* expired blob stored again, whether or not the transfer follows.         *)
Certify(b) ==
  /\ b \in expired
  /\ expired' = expired \ {b}
  /\ stale' = stale \cup {t \in dropping \ denied : Blob(t[2]) = b}
  /\ UNCHANGED <<uploads, inserts, rows, pc, found, fetching, opening, dropping, ready,
                 existing, denied, restarts>>

Upload(b) ==
  /\ b \notin expired
  /\ uploads[b] < MaxObjects
  /\ uploads' = [uploads EXCEPT ![b] = @ + 1]
  /\ UNCHANGED <<inserts, expired, rows, pc, found, taskVars, existing, restarts>>

(* The worker upserts on its job id, remember_manual takes a fresh id.     *)
InsertOf(b) == <<b, "remember", IF b \in Manual THEN inserts[b] + 1 ELSE 1>>

IndexEarly(b) ==
  /\ inserts[b] <= uploads[b]
  /\ inserts[b] < MaxObjects
  /\ inserts' = [inserts EXCEPT ![b] = @ + 1]
  /\ rows' = rows \cup {InsertOf(b)}
  /\ UNCHANGED <<uploads, expired, pc, found, taskVars, existing, restarts>>

Index(b) ==
  /\ inserts[b] < uploads[b]
  /\ inserts' = [inserts EXCEPT ![b] = @ + 1]
  /\ rows' = rows \cup {InsertOf(b)}
  /\ UNCHANGED <<uploads, expired, pc, found, taskVars, existing, restarts>>

(* The epochs that were paid for (the sidecar buys 5 at most) are over.    *)
Expire(b) ==
  /\ uploads[b] > 0
  /\ b \notin expired
  /\ expired' = expired \cup {b}
  /\ UNCHANGED <<uploads, inserts, rows, pc, found, taskVars, existing, restarts>>

-----------------------------------------------------------------------------
(* /walrus/query-blobs may leave out any object: one that was written      *)
(* under another package id, or whose metadata cannot be read, is filtered *)
(* out.                                                                    *)
OnChain == {e \in Objects : e[3] <= uploads[Blob(e)]}

RestoreQuery(r) ==
  /\ \/ /\ Stage(r, "idle", "select")
        /\ \E S \in SUBSET OnChain : found' = [found EXCEPT ![r] = S]
     \/ Stage(r, "idle", "over") /\ UNCHANGED found
  /\ UNCHANGED <<storeVars, rows, taskVars, existing, restarts>>

AlsoPresent(r) == found[r]

Missing(r) == {e \in found[r] : Blob(e) \notin Indexed}

RestoreSelect(r) ==
  /\ \/ /\ Stage(r, "select", "work")
        /\ \E S \in Limited(Missing(r)) : fetching' = fetching \cup ({r} \X S)
        /\ existing' = [existing EXCEPT ![r] = Indexed]
     \/ Stage(r, "select", "over") /\ UNCHANGED <<fetching, existing>>
  /\ UNCHANGED <<storeVars, rows, found, opening, dropping, ready, denied, stale, restarts>>

(* recall and ask: one task for each row that search_similar returns.      *)
Search(q) ==
  /\ \/ /\ Stage(q, "idle", "work")
        /\ \E S \in Limited(rows) : fetching' = fetching \cup ({q} \X S)
     \/ Stage(q, "idle", "over") /\ UNCHANGED fetching
  /\ UNCHANGED <<storeVars, rows, found, opening, dropping, ready, denied, stale,
                 existing, restarts>>

-----------------------------------------------------------------------------
(* download_blob: the bytes, "404", or another error (a 15 s limit too).   *)
FetchDroppingOnError(p, e) ==
  /\ <<p, e>> \in fetching
  /\ fetching' = fetching \ {<<p, e>>}
  /\ \/ /\ Blob(e) \notin expired
        /\ opening' = opening \cup {<<p, e>>}
        /\ UNCHANGED dropping
     \/ /\ dropping' = dropping \cup {<<p, e>>}
        /\ UNCHANGED opening
  /\ UNCHANGED <<storeVars, rows, pc, found, ready, denied, stale, existing, restarts>>

Fetch(p, e) ==
  /\ <<p, e>> \in fetching
  /\ fetching' = fetching \ {<<p, e>>}
  /\ \/ /\ Blob(e) \notin expired
        /\ opening' = opening \cup {<<p, e>>}
        /\ UNCHANGED dropping
     \/ /\ Blob(e) \in expired
        /\ dropping' = dropping \cup {<<p, e>>}
        /\ UNCHANGED opening
     \/ UNCHANGED <<opening, dropping>>
  /\ UNCHANGED <<storeVars, rows, pc, found, ready, denied, stale, existing, restarts>>

(* cleanup_expired_blob deletes every row of the blob, whatever happened   *)
(* since the task had its reason; a database error is only logged.         *)
DropFetchingAgain(p, e) ==
  /\ <<p, e>> \in dropping
  /\ dropping' = dropping \ {<<p, e>>}
  /\ denied' = denied \ {<<p, e>>} /\ stale' = stale \ {<<p, e>>}
  /\ \/ /\ rows' = {x \in rows : Blob(x) # Blob(e)}
        /\ UNCHANGED fetching
     \/ /\ UNCHANGED rows
        /\ fetching' = fetching \cup {<<p, e>>}
  /\ UNCHANGED <<storeVars, pc, found, opening, ready, existing, restarts>>

Drop(p, e) ==
  /\ <<p, e>> \in dropping
  /\ dropping' = dropping \ {<<p, e>>}
  /\ denied' = denied \ {<<p, e>>} /\ stale' = stale \ {<<p, e>>}
  /\ \/ rows' = {x \in rows : Blob(x) # Blob(e)}
     \/ UNCHANGED rows
  /\ UNCHANGED <<storeVars, pc, found, fetching, opening, ready, existing, restarts>>

Busy(p, tasks) == \E e \in Entries : <<p, e>> \in tasks

(* restore joins all its downloads before it decrypts; recall decrypts     *)
(* each blob as it arrives.                                                *)
MayOpen(p) == p \in Restores => ~Busy(p, fetching \cup dropping)

OpenIndexing(p, e) ==
  /\ <<p, e>> \in opening
  /\ MayOpen(p)
  /\ opening' = opening \ {<<p, e>>}
  /\ ready' = ready \cup {<<p, e>>}
  /\ UNCHANGED <<dropping, denied, stale>>
  /\ UNCHANGED <<storeVars, rows, pc, found, fetching, existing, restarts>>

(* Every answer of the sidecar that is not a success becomes the text      *)
(* "seal decrypt failed: ..", and "decrypt failed" is what recall takes    *)
(* for permanent; an unreachable sidecar, a text that is not UTF-8 or a    *)
(* failed embedding only lose the result, and so does every error in ask.  *)
Open(p, e) ==
  /\ <<p, e>> \in opening
  /\ MayOpen(p)
  /\ opening' = opening \ {<<p, e>>}
  /\ \/ /\ Credential
        /\ ready' = IF p \in Restores THEN ready \cup {<<p, e>>} ELSE ready
        /\ UNCHANGED <<dropping, denied>>
     \/ /\ p \in Recalls
        /\ dropping' = dropping \cup {<<p, e>>}
        /\ denied' = denied \cup {<<p, e>>}
        /\ UNCHANGED ready
     \/ UNCHANGED <<ready, dropping, denied>>
  /\ UNCHANGED <<storeVars, rows, pc, found, fetching, stale, existing, restarts>>

(* The inserts of a restore, one after another, each under a fresh id; an  *)
(* error ends the request.                                                 *)
Insert(r, e) ==
  /\ <<r, e>> \in ready
  /\ ~Busy(r, fetching \cup dropping \cup opening)
  /\ \/ /\ rows' = rows \cup {<<Blob(e), r, e[3]>>}
        /\ ready' = ready \ {<<r, e>>}
     \/ /\ rows' = rows \/ rows' = rows \cup {<<Blob(e), r, e[3]>>}
        /\ ready' = {x \in ready : x[1] # r}
  /\ UNCHANGED <<storeVars, pc, found, fetching, opening, dropping, denied, stale,
                 existing, restarts>>

Return(p) ==
  /\ Stage(p, "work", "over")
  /\ ~Busy(p, fetching \cup opening \cup dropping \cup ready)
  /\ UNCHANGED <<storeVars, rows, found, taskVars, existing, restarts>>

-----------------------------------------------------------------------------
(* The requests die with the process.  Migration 007, run at the start,    *)
(* empties the table if it holds vectors of another dimension.             *)
Restart ==
  /\ restarts < MaxRestarts
  /\ restarts' = restarts + 1
  /\ rows' \in {rows, {}}
  /\ pc' = [p \in Requests |-> IF pc[p] = "idle" THEN "idle" ELSE "over"]
  /\ fetching' = {} /\ opening' = {} /\ dropping' = {} /\ ready' = {}
  /\ denied' = {} /\ stale' = {}
  /\ UNCHANGED <<storeVars, found, existing>>

-----------------------------------------------------------------------------
Next ==
  \/ \E b \in Blobs : Certify(b) \/ Upload(b) \/ Index(b) \/ Expire(b)
  \/ \E r \in Restores : RestoreQuery(r) \/ RestoreSelect(r)
  \/ \E q \in Recalls : Search(q)
  \/ \E p \in Requests : Return(p)
  \/ \E p \in Requests, e \in Entries : Fetch(p, e) \/ Drop(p, e) \/ Open(p, e)
  \/ \E r \in Restores, e \in Objects : Insert(r, e)
  \/ Restart

Spec == Init /\ [][Next]_vars

-----------------------------------------------------------------------------
(* Whatever the table loses can be restored: every row, also one that a    *)
(* restore wrote, names a blob of which the owner holds an object on chain.*)
RowsAreOnChain == \A e \in rows : uploads[Blob(e)] > 0

(* A blob leaves the index only with a deletion that some request carries  *)
(* out in this step, for a reason of its own: the blob is expired still,   *)
(* or this task's decryption failed, or it was stored again after this     *)
(* task had read 404 and before its DELETE.                                *)
OnlyGoneRowsVanish ==
  [][restarts' = restarts =>
       \A b \in Indexed \ Indexed' :
         \E t \in dropping \ dropping' :
            Blob(t[2]) = b /\ (b \in expired \/ t \in denied \cup stale)]_vars

(* A restore writes rows of blobs only that had none when it compared the  *)
(* chain with the table, however much later it inserts: restores that      *)
(* follow each other never copy a row, and copies come of requests that    *)
(* overlapped, or of two objects of one blob id.                           *)
NoLateCopies ==
  \A x \in rows : x[2] \in Restores => Blob(x) \notin existing[x[2]]

Tasks == fetching \cup opening \cup dropping \cup ready

(* How far a task still has to go.                                         *)
TaskLeft(t) ==
  IF t \in fetching THEN 3
  ELSE IF t \in opening THEN 2
  ELSE IF t \in dropping \cup ready THEN 1
  ELSE 0

Move(p, e) ==
  \/ Fetch(p, e) \/ Drop(p, e) \/ Open(p, e)
  \/ p \in Restores /\ e \in Objects /\ Insert(p, e)

(* The guards of Move: the service that p awaits for e, if any, answers.   *)
MayMove(p, e) ==
  \/ <<p, e>> \in fetching \cup dropping
  \/ <<p, e>> \in opening /\ MayOpen(p)
  \/ <<p, e>> \in ready /\ ~Busy(p, fetching \cup dropping \cup opening)

(* A request that works can answer or move a task on, though its tasks     *)
(* join between the stages and deletions come up on the way; no task goes  *)
(* back, each step of one brings it nearer to its end, and a request that  *)
(* has begun to work, or is over, gets no further task.                    *)
RequestsAdvance ==
  /\ [](\A t \in Tasks : \E u \in Tasks : u[1] = t[1] /\ MayMove(u[1], u[2]))
  /\ [][/\ \A t \in Tasks :
             /\ TaskLeft(t)' <= TaskLeft(t)
             /\ Move(t[1], t[2]) => TaskLeft(t)' < TaskLeft(t)
        /\ \A t \in Tasks' \ Tasks : pc[t[1]] \in {"idle", "select"}]_vars

-----------------------------------------------------------------------------
(* The inductive invariant behind these properties.                        *)

(* A task belongs to a request that works, and is at one stage at a time.  *)
TasksInv ==
  /\ \A t \in Tasks : pc[t[1]] = "work"
  /\ \A t \in fetching : t \notin opening \cup dropping \cup ready
  /\ \A t \in opening : t \notin dropping \cup ready
  /\ \A t \in dropping : t \notin ready

(* A row is written after its upload, at most once for each.               *)
InsertsAreUploaded == \A b \in Blobs : inserts[b] <= uploads[b]

(* A restore works on objects it has seen on chain, which stay there.      *)
TasksAreOnChain ==
  /\ \A r \in Restores : \A e \in found[r] : uploads[Blob(e)] > 0
  /\ \A t \in fetching \cup opening :
       t[1] \in Restores => t[2] \in Objects /\ uploads[Blob(t[2])] > 0
  /\ \A t \in ready : uploads[Blob(t[2])] > 0

(* A deletion that is about to happen has a reason, overtaken or not.      *)
DropsHaveReason ==
  \A t \in dropping : Blob(t[2]) \in expired \/ t \in denied \cup stale

(* What a restore is about to insert was missing when it compared, and it  *)
(* has no rows before.                                                     *)
TasksAreMissing ==
  /\ \A t \in Tasks : t[1] \in Restores => Blob(t[2]) \notin existing[t[1]]
  /\ \A x \in rows : x[2] \in Restores => pc[x[2]] \in {"work", "over"}

(* Everything the steps of the requests keep.                              *)
IndexInv ==
  /\ TypeOK
  /\ InsertsAreUploaded
  /\ RowsAreOnChain
  /\ TasksInv
  /\ TasksAreOnChain
  /\ DropsHaveReason
  /\ TasksAreMissing
  /\ NoLateCopies

-----------------------------------------------------------------------------
(* What comments of routes.rs say of the program.                          *)

(* "Called when Walrus returns 404": outside a restart the table loses     *)
(* rows only to a request that was answered 404.                           *)
CleanedIsExpired ==
  [][restarts' = restarts =>
       \A b \in Indexed \ Indexed' :
         b \in expired \/ \E t \in stale : Blob(t[2]) = b]_vars

(* "Reactively delete an expired blob": what a request deletes because of  *)
(* a 404 are the rows of a blob that is expired.                           *)
DeletedIsExpired ==
  [][restarts' = restarts =>
       \A b \in Indexed \ Indexed' :
         b \in expired \/ \E t \in denied : Blob(t[2]) = b]_vars

(* "Clear old vector entries and re-index": when a restore returns that    *)
(* has re-indexed anything, no entry is left that it found in the table.   *)
RestoreClears ==
  [][\A r \in Restores :
       Return(r) /\ (\E x \in rows : x[2] = r) =>
         \A x \in rows : Blob(x) \notin existing[r]]_vars
=============================================================================
