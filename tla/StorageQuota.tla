---------------------------- MODULE StorageQuota ----------------------------
(***************************************************************************)
(* The storage quota of one owner (rate_limit.rs, db.rs and its callers in *)
(* routes.rs).  The bytes used are a sum over the rows of vector_entries;  *)
(* an upload is admitted against that sum and inserts its own row minutes  *)
(* later, after a queue, an upload and perhaps several executions.         *)
(***************************************************************************)
EXTENDS Naturals, FiniteSets

CONSTANTS
  Uploads,      \* blobs that the owner stores
  Jobs,         \* those of the remember pipeline: checked, queued, executed again
  Manual,       \* those of /api/remember/manual: checked, one attempt
  Size,         \* Size[u]: bytes of the encrypted blob of u
  Max,          \* max_storage_bytes; 0 means unlimited
  MaxTries      \* bound: executions of a job, redeliveries after crashes included

ASSUME UploadsAssumption ==
  /\ IsFiniteSet(Uploads)
  /\ Jobs \subseteq Uploads /\ Manual \subseteq Uploads
  /\ Jobs \cap Manual = {}

ASSUME SizeAssumption == Size \in [Uploads -> Nat \ {0}]

ASSUME QuotaBoundsAssumption == Max \in Nat /\ MaxTries \in Nat \ {0}

(* Items of bulk requests and blobs that a restore indexes ask nobody.     *)
Checked   == Jobs \cup Manual
Unchecked == Uploads \ Checked

VARIABLES
  pc,     \* pc[u]: where the request, task or job of u is
  tries,  \* tries[u]: executions of the job of u
  rows,   \* rows <<u, id>> of vector_entries: u and the id of the row
  peak    \* history: most bytes admitted and not yet settled at an admission

quotaVars == <<pc, tries, rows, peak>>

Counters == {"idle", "check", "admitted", "queued", "over"}

QuotaTypeOK ==
  /\ pc \in [Uploads -> Counters]
  /\ tries \in [Uploads -> 0 .. MaxTries]
  /\ rows \subseteq Uploads \X (0 .. MaxTries)
  /\ peak \in Nat

QuotaInit ==
  /\ pc = [u \in Uploads |-> "idle"]
  /\ tries = [u \in Uploads |-> 0]
  /\ rows = {}
  /\ peak = 0

(* The row of an upload: a job inserts on the id of its remember_jobs row, *)
(* again and again; the others take a new id, once.                        *)
EntryPerTry(u) == <<u, tries[u]>>

Entry(u) == <<u, 0>>

(* SUM(blob_size_bytes), by counting the bytes of the entries of E.        *)
BytesOf(e) == {e} \X (1 .. Size[e[1]])
Bytes(E)   == Cardinality(UNION {BytesOf(e) : e \in E})

(* Admitted uploads that may yet insert their rows.                        *)
InFlight == {Entry(u) : u \in {v \in Checked : pc[v] \in {"admitted", "queued"}}}

-----------------------------------------------------------------------------
Move(u, from, to) ==
  /\ pc[u] = from
  /\ pc' = [pc EXCEPT ![u] = to]

(* The request is read, its blob embedded and encrypted.                   *)
Ask(u) ==
  /\ Move(u, "idle", "check")
  /\ UNCHANGED <<tries, rows, peak>>

(* check_storage_quota: one read of the sum, which decides at once.        *)
FitsAlready(u) == Max = 0 \/ Bytes(rows) <= Max

Fits(u) == Max = 0 \/ Bytes(rows) + Size[u] <= Max

Highest(m, n) == IF m >= n THEN m ELSE n

Admit(u) ==
  /\ Fits(u)
  /\ Move(u, "check", "admitted")
  /\ peak' = Highest(peak, Bytes(InFlight \ rows))
  /\ UNCHANGED <<tries, rows>>

(* QuotaExceeded, or an error of the read.                                 *)
Refuse(u) ==
  /\ Move(u, "check", "over")
  /\ UNCHANGED <<tries, rows, peak>>

(* The push of the wallet job, which may fail.                             *)
Enqueue(u) ==
  /\ \/ Move(u, "admitted", "queued")
     \/ Move(u, "admitted", "over")
  /\ UNCHANGED <<tries, rows, peak>>

(* An execution of the job: it inserts the row or fails before, or fails   *)
(* after the row was stored; the job ends, or is executed again, because   *)
(* it failed or because the process stopped before Apalis noted its end.   *)
Execute(u) ==
  /\ tries[u] < MaxTries
  /\ tries' = [tries EXCEPT ![u] = @ + 1]
  /\ \/ Move(u, "queued", "queued")
     \/ Move(u, "queued", "over")
  /\ rows' \in {rows, rows \cup {Entry(u)}}
  /\ UNCHANGED peak

(* remember_manual: an upload and an INSERT, each of which may fail or be  *)
(* given up with the connection.                                           *)
InsertManual(u) ==
  /\ Move(u, "admitted", "over")
  /\ rows' \in {rows, rows \cup {Entry(u)}}
  /\ UNCHANGED <<tries, peak>>

(* insert_vector of a bulk item or of a restored blob.                     *)
InsertUnchecked(u) ==
  /\ Move(u, "idle", "over")
  /\ rows' = rows \cup {Entry(u)}
  /\ UNCHANGED <<tries, peak>>

(* delete_by_blob_id, when a recall meets an expired blob.                 *)
Cleanup(u) ==
  /\ \E r \in rows : r[1] = u
  /\ rows' = {r \in rows : r[1] # u}
  /\ UNCHANGED <<pc, tries, peak>>

(* Requests and preparation tasks end with the process; queued jobs stay.  *)
Crash ==
  /\ \E u \in Checked : pc[u] \in {"check", "admitted"}
  /\ pc' = [u \in Uploads |-> IF pc[u] \in {"check", "admitted"} THEN "over" ELSE pc[u]]
  /\ UNCHANGED <<tries, rows, peak>>

QuotaNext ==
  \/ \E u \in Checked : Ask(u) \/ Admit(u) \/ Refuse(u)
  \/ \E u \in Jobs : Enqueue(u) \/ Execute(u)
  \/ \E u \in Manual : InsertManual(u)
  \/ \E u \in Unchecked : InsertUnchecked(u)
  \/ \E u \in Uploads : Cleanup(u)
  \/ Crash

QuotaSpec == QuotaInit /\ [][QuotaNext]_quotaVars

-----------------------------------------------------------------------------
CheckedRows == {r \in rows : r[1] \in Checked}

(* The rows that were asked for exceed the quota by at most the bytes that *)
(* were admitted and not yet stored when some upload was admitted: none if *)
(* uploads follow each other, whatever is retried, lost or deleted.        *)
QuotaOvershoot == Max > 0 => Bytes(CheckedRows) <= Max + peak

(* Every row has the one id of its upload, which has asked; and the bound  *)
(* holds of what is stored and of what may yet be.                         *)
RowsInv ==
  \A r \in rows : r = Entry(r[1]) /\ pc[r[1]] \in {"queued", "over"}

ChargeInv == Max > 0 => Bytes(CheckedRows \cup InFlight) <= Max + peak

QuotaInv == QuotaTypeOK /\ RowsInv /\ ChargeInv
=============================================================================
