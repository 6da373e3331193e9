---------------------------- MODULE BulkRemember ----------------------------
(***************************************************************************)
(* POST /api/remember/bulk: one handler inserts a row for every item and   *)
(* takes the items through embedding, upload, index and report itself, a   *)
(* few at a time.  No job backs an item: an error, a closed connection or  *)
(* a crash ends it, and its sidecar request goes on alone.                 *)
(***************************************************************************)
EXTENDS Naturals, FiniteSets

CONSTANTS
  Items,  \* the items of one request, each with a fresh job id
  Width   \* BULK_EMBED_CONCURRENCY

ASSUME ItemsAssumption == IsFiniteSet(Items) /\ Items # {}
ASSUME WidthAssumption == Width \in Nat \ {0}

VARIABLES
  handler,  \* where the handler of the request is
  status,   \* status[i]: remember_jobs.status, "none" before the INSERT
  pc,       \* pc[i]: where the future of item i is
  req,      \* req[i]: the sidecar works on the upload of i
  obj,      \* obj[i]: the Sui Blob object that upload made
  vec       \* vec[i]: vector_entries holds the row with id i

vars == <<handler, status, pc, req, obj, vec>>

Handlers == {"idle", "inserting", "working", "answered", "failed", "dropped"}
Counters == {"none", "waiting", "prepare", "upload", "index", "complete", "over"}
Objects  == {"none", "registered", "certified", "owned"}

TypeOK ==
  /\ handler \in Handlers
  /\ status \in [Items -> {"none", "pending", "done"}]
  /\ pc \in [Items -> Counters]
  /\ req \in [Items -> BOOLEAN]
  /\ obj \in [Items -> Objects]
  /\ vec \in [Items -> BOOLEAN]

Init ==
  /\ handler = "idle"
  /\ status = [i \in Items |-> "none"]
  /\ pc = [i \in Items |-> "none"]
  /\ req = [i \in Items |-> FALSE]
  /\ obj = [i \in Items |-> "none"]
  /\ vec = [i \in Items |-> FALSE]

-----------------------------------------------------------------------------
Handle(from, to) ==
  /\ handler = from
  /\ handler' = to

(* The validations have passed.                                            *)
Begin ==
  /\ Handle("idle", "inserting")
  /\ UNCHANGED <<status, pc, req, obj, vec>>

(* The rows are inserted one after another; an error, which may follow a   *)
(* stored row, answers 500 and leaves the rows before it.                  *)
InsertRow(i) ==
  /\ handler = "inserting"
  /\ status[i] = "none"
  /\ \/ /\ UNCHANGED handler
        /\ status' = [status EXCEPT ![i] = "pending"]
     \/ /\ handler' = "failed"
        /\ status' = status \/ status' = [status EXCEPT ![i] = "pending"]
  /\ UNCHANGED <<pc, req, obj, vec>>

Begun == \A i \in Items : status[i] = "pending"

Process ==
  /\ Begun
  /\ Handle("inserting", "working")
  /\ pc' = [i \in Items |-> "waiting"]
  /\ UNCHANGED <<status, req, obj, vec>>

-----------------------------------------------------------------------------
(* buffer_unordered keeps Width futures of items going.                    *)
Going == {i \in Items : pc[i] \notin {"none", "waiting", "over"}}

At(i, from, to) ==
  /\ pc[i] = from
  /\ pc' = [pc EXCEPT ![i] = to]

StartItemOffByOne(i) ==
  /\ Cardinality(Going) <= Width
  /\ At(i, "waiting", "prepare")
  /\ UNCHANGED <<handler, status, req, obj, vec>>

StartItem(i) ==
  /\ Cardinality(Going) < Width
  /\ At(i, "waiting", "prepare")
  /\ UNCHANGED <<handler, status, req, obj, vec>>

(* Key, embedding and encryption; `?` ends the item and nobody is told.    *)
PrepareItem(i) ==
  /\ \/ /\ At(i, "prepare", "upload")
        /\ req' = [req EXCEPT ![i] = TRUE]
     \/ At(i, "prepare", "over") /\ UNCHANGED req
  /\ UNCHANGED <<handler, status, obj, vec>>

(* The 180 s limit of upload_blob, or a broken connection.                 *)
UploadTimesOut(i) ==
  /\ req[i]
  /\ At(i, "upload", "over")
  /\ UNCHANGED <<handler, status, req, obj, vec>>

(* An error may be reported for a statement that was executed.             *)
IndexItemIgnoringError(i) ==
  /\ At(i, "index", "complete")
  /\ vec' = vec \/ vec' = [vec EXCEPT ![i] = TRUE]
  /\ UNCHANGED <<handler, status, req, obj>>

IndexItem(i) ==
  /\ \/ At(i, "index", "complete") /\ vec' = [vec EXCEPT ![i] = TRUE]
     \/ /\ At(i, "index", "over")
        /\ vec' = vec \/ vec' = [vec EXCEPT ![i] = TRUE]
  /\ UNCHANGED <<handler, status, req, obj>>

(* complete_remember_job; its error ends the item like any other.          *)
CompleteItem(i) ==
  /\ At(i, "complete", "over")
  /\ status' = status \/ status' = [status EXCEPT ![i] = "done"]
  /\ UNCHANGED <<handler, req, obj, vec>>

AnswerEarly ==
  /\ Handle("working", "answered")
  /\ UNCHANGED <<status, pc, req, obj, vec>>

(* 202, once every item is over, with the ids of all of them.              *)
Answer ==
  /\ \A i \in Items : pc[i] = "over"
  /\ Handle("working", "answered")
  /\ UNCHANGED <<status, pc, req, obj, vec>>

-----------------------------------------------------------------------------
(* /walrus/upload, as in RememberJobs; an answer reaches the item only if  *)
(* its future still waits for it.                                          *)
Sidecar(i, from, to) ==
  /\ req[i]
  /\ obj[i] = from
  /\ obj' = [obj EXCEPT ![i] = to]
  /\ UNCHANGED <<handler, status, pc, req, vec>>

RegisterBlob(i) == Sidecar(i, "none", "registered")
CertifyBlob(i)  == Sidecar(i, "registered", "certified")
TransferBlob(i) == Sidecar(i, "certified", "owned")

RespondSwallowingTransferErrors(i) ==
  /\ req[i]
  /\ req' = [req EXCEPT ![i] = FALSE]
  /\ IF pc[i] # "upload" THEN UNCHANGED pc
     ELSE \/ pc' = [pc EXCEPT ![i] = "over"]
          \/ /\ obj[i] \in {"certified", "owned"}
             /\ pc' = [pc EXCEPT ![i] = "index"]
  /\ UNCHANGED <<handler, status, obj, vec>>

RespondWithoutItsItem(i) ==
  /\ req[i]
  /\ req' = [req EXCEPT ![i] = FALSE]
  /\ \/ UNCHANGED pc
     \/ /\ obj[i] = "owned" /\ pc[i] = "upload"
        /\ pc' = [pc EXCEPT ![i] = "index"]
  /\ UNCHANGED <<handler, status, obj, vec>>

Respond(i) ==
  /\ req[i]
  /\ req' = [req EXCEPT ![i] = FALSE]
  /\ IF pc[i] # "upload" THEN UNCHANGED pc
     ELSE \/ pc' = [pc EXCEPT ![i] = "over"]
          \/ /\ obj[i] = "owned"
             /\ pc' = [pc EXCEPT ![i] = "index"]
  /\ UNCHANGED <<handler, status, obj, vec>>

-----------------------------------------------------------------------------
Stopped ==
  /\ handler \in {"inserting", "working"}
  /\ handler' = "dropped"
  /\ pc' = [i \in Items |-> "over"]
  /\ UNCHANGED <<status, obj, vec>>

(* The client leaves and the server drops the future of the handler.       *)
Disconnect == Stopped /\ UNCHANGED req

(* The process and its sidecar die.                                        *)
Crash == Stopped /\ req' = [i \in Items |-> FALSE]

-----------------------------------------------------------------------------
Item(i) ==
  \/ InsertRow(i)
  \/ StartItem(i)
  \/ PrepareItem(i)
  \/ UploadTimesOut(i)
  \/ IndexItem(i)
  \/ CompleteItem(i)

Upload(i) == RegisterBlob(i) \/ CertifyBlob(i) \/ TransferBlob(i) \/ Respond(i)

Next ==
  \/ \E i \in Items : Item(i) \/ Upload(i)
  \/ Begin \/ Process \/ Answer
  \/ Disconnect \/ Crash

Spec == Init /\ [][Next]_vars

-----------------------------------------------------------------------------
(* A request of many items keeps no more embeddings, encryptions and       *)
(* uploads going than BULK_EMBED_CONCURRENCY, however its items end.       *)
WidthBound == Cardinality(Going) <= Width

(* Once the request has been answered, or has failed or been dropped, its  *)
(* rows and vectors stay as they are, though sidecar requests that outlive *)
(* it go on and may still give the owner a blob.                           *)
AnswerIsLast ==
  [][(handler \in {"answered", "failed", "dropped"}) =>
       UNCHANGED <<status, vec>>]_vars

(* Steps that an item of the request may still take: of its future, and    *)
(* the INSERT of its row.                                                  *)
FutureLeft(p) ==
  CASE p = "none" -> 6
    [] p = "waiting" -> 5
    [] p = "prepare" -> 4
    [] p = "upload" -> 3
    [] p = "index" -> 2
    [] p = "complete" -> 1
    [] p = "over" -> 0

RowLeft(s) == IF s = "none" THEN 1 ELSE 0

StepsLeft(i) == FutureLeft(pc[i]) + RowLeft(status[i])

(* The guards of Item: what the handler can do for i without its sidecar.  *)
MayStep(i) ==
  \/ handler = "inserting" /\ status[i] = "none"
  \/ pc[i] = "waiting" /\ Cardinality(Going) < Width
  \/ pc[i] = "upload" /\ req[i]
  \/ pc[i] \in {"prepare", "index", "complete"}

(* The request comes to its answer: as long as its handler works, it can   *)
(* go on (to process or to answer), or some item can; places are never all *)
(* taken by items that wait for nothing.  No step gives an item more to    *)
(* do, and each of its own leaves it less, or fails the request.           *)
ItemsAdvance ==
  /\ [](/\ handler = "inserting" => Begun \/ \E i \in Items : MayStep(i)
        /\ handler = "working" => \/ \A i \in Items : pc[i] = "over"
                                 \/ \E i \in Items : MayStep(i))
  /\ [][\A i \in Items :
         /\ StepsLeft(i)' <= StepsLeft(i)
         /\ Item(i) => StepsLeft(i)' < StepsLeft(i) \/ handler' = "failed"]_vars

MemoryOf(i) ==
  IF status[i] = "none" THEN "absent"
  ELSE IF vec[i] THEN "recallable"
  ELSE IF obj[i] = "owned" THEN "durable"
  ELSE "accepted"

ReportOf(i) == IF status[i] = "pending" THEN "working" ELSE status[i]

Promise == INSTANCE MemoryPromise WITH
  Jobs   <- Items,
  memory <- [i \in Items |-> MemoryOf(i)],
  report <- [i \in Items |-> ReportOf(i)]

(* The items of a bulk request keep the promise of MemoryPromise, like the *)
(* jobs of RememberJobs: indexed after owned, "done" after indexed.        *)
KeepsPromise == Promise!Spec

-----------------------------------------------------------------------------
(* The inductive invariant behind these properties.                        *)
ItemInv ==
  \A i \in Items :
    /\ handler \in {"idle", "inserting", "failed"} => pc[i] = "none"
    /\ handler \in {"answered", "dropped"} => pc[i] = "over"
    /\ handler = "working" => pc[i] # "none"
    /\ pc[i] \in {"waiting", "prepare"} => ~req[i] /\ obj[i] = "none"
    /\ handler = "working" => status[i] # "none"
    /\ handler \in {"idle", "inserting", "failed"} \/ status[i] = "none" =>
         ~req[i] /\ obj[i] = "none" /\ ~vec[i]
    /\ pc[i] \in {"index", "complete"} => obj[i] = "owned"
    /\ pc[i] = "upload" => req[i]
    /\ pc[i] = "complete" => vec[i]
    /\ vec[i] => obj[i] = "owned"
    /\ status[i] = "done" => vec[i] /\ pc[i] = "over"

(* Everything the steps of the handler and of the sidecar keep.            *)
BulkInv == TypeOK /\ ItemInv /\ WidthBound
=============================================================================
