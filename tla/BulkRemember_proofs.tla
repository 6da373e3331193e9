------------------------ MODULE BulkRemember_proofs ------------------------
(* Proofs about BulkRemember for every set of items and every width.       *)
EXTENDS BulkRemember, FiniteSetTheorems, TLAPS

(* The items that keep the handler busy can only be counted because there  *)
(* are finitely many.                                                      *)
LEMMA GoingIsFinite ==
  /\ IsFiniteSet(Going)
  /\ Cardinality(Going) \in Nat
<1>1. Going \subseteq Items
  BY DEF Going
<1>2. IsFiniteSet(Going)
  BY <1>1, ItemsAssumption, FS_Subset
<1>3. QED
  BY <1>2, FS_CardinalityType

(* The bound can only be lost by a step that starts an item.               *)
LEMMA WidthKept ==
  ASSUME WidthBound, Going' \subseteq Going
  PROVE  WidthBound'
<1>1. Cardinality(Going') <= Cardinality(Going)
  BY GoingIsFinite, FS_Subset
<1>2. Cardinality(Going') \in Nat
  BY GoingIsFinite, FS_Subset, FS_CardinalityType
<1>3. Cardinality(Going)' = Cardinality(Going')
  OBVIOUS
<1>4. QED
  BY <1>1, <1>2, GoingIsFinite, WidthAssumption DEF WidthBound

LEMMA InitBulk == Init => BulkInv
<1>. SUFFICES ASSUME Init PROVE BulkInv
  OBVIOUS
<1>1. TypeOK /\ ItemInv
  BY DEF Init, TypeOK, ItemInv, Handlers, Counters, Objects
<1>2. Going = {}
  BY DEF Init, Going
<1>3. WidthBound
  BY <1>2, FS_EmptySet, WidthAssumption DEF WidthBound
<1>4. QED
  BY <1>1, <1>3 DEF BulkInv

(* A step that starts no item frees places or leaves them alone.           *)
LEMMA GoingShrinks ==
  ASSUME BulkInv, [Next]_vars, \A i \in Items : ~StartItem(i)
  PROVE  Going' \subseteq Going
<1>. USE DEF BulkInv, TypeOK, Counters, At, Going
<1>1. ASSUME NEW i \in Items, Item(i) PROVE Going' \subseteq Going
  BY <1>1 DEF Item, InsertRow, PrepareItem, UploadTimesOut, IndexItem, CompleteItem
<1>2. ASSUME NEW i \in Items, Upload(i) PROVE Going' \subseteq Going
  BY <1>2 DEF Upload, RegisterBlob, CertifyBlob, TransferBlob, Sidecar, Respond
<1>3. CASE Begin \/ Process \/ Answer \/ Disconnect \/ Crash \/ UNCHANGED vars
  BY <1>3 DEF Begin, Process, Answer, Disconnect, Crash, Stopped, Handle, vars
<1>4. QED
  BY <1>1, <1>2, <1>3 DEF Next

LEMMA WidthStep == BulkInv /\ [Next]_vars => WidthBound'
<1>. SUFFICES ASSUME BulkInv, [Next]_vars PROVE WidthBound'
  OBVIOUS
<1>1. ASSUME NEW i \in Items, StartItem(i) PROVE WidthBound'
  <2>1. Going' = Going \cup {i}
    BY <1>1 DEF StartItem, At, Going, BulkInv, TypeOK
  <2>2. i \notin Going
    BY <1>1 DEF StartItem, At, Going
  <2>3. Cardinality(Going') = Cardinality(Going) + 1
    BY <2>1, <2>2, GoingIsFinite, FS_AddElement
  <2>4. Cardinality(Going) < Width
    BY <1>1 DEF StartItem
  <2>5. Cardinality(Going') <= Width
    BY <2>3, <2>4, GoingIsFinite, WidthAssumption
  <2>6. QED
    BY <2>5 DEF WidthBound
<1>2. CASE \A i \in Items : ~StartItem(i)
  BY <1>2, GoingShrinks, WidthKept DEF BulkInv
<1>3. QED
  BY <1>1, <1>2

-----------------------------------------------------------------------------
LEMMA StepBulk == BulkInv /\ [Next]_vars => BulkInv'
<1>. SUFFICES ASSUME BulkInv, [Next]_vars PROVE TypeOK' /\ ItemInv'
  BY WidthStep DEF BulkInv
<1>. USE DEF BulkInv, TypeOK, ItemInv, Handlers, Counters, Objects
<1>1. ASSUME NEW i \in Items, InsertRow(i) PROVE TypeOK' /\ ItemInv'
  BY <1>1 DEF InsertRow
<1>2. ASSUME NEW i \in Items, StartItem(i) PROVE TypeOK' /\ ItemInv'
  BY <1>2 DEF StartItem, At
<1>3. ASSUME NEW i \in Items, PrepareItem(i) PROVE TypeOK' /\ ItemInv'
  <2>1. /\ pc[i] = "prepare" /\ handler = "working"
        /\ UNCHANGED <<handler, status, obj, vec>>
    BY <1>3 DEF PrepareItem, At
  <2>2. CASE At(i, "prepare", "upload") /\ req' = [req EXCEPT ![i] = TRUE]
    <3>1. TypeOK'
      BY <2>1, <2>2 DEF At
    <3>2. \A k \in Items : k # i => pc'[k] = pc[k] /\ req'[k] = req[k]
      BY <2>2 DEF At
    <3>3. pc'[i] = "upload" /\ req'[i] /\ status[i] # "none" /\ status[i] # "done"
      BY <2>1, <2>2 DEF At
    <3>4. QED
      BY <2>1, <3>1, <3>2, <3>3
  <2>3. CASE At(i, "prepare", "over") /\ UNCHANGED req
    BY <2>1, <2>3 DEF At
  <2>4. QED
    BY <1>3, <2>2, <2>3 DEF PrepareItem
<1>4. ASSUME NEW i \in Items, UploadTimesOut(i) PROVE TypeOK' /\ ItemInv'
  BY <1>4 DEF UploadTimesOut, At
<1>5. ASSUME NEW i \in Items, IndexItem(i) PROVE TypeOK' /\ ItemInv'
  <2>1. /\ pc[i] = "index" /\ handler = "working" /\ obj[i] = "owned"
        /\ UNCHANGED <<handler, status, req, obj>>
    BY <1>5 DEF IndexItem, At
  <2>2. CASE At(i, "index", "complete") /\ vec' = [vec EXCEPT ![i] = TRUE]
    BY <2>1, <2>2 DEF At
  <2>3. CASE At(i, "index", "over") /\ UNCHANGED vec
    BY <2>1, <2>3 DEF At
  <2>4. CASE At(i, "index", "over") /\ vec' = [vec EXCEPT ![i] = TRUE]
    BY <2>1, <2>4 DEF At
  <2>5. QED
    BY <1>5, <2>2, <2>3, <2>4 DEF IndexItem
<1>6. ASSUME NEW i \in Items, CompleteItem(i) PROVE TypeOK' /\ ItemInv'
  BY <1>6 DEF CompleteItem, At
<1>7. ASSUME NEW i \in Items, RegisterBlob(i) \/ CertifyBlob(i) \/ TransferBlob(i)
      PROVE  TypeOK' /\ ItemInv'
  BY <1>7 DEF RegisterBlob, CertifyBlob, TransferBlob, Sidecar
<1>8. ASSUME NEW i \in Items, Respond(i) PROVE TypeOK' /\ ItemInv'
  BY <1>8 DEF Respond
<1>9. CASE Begin
  BY <1>9 DEF Begin, Handle
<1>10. CASE Process
  BY <1>10 DEF Process, Begun, Handle
<1>11. CASE Answer
  BY <1>11 DEF Answer, Handle
<1>12. CASE Disconnect
  BY <1>12 DEF Disconnect, Stopped
<1>13. CASE Crash
  BY <1>13 DEF Crash, Stopped
<1>14. CASE UNCHANGED vars
  BY <1>14 DEF vars
<1>15. QED
  BY <1>1, <1>2, <1>3, <1>4, <1>5, <1>6, <1>7, <1>8, <1>9, <1>10, <1>11,
     <1>12, <1>13, <1>14 DEF Next, Item, Upload

(* The inductive invariant of a bulk request, for any number of items.     *)
THEOREM Invariance == Spec => []BulkInv
BY InitBulk, StepBulk, PTL DEF Spec

(* Never more than Width items are under way, however the others end.      *)
THEOREM WidthSafety == Spec => []WidthBound
<1>1. BulkInv => WidthBound
  BY DEF BulkInv
<1>2. QED
  BY <1>1, Invariance, PTL

(* After the handler has ended no step, of an item or of a late sidecar    *)
(* request, changes a row or a vector.                                     *)
THEOREM AnswerFinality == Spec => AnswerIsLast
<1>1. BulkInv /\ [Next]_vars =>
        [(handler \in {"answered", "failed", "dropped"}) =>
           UNCHANGED <<status, vec>>]_vars
  <2>. SUFFICES ASSUME BulkInv, [Next]_vars,
                       handler \in {"answered", "failed", "dropped"}
                PROVE  UNCHANGED <<status, vec>>
    OBVIOUS
  <2>1. \A i \in Items : pc[i] \in {"none", "over"}
    BY DEF BulkInv, ItemInv
  <2>2. \A i \in Items : ~Item(i)
    BY <2>1 DEF Item, InsertRow, StartItem, PrepareItem, UploadTimesOut,
                IndexItem, CompleteItem, At
  <2>3. ASSUME NEW i \in Items, Upload(i) PROVE UNCHANGED <<status, vec>>
    BY <2>3 DEF Upload, RegisterBlob, CertifyBlob, TransferBlob, Sidecar, Respond
  <2>4. QED
    BY <2>2, <2>3 DEF Next, Begin, Process, Answer, Disconnect, Crash, Stopped,
                      Handle, vars
<1>2. QED
  BY <1>1, Invariance, PTL DEF Spec, AnswerIsLast

-----------------------------------------------------------------------------
(* Progress: what StepsLeft counts down, and that something always may.    *)

LEMMA LeftIsNat ==
  /\ \A p \in Counters : FutureLeft(p) \in 0 .. 6
  /\ \A s \in {"none", "pending", "done"} : RowLeft(s) \in 0 .. 1
  /\ FutureLeft("over") = 0
BY DEF Counters, FutureLeft, RowLeft

(* A step on an item that raises neither summand.                          *)
LEMMA StepsFall ==
  ASSUME TypeOK, TypeOK', NEW i \in Items,
         FutureLeft(pc'[i]) <= FutureLeft(pc[i]),
         RowLeft(status'[i]) <= RowLeft(status[i])
  PROVE  /\ StepsLeft(i)' <= StepsLeft(i)
         /\ FutureLeft(pc'[i]) < FutureLeft(pc[i]) \/ RowLeft(status'[i]) < RowLeft(status[i])
              => StepsLeft(i)' < StepsLeft(i)
<1>1. /\ FutureLeft(pc[i]) \in 0 .. 6 /\ RowLeft(status[i]) \in 0 .. 1
      /\ FutureLeft(pc'[i]) \in 0 .. 6 /\ RowLeft(status'[i]) \in 0 .. 1
  BY LeftIsNat DEF TypeOK
<1>2. /\ StepsLeft(i) = FutureLeft(pc[i]) + RowLeft(status[i])
      /\ StepsLeft(i)' = FutureLeft(pc'[i]) + RowLeft(status'[i])
  BY DEF StepsLeft
<1>3. QED
  BY <1>1, <1>2

(* A step that leaves the future and the row of an item alone.             *)
LEMMA StepsStay ==
  ASSUME TypeOK, TypeOK', NEW i \in Items, pc'[i] = pc[i], status'[i] = status[i]
  PROVE  StepsLeft(i)' <= StepsLeft(i)
<1>1. FutureLeft(pc[i]) \in 0 .. 6 /\ RowLeft(status[i]) \in 0 .. 1
  BY LeftIsNat DEF TypeOK
<1>2. QED
  BY <1>1, StepsFall

(* The steps of an item.                                                   *)
LEMMA ItemLowers ==
  ASSUME BulkInv, TypeOK', NEW i \in Items, Item(i)
  PROVE  /\ StepsLeft(i)' <= StepsLeft(i)
         /\ StepsLeft(i)' < StepsLeft(i) \/ handler' = "failed"
         /\ \A k \in Items : k # i => pc'[k] = pc[k] /\ status'[k] = status[k]
<1>t. TypeOK
  BY DEF BulkInv
<1>1. \A k \in Items : k # i => pc'[k] = pc[k] /\ status'[k] = status[k]
  BY <1>t DEF Item, InsertRow, StartItem, PrepareItem, UploadTimesOut, IndexItem,
              CompleteItem, At, TypeOK
<1>2. CASE InsertRow(i)
  <2>1. /\ pc' = pc /\ status[i] = "none"
        /\ status'[i] = "pending" \/ (handler' = "failed" /\ status' = status)
    BY <1>t, <1>2 DEF InsertRow, TypeOK
  <2>2. FutureLeft(pc[i]) \in 0 .. 6 /\ RowLeft("none") = 1 /\ RowLeft("pending") = 0
    BY <1>t, LeftIsNat DEF TypeOK, RowLeft
  <2>3. CASE status'[i] = "pending"
    BY <1>t, <1>1, <2>1, <2>2, <2>3, StepsFall
  <2>4. CASE handler' = "failed" /\ status' = status
    BY <1>t, <1>1, <2>1, <2>4, StepsStay
  <2>5. QED
    BY <2>1, <2>3, <2>4
<1>3. CASE ~InsertRow(i)
  <2>1. FutureLeft(pc'[i]) < FutureLeft(pc[i])
    BY <1>t, <1>3 DEF Item, StartItem, PrepareItem, UploadTimesOut, IndexItem,
                      CompleteItem, At, TypeOK, FutureLeft
  <2>2. status'[i] = status[i] \/ status'[i] = "done"
    BY <1>t, <1>3 DEF Item, StartItem, PrepareItem, UploadTimesOut, IndexItem,
                      CompleteItem, TypeOK
  <2>3. RowLeft(status[i]) \in 0 .. 1 /\ RowLeft("done") = 0
    BY <1>t, LeftIsNat DEF TypeOK, RowLeft
  <2>4. RowLeft(status'[i]) <= RowLeft(status[i])
    BY <2>2, <2>3
  <2>5. FutureLeft(pc'[i]) \in 0 .. 6 /\ FutureLeft(pc[i]) \in 0 .. 6
    BY <1>t, LeftIsNat DEF TypeOK
  <2>6. QED
    BY <1>t, <1>1, <2>1, <2>4, <2>5, StepsFall
<1>4. QED
  BY <1>2, <1>3

(* The steps of anyone else: an answer ends a wait, a stop ends everything. *)
LEMMA OthersLower ==
  ASSUME BulkInv, [Next]_vars, TypeOK', \A k \in Items : ~Item(k), NEW i \in Items
  PROVE  StepsLeft(i)' <= StepsLeft(i)
<1>t. TypeOK /\ ItemInv
  BY DEF BulkInv
<1>n. /\ FutureLeft(pc[i]) \in 0 .. 6 /\ RowLeft(status[i]) \in 0 .. 1
      /\ FutureLeft(pc'[i]) \in 0 .. 6
  BY <1>t, LeftIsNat DEF TypeOK
<1>1. status' = status
  BY DEF Next, Upload, RegisterBlob, CertifyBlob, TransferBlob, Sidecar, Respond,
         Begin, Process, Answer, Disconnect, Crash, Stopped, vars
<1>2. \/ pc'[i] \in {pc[i], "over"}
      \/ pc[i] = "upload" /\ pc'[i] = "index"
      \/ pc[i] = "none" /\ pc'[i] = "waiting"
  <2>1. ASSUME NEW k \in Items, Upload(k)
        PROVE  pc'[i] \in {pc[i], "over"} \/ (pc[i] = "upload" /\ pc'[i] = "index")
    BY <1>t, <2>1 DEF Upload, RegisterBlob, CertifyBlob, TransferBlob, Sidecar, Respond,
                      TypeOK
  <2>2. CASE Process
    BY <1>t, <2>2 DEF Process, Handle, ItemInv
  <2>3. CASE Begin \/ Answer \/ Disconnect \/ Crash \/ UNCHANGED vars
    BY <2>3 DEF Begin, Answer, Disconnect, Crash, Stopped, vars
  <2>4. QED
    BY <2>1, <2>2, <2>3 DEF Next
<1>3. FutureLeft(pc'[i]) <= FutureLeft(pc[i])
  <2>1. CASE pc'[i] = pc[i]
    BY <1>n, <2>1
  <2>2. CASE pc'[i] = "over"
    BY <1>n, <2>2, LeftIsNat
  <2>3. CASE pc[i] = "upload" /\ pc'[i] = "index"
    BY <2>3 DEF FutureLeft
  <2>4. CASE pc[i] = "none" /\ pc'[i] = "waiting"
    BY <2>4 DEF FutureLeft
  <2>5. QED
    BY <1>2, <2>1, <2>2, <2>3, <2>4
<1>4. QED
  BY <1>t, <1>1, <1>3, <1>n, StepsFall

(* The guards: a working handler always finds one of them open.            *)
LEMMA SomeGuardHolds ==
  ASSUME BulkInv
  PROVE  /\ handler = "inserting" => Begun \/ \E i \in Items : MayStep(i)
         /\ handler = "working" => \/ \A i \in Items : pc[i] = "over"
                                   \/ \E i \in Items : MayStep(i)
<1>t. TypeOK /\ ItemInv
  BY DEF BulkInv
<1>1. ASSUME handler = "inserting", ~Begun PROVE \E i \in Items : MayStep(i)
  <2>1. PICK i \in Items : status[i] # "pending"
    BY <1>1 DEF Begun
  <2>2. status[i] = "none"
    BY <1>t, <1>1, <2>1 DEF TypeOK, ItemInv
  <2>3. QED
    BY <1>1, <2>2 DEF MayStep
<1>2. ASSUME handler = "working", NEW i \in Items, pc[i] # "over"
      PROVE  \E k \in Items : MayStep(k)
  <2>1. CASE Going = {}
    <3>1. Cardinality(Going) < Width
      BY <2>1, FS_EmptySet, WidthAssumption
    <3>2. pc[i] = "waiting"
      BY <1>t, <1>2, <2>1 DEF ItemInv, Going
    <3>3. QED
      BY <3>1, <3>2 DEF MayStep
  <2>2. CASE Going # {}
    <3>1. PICK k \in Items : pc[k] \notin {"none", "waiting", "over"}
      BY <2>2 DEF Going
    <3>2. pc[k] \in {"prepare", "index", "complete"} \/ (pc[k] = "upload" /\ req[k])
      BY <1>t, <3>1 DEF TypeOK, Counters, ItemInv
    <3>3. QED
      BY <3>2 DEF MayStep
  <2>3. QED
    BY <2>1, <2>2
<1>3. QED
  BY <1>1, <1>2

(* A bulk request advances to its answer: neither its width nor a silent   *)
(* sidecar can stop it, and no item goes round in circles.                 *)
THEOREM BulkProgress == Spec => ItemsAdvance
<1>. DEFINE Open == /\ handler = "inserting" => Begun \/ \E i \in Items : MayStep(i)
                    /\ handler = "working" => \/ \A i \in Items : pc[i] = "over"
                                              \/ \E i \in Items : MayStep(i)
            Lowers == \A i \in Items :
                        /\ StepsLeft(i)' <= StepsLeft(i)
                        /\ Item(i) => StepsLeft(i)' < StepsLeft(i) \/ handler' = "failed"
<1>1. BulkInv => Open
  BY SomeGuardHolds
<1>2. BulkInv /\ BulkInv' /\ [Next]_vars => [Lowers]_vars
  <2>. SUFFICES ASSUME BulkInv, BulkInv', [Next]_vars PROVE Lowers
    OBVIOUS
  <2>t. TypeOK /\ TypeOK'
    BY DEF BulkInv
  <2>1. ASSUME NEW i \in Items, Item(i) PROVE StepsLeft(i)' < StepsLeft(i) \/ handler' = "failed"
    BY <2>t, <2>1, ItemLowers
  <2>2. ASSUME NEW i \in Items, NEW k \in Items, Item(k) PROVE StepsLeft(i)' <= StepsLeft(i)
    <3>1. CASE i = k
      BY <2>t, <2>2, <3>1, ItemLowers
    <3>2. CASE i # k
      <4>1. pc'[i] = pc[i] /\ status'[i] = status[i]
        BY <2>t, <2>2, <3>2, ItemLowers
      <4>2. QED
        BY <2>t, <4>1, StepsStay
    <3>3. QED
      BY <3>1, <3>2
  <2>3. CASE \A k \in Items : ~Item(k)
    BY <2>t, <2>3, OthersLower
  <2>4. QED
    BY <2>1, <2>2, <2>3
<1>3. QED
  BY <1>1, <1>2, Invariance, PTL DEF Spec, ItemsAdvance

-----------------------------------------------------------------------------
LEMMA PromiseStutters ==
  ASSUME UNCHANGED <<status, vec>>,
         \A i \in Items : (obj'[i] = "owned") = (obj[i] = "owned")
  PROVE  UNCHANGED Promise!vars
<1>1. \A i \in Items : MemoryOf(i)' = MemoryOf(i) /\ ReportOf(i)' = ReportOf(i)
  BY DEF MemoryOf, ReportOf
<1>2. QED
  BY <1>1 DEF Promise!vars

(* Every step of a bulk request is a step of the promise, or a stutter.    *)
LEMMA PromiseStep == BulkInv /\ [Next]_vars => [Promise!Next]_(Promise!vars)
<1>. SUFFICES ASSUME BulkInv, [Next]_vars PROVE [Promise!Next]_(Promise!vars)
  OBVIOUS
<1>1. ASSUME NEW i \in Items, InsertRow(i) PROVE [Promise!Next]_(Promise!vars)
  <2>1. CASE UNCHANGED status
    BY <1>1, <2>1, PromiseStutters DEF InsertRow
  <2>2. CASE status' = [status EXCEPT ![i] = "pending"]
    <3>1. status[i] = "none" /\ ~vec[i] /\ obj[i] = "none" /\ UNCHANGED <<obj, vec>>
      BY <1>1 DEF InsertRow, BulkInv, ItemInv
    <3>2. \A k \in Items : status'[k] = IF k = i THEN "pending" ELSE status[k]
      BY <2>2 DEF BulkInv, TypeOK
    <3>3. /\ MemoryOf(i) = "absent" /\ MemoryOf(i)' = "accepted"
          /\ ReportOf(i)' = "working"
      BY <3>1, <3>2 DEF MemoryOf, ReportOf
    <3>4. \A k \in Items : k # i => /\ MemoryOf(k)' = MemoryOf(k)
                                    /\ ReportOf(k)' = ReportOf(k)
      BY <3>1, <3>2 DEF MemoryOf, ReportOf
    <3>5. Promise!Accept(i)
      BY <3>3, <3>4 DEF Promise!Accept, Promise!Advance
    <3>6. QED
      BY <3>5 DEF Promise!Next
  <2>3. QED
    BY <1>1, <2>1, <2>2 DEF InsertRow
<1>2. ASSUME NEW i \in Items, CompleteItem(i) PROVE [Promise!Next]_(Promise!vars)
  <2>1. CASE UNCHANGED status
    BY <1>2, <2>1, PromiseStutters DEF CompleteItem
  <2>2. CASE status' = [status EXCEPT ![i] = "done"]
    <3>1. vec[i] /\ status[i] # "none" /\ UNCHANGED <<obj, vec>>
      BY <1>2 DEF CompleteItem, At, BulkInv, ItemInv
    <3>2. \A k \in Items : status'[k] = IF k = i THEN "done" ELSE status[k]
      BY <2>2 DEF BulkInv, TypeOK
    <3>3. \A k \in Items : MemoryOf(k)' = MemoryOf(k)
      BY <3>1, <3>2 DEF MemoryOf
    <3>4. /\ MemoryOf(i) = "recallable"
          /\ ReportOf(i)' = "done"
          /\ \A k \in Items : k # i => ReportOf(k)' = ReportOf(k)
      BY <3>1, <3>2 DEF MemoryOf, ReportOf
    <3>5. Promise!Report(i, "done")
      BY <3>3, <3>4 DEF Promise!Report
    <3>6. QED
      BY <3>5 DEF Promise!Next, Promise!Reports
  <2>3. QED
    BY <1>2, <2>1, <2>2 DEF CompleteItem
<1>3. ASSUME NEW i \in Items, IndexItem(i) PROVE [Promise!Next]_(Promise!vars)
  <2>1. CASE UNCHANGED vec
    BY <1>3, <2>1, PromiseStutters DEF IndexItem
  <2>2. CASE vec' = [vec EXCEPT ![i] = TRUE] /\ ~vec[i]
    <3>1. obj[i] = "owned" /\ status[i] # "none" /\ UNCHANGED <<obj, status>>
      BY <1>3 DEF IndexItem, At, BulkInv, ItemInv
    <3>2. \A k \in Items : vec'[k] = IF k = i THEN TRUE ELSE vec[k]
      BY <2>2 DEF BulkInv, TypeOK
    <3>3. MemoryOf(i) = "durable" /\ MemoryOf(i)' = "recallable"
      BY <2>2, <3>1, <3>2 DEF MemoryOf
    <3>4. \A k \in Items : k # i => MemoryOf(k)' = MemoryOf(k)
      BY <3>1, <3>2 DEF MemoryOf
    <3>5. \A k \in Items : ReportOf(k)' = ReportOf(k)
      BY <3>1 DEF ReportOf
    <3>6. Promise!Index(i)
      BY <3>3, <3>4, <3>5 DEF Promise!Index, Promise!Advance
    <3>7. QED
      BY <3>6 DEF Promise!Next
  <2>3. QED
    BY <1>3, <2>1, <2>2 DEF IndexItem, BulkInv, TypeOK
<1>4. ASSUME NEW i \in Items, TransferBlob(i) PROVE [Promise!Next]_(Promise!vars)
  <2>1. /\ obj[i] = "certified"
        /\ \A k \in Items : obj'[k] = IF k = i THEN "owned" ELSE obj[k]
        /\ UNCHANGED <<status, vec>>
    BY <1>4 DEF TransferBlob, Sidecar, BulkInv, TypeOK
  <2>2. status[i] # "none" /\ ~vec[i]
    BY <2>1 DEF BulkInv, ItemInv
  <2>3. MemoryOf(i) = "accepted" /\ MemoryOf(i)' = "durable"
    BY <2>1, <2>2 DEF MemoryOf
  <2>4. \A k \in Items : k # i => MemoryOf(k)' = MemoryOf(k)
    BY <2>1 DEF MemoryOf
  <2>5. \A k \in Items : ReportOf(k)' = ReportOf(k)
    BY <2>1 DEF ReportOf
  <2>6. Promise!MakeDurable(i)
    BY <2>3, <2>4, <2>5 DEF Promise!MakeDurable, Promise!Advance
  <2>7. QED
    BY <2>6 DEF Promise!Next
<1>5. ASSUME NEW i \in Items, RegisterBlob(i) \/ CertifyBlob(i)
      PROVE  [Promise!Next]_(Promise!vars)
  <2>1. \A k \in Items : (obj'[k] = "owned") = (obj[k] = "owned")
    BY <1>5 DEF RegisterBlob, CertifyBlob, Sidecar, BulkInv, TypeOK
  <2>2. QED
    BY <1>5, <2>1, PromiseStutters DEF RegisterBlob, CertifyBlob, Sidecar
<1>6. CASE UNCHANGED <<status, obj, vec>>
  BY <1>6, PromiseStutters
<1>7. QED
  BY <1>1, <1>2, <1>3, <1>4, <1>5, <1>6
     DEF Next, Item, Upload, StartItem, PrepareItem, UploadTimesOut, Respond,
         Begin, Process, Answer, Disconnect, Crash, Stopped, vars

(* A bulk request implements MemoryPromise, as the pipeline does.          *)
THEOREM BulkRefinement == Spec => KeepsPromise
<1>1. Init => Promise!Init
  BY DEF Init, Promise!Init, MemoryOf, ReportOf
<1>2. QED
  BY <1>1, PromiseStep, Invariance, PTL DEF Spec, KeepsPromise, Promise!Spec
=============================================================================
