---------------------------- MODULE Limits_proofs ----------------------------
(* Proofs about the two limits: RateLimit, for every number of requests,   *)
(* keys and failures, every limit and every span; then StorageQuota, for   *)
(* every number of uploads and executions, every size and every quota.     *)
EXTENDS RateLimit, StorageQuota, FiniteSetTheorems, TLAPS

LEMMA TimesMonotone ==
  ASSUME NEW a \in Nat, NEW b \in Nat, NEW m \in Nat, a <= b
  PROVE  a * m <= b * m
<1>1. PICK d \in Nat : b = a + d
  <2>1. b - a \in Nat /\ b = a + (b - a)
    OBVIOUS
  <2>2. QED
    BY <2>1
<1>2. (a + d) * m = a * m + d * m
  OBVIOUS
<1>3. d * m \in Nat /\ a * m \in Nat
  OBVIOUS
<1>4. QED
  BY <1>1, <1>2, <1>3

LEMMA PlusOneTimes ==
  ASSUME NEW a \in Nat, NEW m \in Nat
  PROVE  (a + 1) * m = a * m + m
OBVIOUS

LEMMA Constants ==
  /\ \A w \in Windows : Limit(w) \in Nat \ {0} /\ Span(w) \in Nat
  /\ \A w \in Windows : Lifetime(w) \in Nat /\ Span(w) <= Lifetime(w)
  /\ \A w \in Windows : Minute <= Span(w)
  /\ Cardinality(Requests) \in Nat
BY LimitsAssumption, SpansAssumption, RequestsAssumption, FS_CardinalityType
   DEF Limit, Span, Lifetime

(* The three layers of a call are three windows.                           *)
LEMMA Layers ==
  ASSUME NEW c \in Calls
  PROVE  /\ \A n \in 1..3 : Window(c, n) \in Windows
         /\ \A n, m \in 1..3 : Window(c, n) = Window(c, m) => n = m
BY KeysAssumption DEF Calls, Window, Windows

(* A call that checks goes on to the next check, or begins to record.      *)
LEMMA AfterCheck ==
  ASSUME NEW c \in Calls, c.phase = "check"
  PROVE  /\ Onward(c) \in Calls
         /\ Onward(c).now = c.now /\ Onward(c).key = c.key
         /\ c.layer < 3 => Onward(c).phase = "check" /\ Onward(c).layer = c.layer + 1
         /\ c.layer = 3 => Onward(c).phase = "record" /\ Onward(c).layer = 1
         /\ \A n \in 1..3 : Window(Onward(c), n) = Window(c, n)
<1>1. c.layer \in 1..3
  BY DEF Calls
<1>2. CASE c.layer < 3
  <2>1. Onward(c) = [c EXCEPT !.layer = c.layer + 1]
    BY <1>2 DEF Onward
  <2>2. c.layer + 1 \in 1..3
    BY <1>1, <1>2
  <2>3. Onward(c) \in Calls /\ Onward(c).layer = c.layer + 1
    BY <2>1, <2>2 DEF Calls
  <2>4. Onward(c).now = c.now /\ Onward(c).key = c.key /\ Onward(c).phase = "check"
    BY <2>1 DEF Calls
  <2>5. QED
    BY <1>2, <2>3, <2>4 DEF Window
<1>3. CASE c.layer = 3
  <2>1. Onward(c) = Call("record", 1, c.now, c.key, c.weight)
    BY <1>3 DEF Onward
  <2>2. Onward(c) \in Calls
    BY <2>1 DEF Calls, Call
  <2>3. /\ Onward(c).now = c.now /\ Onward(c).key = c.key
        /\ Onward(c).phase = "record" /\ Onward(c).layer = 1
    BY <2>1 DEF Call
  <2>4. QED
    BY <1>3, <2>2, <2>3 DEF Window
<1>4. QED
  BY <1>1, <1>2, <1>3

(* A call that records goes on to the next layer, or is over.              *)
LEMMA AfterRecord ==
  ASSUME NEW c \in Calls, c.phase = "record"
  PROVE  /\ c.layer < 3 =>
              /\ Onward(c) \in Calls
              /\ Onward(c).now = c.now /\ Onward(c).key = c.key
              /\ Onward(c).weight = c.weight
              /\ Onward(c).phase = "record" /\ Onward(c).layer = c.layer + 1
              /\ \A n \in 1..3 : Window(Onward(c), n) = Window(c, n)
         /\ c.layer = 3 => Onward(c) = Idle
<1>1. c.layer = 3 => Onward(c) = Idle
  BY DEF Onward
<1>2. CASE c.layer < 3
  <2>1. Onward(c) = [c EXCEPT !.layer = c.layer + 1]
    BY <1>2 DEF Onward
  <2>2. c.layer + 1 \in 1..3
    BY <1>2 DEF Calls
  <2>3. Onward(c) \in Calls /\ Onward(c).layer = c.layer + 1
    BY <2>1, <2>2 DEF Calls
  <2>4. /\ Onward(c).now = c.now /\ Onward(c).key = c.key
        /\ Onward(c).weight = c.weight /\ Onward(c).phase = "record"
    BY <2>1 DEF Calls
  <2>5. QED
    BY <1>2, <2>3, <2>4 DEF Window
<1>3. c.layer \in 1..3
  BY DEF Calls
<1>4. QED
  BY <1>1, <1>2, <1>3

LEMMA IdleIsNoCall == Idle \notin Calls /\ Idle.phase = "idle"
<1>1. Idle.phase = "idle"
  BY DEF Idle
<1>2. \A c \in Calls : c.phase \in {"check", "record"}
  BY DEF Calls
<1>3. QED
  BY <1>1, <1>2

(* Passing a check makes the call owe this window, and no other.           *)
LEMMA OwesAfterCheck ==
  ASSUME NEW c \in Calls, c.phase = "check", NEW w \in Windows
  PROVE  /\ Owes(Onward(c), w) <=> (Owes(c, w) \/ w = Window(c, c.layer))
         /\ ~Owes(c, Window(c, c.layer))
<1>1. c.layer \in 1..3
  BY DEF Calls
<1>2. ~Owes(c, Window(c, c.layer))
  BY <1>1, Layers DEF Owes
<1>3. Owes(c, w) <=> \E n \in 1..3 : Window(c, n) = w /\ n < c.layer
  BY IdleIsNoCall DEF Owes
<1>4. CASE c.layer < 3
  <2>1. Owes(Onward(c), w) <=> \E n \in 1..3 : Window(c, n) = w /\ n < c.layer + 1
    BY <1>4, AfterCheck, IdleIsNoCall DEF Owes
  <2>2. QED
    BY <1>1, <1>2, <1>3, <1>4, <2>1
<1>5. CASE c.layer = 3
  <2>1. Owes(Onward(c), w) <=> \E n \in 1..3 : Window(c, n) = w
    BY <1>5, AfterCheck, IdleIsNoCall DEF Owes
  <2>2. QED
    BY <1>1, <1>2, <1>3, <1>5, <2>1
<1>6. QED
  BY <1>1, <1>4, <1>5

(* Recording settles what the call owes this window, and no other.         *)
LEMMA OwesAfterRecord ==
  ASSUME NEW c \in Calls, c.phase = "record", NEW w \in Windows
  PROVE  /\ Owes(Onward(c), w) <=> (Owes(c, w) /\ w # Window(c, c.layer))
         /\ Owes(c, Window(c, c.layer))
<1>1. c.layer \in 1..3
  BY DEF Calls
<1>2. Owes(c, Window(c, c.layer))
  BY <1>1, IdleIsNoCall DEF Owes
<1>3. Owes(c, w) <=> \E n \in 1..3 : Window(c, n) = w /\ c.layer <= n
  BY IdleIsNoCall DEF Owes
<1>4. CASE c.layer < 3
  <2>1. Owes(Onward(c), w) <=> \E n \in 1..3 : Window(c, n) = w /\ c.layer + 1 <= n
    BY <1>4, AfterRecord, IdleIsNoCall DEF Owes
  <2>2. QED
    BY <1>1, <1>2, <1>3, <1>4, <2>1, Layers
<1>5. CASE c.layer = 3
  <2>1. ~Owes(Onward(c), w)
    BY <1>5, AfterRecord DEF Owes
  <2>2. QED
    BY <1>1, <1>2, <1>3, <1>5, <2>1, Layers
<1>6. QED
  BY <1>1, <1>4, <1>5

-----------------------------------------------------------------------------
LEMMA CallUnderWay ==
  ASSUME TypeOK, NEW r \in Requests
  PROVE  /\ mw[r].phase \in {"check", "record"} => mw[r] \in Calls
         /\ mw[r] # Idle => mw[r] \in Calls
BY IdleIsNoCall DEF TypeOK

LEMMA InitRate == Init => RInv
<1>. SUFFICES ASSUME Init PROVE RInv
  OBVIOUS
<1>1. TypeOK
  BY BoundsAssumption DEF Init, TypeOK
<1>2. StampInv /\ LayerInv /\ LayersAgree
  BY IdleIsNoCall DEF Init, StampInv, LayerInv, LayersAgree, Within, Windows
<1>3. OwingInv
  <2>. SUFFICES ASSUME NEW w \in Windows PROVE Covered(w)
    BY DEF OwingInv
  <2>1. entries[w] = {} /\ errors = 0
    BY DEF Init
  <2>2. Owing(w) = {}
    BY DEF Init, Owing, Owes
  <2>3. IsFiniteSet({}) /\ Cardinality({}) = 0
    BY FS_EmptySet
  <2>4. 0 * MaxWeight = 0 /\ Cardinality(Requests) * MaxWeight \in Nat
    BY Constants, WeightsAssumption
  <2>5. QED
    BY <2>1, <2>2, <2>3, <2>4, Constants DEF Covered
<1>4. QED
  BY <1>1, <1>2, <1>3 DEF RInv

(* Pruning and expiry only remove, recording only adds.                    *)
LEMMA TypeStep == TypeOK /\ [Next]_vars => TypeOK'
<1>. SUFFICES ASSUME TypeOK, [Next]_vars PROVE TypeOK'
  OBVIOUS
<1>1. ASSUME NEW r \in Requests, NEW k \in Keys, NEW n \in Weights, Arrive(r, k, n)
      PROVE  TypeOK'
  <2>1. Call("check", 1, clock, k, n) \in Calls
    BY <1>1 DEF Arrive, Call, Calls, TypeOK
  <2>2. QED
    BY <1>1, <2>1 DEF Arrive, TypeOK
<1>2. ASSUME NEW r \in Requests, Check(r) PROVE TypeOK'
  <2>. DEFINE w == Window(mw[r], mw[r].layer)
  <2>1. mw[r] \in Calls /\ mw[r].phase = "check"
    BY <1>2, CallUnderWay DEF Check
  <2>2. w \in Windows /\ Onward(mw[r]) \in Calls
    BY <2>1, Layers, AfterCheck DEF Calls
  <2>3. mw' \in [Requests -> Calls \cup {Idle}]
    BY <1>2, <2>2 DEF Check, Proceed, TypeOK
  <2>4. Prune(w, mw[r].now) \/ UNCHANGED <<entries, deadline>>
    BY <1>2 DEF Check
  <2>5. entries' \in [Windows -> SUBSET ((1..MaxTime) \X Nat)]
    BY <2>4 DEF Prune, Recent, TypeOK
  <2>6. deadline' \in [Windows -> Nat]
    BY <2>4 DEF Prune, TypeOK
  <2>7. errors' \in 0..MaxErrors /\ clock' = clock
    BY <1>2, BoundsAssumption DEF Check, Fail, TypeOK
  <2>8. QED
    BY <2>3, <2>5, <2>6, <2>7 DEF TypeOK
<1>3. ASSUME NEW r \in Requests, Record(r) PROVE TypeOK'
  <2>. DEFINE w == Window(mw[r], mw[r].layer)
  <2>1. mw[r] \in Calls /\ mw[r].phase = "record"
    BY <1>3, CallUnderWay DEF Record
  <2>2. w \in Windows /\ Onward(mw[r]) \in Calls \cup {Idle}
    BY <2>1, Layers, AfterRecord DEF Calls
  <2>3. mw' \in [Requests -> Calls \cup {Idle}]
    BY <1>3, <2>2 DEF Record, Proceed, TypeOK
  <2>4. mw[r].now \in 1..MaxTime /\ mw[r].weight \in Nat
    BY <2>1, WeightsAssumption DEF Calls
  <2>5. PICK n \in 0..mw[r].weight :
          entries' = [entries EXCEPT ![w] = @ \cup Charge(mw[r], n)]
    BY <1>3, <2>4 DEF Record
  <2>6. Charge(mw[r], n) \subseteq (1..MaxTime) \X Nat
    BY <2>4 DEF Charge, Offsets
  <2>7. entries' \in [Windows -> SUBSET ((1..MaxTime) \X Nat)]
    BY <2>5, <2>6 DEF TypeOK
  <2>8. clock + Lifetime(w) \in Nat
    BY <2>2, Constants, BoundsAssumption DEF TypeOK
  <2>9. deadline' \in [Windows -> Nat]
    BY <1>3, <2>8 DEF Record, TypeOK
  <2>10. errors' \in 0..MaxErrors /\ clock' = clock
    BY <1>3, BoundsAssumption DEF Record, Fail, TypeOK
  <2>11. QED
    BY <2>3, <2>7, <2>9, <2>10 DEF TypeOK
<1>4. ASSUME NEW r \in Requests, Dropped(r) PROVE TypeOK'
  BY <1>4 DEF Dropped, TypeOK
<1>5. ASSUME NEW w \in Windows, Expire(w) PROVE TypeOK'
  BY <1>5 DEF Expire, TypeOK
<1>6. CASE Tick
  BY <1>6, BoundsAssumption DEF Tick, TypeOK
<1>7. CASE UNCHANGED vars
  BY <1>7 DEF vars, TypeOK
<1>8. QED
  BY <1>1, <1>2, <1>3, <1>4, <1>5, <1>6, <1>7 DEF Next, Middleware

-----------------------------------------------------------------------------
LEMMA OwingIsFinite ==
  ASSUME NEW w \in Windows
  PROVE  /\ IsFiniteSet(Owing(w)) /\ Cardinality(Owing(w)) \in Nat
         /\ IsFiniteSet(Owing(w)') /\ Cardinality(Owing(w)') \in Nat
         /\ Cardinality(Owing(w)') <= Cardinality(Requests)
<1>1. Owing(w) \subseteq Requests /\ Owing(w)' \subseteq Requests
  BY DEF Owing
<1>2. QED
  BY <1>1, RequestsAssumption, FS_Subset, FS_CardinalityType

(* A window stays covered when nothing is added to it or owed to it.       *)
LEMMA CoveredStays ==
  ASSUME TypeOK, TypeOK', NEW w \in Windows, Covered(w),
         entries'[w] \subseteq entries[w], Owing(w)' \subseteq Owing(w),
         errors <= errors'
  PROVE  Covered(w)'
<1>. DEFINE M == MaxWeight
            e == Cardinality(entries[w])  e2 == Cardinality(entries'[w])
            o == Cardinality(Owing(w))    o2 == Cardinality(Owing(w)')
            K == Cardinality(Requests)
<1>1. IsFiniteSet(entries'[w]) /\ e \in Nat /\ e2 \in Nat /\ e2 <= e
  BY FS_Subset, FS_CardinalityType DEF Covered
<1>2. o \in Nat /\ o2 \in Nat /\ o2 <= o
  BY OwingIsFinite, FS_Subset
<1>3. errors \in Nat /\ errors' \in Nat /\ K \in Nat /\ M \in Nat /\ Limit(w) \in Nat
  BY Constants, WeightsAssumption, BoundsAssumption DEF TypeOK
<1>4. o2 * M <= o * M /\ (K + errors) * M <= (K + errors') * M
  BY <1>2, <1>3, TimesMonotone
<1>5. /\ o * M \in Nat /\ o2 * M \in Nat
      /\ (K + errors) * M \in Nat /\ (K + errors') * M \in Nat
  BY <1>2, <1>3
<1>6. e + o * M <= Limit(w) - 1 + (K + errors) * M
  BY DEF Covered
<1>7. e2 + o2 * M <= Limit(w) - 1 + (K + errors') * M
  <2>. HIDE DEF M, e, e2, o, o2, K
  <2>. QED
    BY <1>1, <1>3, <1>4, <1>5, <1>6
<1>8. QED
  BY <1>1, <1>7 DEF Covered, Limit

(* A check that counts below the limit leaves room for every request.      *)
LEMMA CoveredByCount ==
  ASSUME TypeOK', NEW w \in Windows, Covered(w),
         entries'[w] \subseteq entries[w], Cardinality(entries'[w]) < Limit(w)
  PROVE  Covered(w)'
<1>. DEFINE M == MaxWeight  e2 == Cardinality(entries'[w])
            o2 == Cardinality(Owing(w)')  K == Cardinality(Requests)
<1>0. e2 < Limit(w)
  OBVIOUS
<1>1. IsFiniteSet(entries'[w]) /\ e2 \in Nat
  BY FS_Subset, FS_CardinalityType DEF Covered
<1>2. o2 \in Nat /\ o2 <= K
  BY OwingIsFinite
<1>3. errors' \in Nat /\ K \in Nat /\ M \in Nat /\ Limit(w) \in Nat
  BY Constants, WeightsAssumption, BoundsAssumption DEF TypeOK
<1>4. o2 * M <= (K + errors') * M
  <2>1. o2 <= K + errors'
    BY <1>2, <1>3
  <2>2. QED
    BY <1>2, <1>3, <2>1, TimesMonotone
<1>5. o2 * M \in Nat /\ (K + errors') * M \in Nat
  BY <1>2, <1>3
<1>6. e2 + o2 * M <= Limit(w) - 1 + (K + errors') * M
  <2>. HIDE DEF M, e2, o2, K
  <2>. QED
    BY <1>0, <1>1, <1>3, <1>4, <1>5
<1>7. QED
  BY <1>1, <1>6 DEF Covered, Limit

(* A failed check lets one more call owe, and pays with one more failure.  *)
LEMMA CoveredByFailure ==
  ASSUME TypeOK, TypeOK', NEW w \in Windows, NEW r \in Requests, Covered(w),
         entries'[w] \subseteq entries[w], Owing(w)' \subseteq Owing(w) \cup {r},
         errors' = errors + 1
  PROVE  Covered(w)'
<1>. DEFINE M == MaxWeight
            e == Cardinality(entries[w])  e2 == Cardinality(entries'[w])
            o == Cardinality(Owing(w))    o2 == Cardinality(Owing(w)')
            K == Cardinality(Requests)
<1>1. IsFiniteSet(entries'[w]) /\ e \in Nat /\ e2 \in Nat /\ e2 <= e
  BY FS_Subset, FS_CardinalityType DEF Covered
<1>2. o \in Nat /\ o2 \in Nat /\ o2 <= o + 1
  <2>1. /\ IsFiniteSet(Owing(w) \cup {r})
        /\ Cardinality(Owing(w) \cup {r}) \in Nat
        /\ Cardinality(Owing(w) \cup {r}) <= o + 1
    <3>1. CASE r \in Owing(w)
      <4>1. Owing(w) \cup {r} = Owing(w)
        BY <3>1
      <4>2. QED
        BY <4>1, OwingIsFinite
    <3>2. CASE r \notin Owing(w)
      <4>1. /\ IsFiniteSet(Owing(w) \cup {r})
            /\ Cardinality(Owing(w) \cup {r}) = o + 1
        BY <3>2, OwingIsFinite, FS_AddElement
      <4>2. QED
        BY <4>1, OwingIsFinite
    <3>3. QED
      BY <3>1, <3>2
  <2>2. o2 <= Cardinality(Owing(w) \cup {r})
    BY <2>1, FS_Subset
  <2>3. QED
    BY <2>1, <2>2, OwingIsFinite
<1>3. errors \in Nat /\ K \in Nat /\ M \in Nat /\ Limit(w) \in Nat
  BY Constants, WeightsAssumption, BoundsAssumption DEF TypeOK
<1>4. /\ o2 * M <= (o + 1) * M
      /\ (o + 1) * M = o * M + M
      /\ (K + (errors + 1)) * M = (K + errors) * M + M
  <2>1. o + 1 \in Nat /\ K + errors \in Nat
    BY <1>2, <1>3
  <2>2. o2 * M <= (o + 1) * M
    BY <1>2, <1>3, <2>1, TimesMonotone
  <2>3. (o + 1) * M = o * M + M /\ (K + errors + 1) * M = (K + errors) * M + M
    BY <1>2, <1>3, <2>1, PlusOneTimes
  <2>4. K + (errors + 1) = K + errors + 1
    BY <1>3
  <2>5. QED
    BY <2>2, <2>3, <2>4
<1>5. o * M \in Nat /\ o2 * M \in Nat /\ (K + errors) * M \in Nat
  BY <1>2, <1>3
<1>6. e + o * M <= Limit(w) - 1 + (K + errors) * M
  BY DEF Covered
<1>7. e2 + o2 * M <= Limit(w) - 1 + (K + (errors + 1)) * M
  <2>. HIDE DEF M, e, e2, o, o2, K
  <2>. QED
    BY <1>1, <1>3, <1>4, <1>5, <1>6
<1>8. QED
  BY <1>1, <1>7 DEF Covered, Limit

(* What a recording adds is no more than the call owed.                    *)
LEMMA ChargeIsLight ==
  ASSUME NEW c \in Calls, NEW n \in 0..c.weight
  PROVE  /\ IsFiniteSet(Charge(c, n))
         /\ Cardinality(Charge(c, n)) \in Nat
         /\ Cardinality(Charge(c, n)) <= MaxWeight
<1>1. n \in Nat /\ n <= MaxWeight /\ MaxWeight \in Nat
  BY WeightsAssumption DEF Calls
<1>2. IsFiniteSet(Offsets(n)) /\ Cardinality(Offsets(n)) = n
  <2>1. /\ IsFiniteSet(0..(n - 1))
        /\ Cardinality(0..(n - 1)) = IF 0 > n - 1 THEN 0 ELSE (n - 1) - 0 + 1
    BY <1>1, FS_Interval
  <2>2. QED
    BY <1>1, <2>1 DEF Offsets
<1>3. IsFiniteSet({c.now}) /\ Cardinality({c.now}) = 1
  BY FS_Singleton
<1>4. /\ IsFiniteSet(Charge(c, n))
      /\ Cardinality(Charge(c, n)) = 1 * n
  BY <1>2, <1>3, FS_Product DEF Charge
<1>5. QED
  BY <1>1, <1>4

LEMMA CoveredByRecording ==
  ASSUME TypeOK, TypeOK', NEW w \in Windows, NEW r \in Requests, Covered(w),
         mw[r] \in Calls, NEW n \in 0..mw[r].weight,
         entries'[w] = entries[w] \cup Charge(mw[r], n),
         r \in Owing(w), Owing(w)' = Owing(w) \ {r}, errors <= errors'
  PROVE  Covered(w)'
<1>. DEFINE M == MaxWeight
            e == Cardinality(entries[w])  e2 == Cardinality(entries'[w])
            o == Cardinality(Owing(w))    o2 == Cardinality(Owing(w)')
            K == Cardinality(Requests)
<1>1. IsFiniteSet(entries'[w]) /\ e \in Nat /\ e2 \in Nat /\ e2 <= e + M
  <2>. DEFINE A == entries[w]  B == Charge(mw[r], n)
  <2>1. IsFiniteSet(A) /\ IsFiniteSet(B) /\ Cardinality(B) \in Nat /\ Cardinality(B) <= M
    BY ChargeIsLight DEF Covered
  <2>2. /\ IsFiniteSet(A \cup B)
        /\ Cardinality(A \cup B) = Cardinality(A) + Cardinality(B) - Cardinality(A \cap B)
    BY <2>1, FS_Union
  <2>3. Cardinality(A) \in Nat /\ Cardinality(A \cup B) \in Nat /\ Cardinality(A \cap B) \in Nat
    BY <2>1, <2>2, FS_CardinalityType, FS_Intersection
  <2>4. M \in Nat
    BY WeightsAssumption
  <2>5. Cardinality(A \cup B) <= Cardinality(A) + M
    <3>. HIDE DEF A, B, M
    <3>. QED
      BY <2>1, <2>2, <2>3, <2>4
  <2>6. QED
    BY <2>2, <2>3, <2>5
<1>2. o \in Nat /\ o2 \in Nat /\ o = o2 + 1
  <2>1. o2 = o - 1
    <3>1. Cardinality(Owing(w) \ {r}) = Cardinality(Owing(w)) - 1
      BY OwingIsFinite, FS_RemoveElement
    <3>2. Cardinality(Owing(w)') = Cardinality(Owing(w) \ {r})
      BY Zenon
    <3>3. QED
      BY <3>1, <3>2
  <2>2. o \in Nat /\ o2 \in Nat
    BY OwingIsFinite
  <2>3. QED
    <3>. HIDE DEF o, o2
    <3>. QED
      BY <2>1, <2>2
<1>3. errors \in Nat /\ errors' \in Nat /\ K \in Nat /\ M \in Nat /\ Limit(w) \in Nat
  BY Constants, WeightsAssumption, BoundsAssumption DEF TypeOK
<1>4. o * M = o2 * M + M /\ (K + errors) * M <= (K + errors') * M
  BY <1>2, <1>3, TimesMonotone
<1>5. o2 * M \in Nat /\ (K + errors) * M \in Nat /\ (K + errors') * M \in Nat
  BY <1>2, <1>3
<1>6. e + o * M <= Limit(w) - 1 + (K + errors) * M
  BY DEF Covered
<1>7. e2 + o2 * M <= Limit(w) - 1 + (K + errors') * M
  <2>. HIDE DEF M, e, e2, o, o2, K
  <2>. QED
    BY <1>1, <1>3, <1>4, <1>5, <1>6
<1>8. QED
  BY <1>1, <1>7 DEF Covered, Limit

-----------------------------------------------------------------------------
LEMMA OwingOfOthers ==
  ASSUME TypeOK, NEW r \in Requests, NEW c, mw' = [mw EXCEPT ![r] = c],
         NEW w \in Windows
  PROVE  /\ \A q \in Requests : q # r => (q \in Owing(w)' <=> q \in Owing(w))
         /\ r \in Owing(w)' <=> Owes(c, w)
         /\ r \in Owing(w) <=> Owes(mw[r], w)
         /\ Owing(w) \subseteq Requests /\ Owing(w)' \subseteq Requests
<1>1. \A q \in Requests : mw'[q] = IF q = r THEN c ELSE mw[q]
  BY DEF TypeOK
<1>2. Owing(w)' = {q \in Requests : Owes(mw'[q], w)}
  BY DEF Owing, Owes, Window, Idle
<1>3. QED
  BY <1>1, <1>2 DEF Owing

(* Each step leaves every window covered.                                  *)
LEMMA OwingStep == TypeOK /\ OwingInv /\ [Next]_vars => OwingInv'
<1>. SUFFICES ASSUME TypeOK, OwingInv, [Next]_vars, NEW w \in Windows
              PROVE  Covered(w)'
  BY DEF OwingInv
<1>0. TypeOK' /\ Covered(w) /\ errors \in Nat
  BY TypeStep, BoundsAssumption DEF OwingInv, TypeOK
<1>1. ASSUME NEW r \in Requests, NEW k \in Keys, NEW n \in Weights, Arrive(r, k, n)
      PROVE  Covered(w)'
  <2>. DEFINE c == Call("check", 1, clock, k, n)
  <2>1. ~Owes(c, w)
    BY DEF Owes, Call
  <2>2. mw' = [mw EXCEPT ![r] = c] /\ UNCHANGED <<entries, errors>>
    BY <1>1 DEF Arrive
  <2>3. Owing(w)' \subseteq Owing(w)
    <3>. HIDE DEF c
    <3>. QED
      BY <2>1, <2>2, OwingOfOthers
  <2>4. QED
    BY <1>0, <2>2, <2>3, CoveredStays
<1>2. ASSUME NEW r \in Requests, Check(r) PROVE Covered(w)'
  <2>. DEFINE v == Window(mw[r], mw[r].layer)
  <2>1. mw[r] \in Calls /\ mw[r].phase = "check"
    BY <1>2, CallUnderWay DEF Check
  <2>2. v \in Windows
    BY <2>1, Layers DEF Calls
  <2>3. entries'[w] \subseteq entries[w] /\ (w # v => entries'[w] = entries[w])
    BY <1>2, <2>2 DEF Check, Prune, Recent, TypeOK
  <2>4. CASE mw' = [mw EXCEPT ![r] = Idle] /\ UNCHANGED errors
    <3>1. ~Owes(Idle, w)
      BY DEF Owes
    <3>2. Owing(w)' \subseteq Owing(w)
      BY <2>4, <3>1, OwingOfOthers
    <3>3. QED
      BY <1>0, <2>3, <2>4, <3>2, CoveredStays
  <2>5. ASSUME Proceed(r)
        PROVE  /\ w # v => Owing(w)' = Owing(w)
               /\ Owing(w)' \subseteq Owing(w) \cup {r}
    <3>1. Owes(Onward(mw[r]), w) <=> (Owes(mw[r], w) \/ w = v)
      BY <2>1, OwesAfterCheck
    <3>2. mw' = [mw EXCEPT ![r] = Onward(mw[r])]
      BY <2>5 DEF Proceed
    <3>. QED
      BY <3>1, <3>2, OwingOfOthers
  <2>6. CASE Proceed(r) /\ UNCHANGED errors /\ Cardinality(entries'[v]) < Limit(v)
    <3>1. CASE w = v
      BY <1>0, <2>3, <2>6, <3>1, CoveredByCount
    <3>2. CASE w # v
      BY <1>0, <2>3, <2>5, <2>6, <3>2, CoveredStays
    <3>3. QED
      BY <3>1, <3>2
  <2>7. CASE Proceed(r) /\ errors' = errors + 1
    BY <1>0, <2>3, <2>5, <2>7, CoveredByFailure
  <2>8. \/ mw' = [mw EXCEPT ![r] = Idle] /\ UNCHANGED errors
        \/ Proceed(r) /\ UNCHANGED errors /\ Cardinality(entries'[v]) < Limit(v)
        \/ Proceed(r) /\ errors' = errors + 1
    <3>1. CASE /\ Prune(v, mw[r].now)
               /\ IF Cardinality(Recent(v, mw[r].now)) >= Limit(v)
                  THEN mw' = [mw EXCEPT ![r] = Idle] ELSE Proceed(r)
               /\ UNCHANGED errors
      <4>1. entries'[v] = Recent(v, mw[r].now)
        BY <2>2, <3>1 DEF Prune, TypeOK
      <4>2. IsFiniteSet(entries[v])
        BY <2>2 DEF OwingInv, Covered
      <4>3. Recent(v, mw[r].now) \subseteq entries[v]
        BY DEF Recent
      <4>4. Cardinality(entries'[v]) \in Nat
        BY <4>1, <4>2, <4>3, FS_Subset, FS_CardinalityType
      <4>5. Limit(v) \in Nat
        BY <2>2, Constants
      <4>6. CASE Cardinality(entries'[v]) >= Limit(v)
        BY <3>1, <4>1, <4>6
      <4>7. CASE Cardinality(entries'[v]) < Limit(v)
        <5>1. ~(Cardinality(Recent(v, mw[r].now)) >= Limit(v))
          BY <4>1, <4>4, <4>5, <4>7
        <5>2. QED
          BY <3>1, <4>7, <5>1
      <4>8. QED
        BY <4>4, <4>5, <4>6, <4>7
    <3>2. CASE Proceed(r) /\ Fail
      BY <3>2 DEF Fail
    <3>3. QED
      BY <1>2, <3>1, <3>2 DEF Check
  <2>9. QED
    BY <2>4, <2>6, <2>7, <2>8
<1>3. ASSUME NEW r \in Requests, Record(r) PROVE Covered(w)'
  <2>. DEFINE v == Window(mw[r], mw[r].layer)
  <2>1. mw[r] \in Calls /\ mw[r].phase = "record"
    BY <1>3, CallUnderWay DEF Record
  <2>2. v \in Windows /\ mw[r].weight \in Nat
    BY <2>1, Layers, WeightsAssumption DEF Calls
  <2>3. PICK n \in 0..mw[r].weight :
          entries' = [entries EXCEPT ![v] = @ \cup Charge(mw[r], n)]
    BY <1>3, <2>2 DEF Record
  <2>4. errors <= errors'
    BY <1>0, <1>3 DEF Record, Fail
  <2>5. mw' = [mw EXCEPT ![r] = Onward(mw[r])]
    BY <1>3 DEF Record, Proceed
  <2>6. /\ Owes(Onward(mw[r]), w) <=> (Owes(mw[r], w) /\ w # v)
        /\ Owes(mw[r], v)
    BY <2>1, OwesAfterRecord
  <2>7. CASE w = v
    <3>1. r \in Owing(w) /\ Owing(w)' = Owing(w) \ {r}
      BY <2>5, <2>6, <2>7, OwingOfOthers
    <3>2. entries'[w] = entries[w] \cup Charge(mw[r], n)
      BY <2>2, <2>3, <2>7 DEF TypeOK
    <3>3. QED
      BY <1>0, <2>1, <2>3, <2>4, <3>1, <3>2, CoveredByRecording
  <2>8. CASE w # v
    <3>1. Owing(w)' \subseteq Owing(w)
      BY <2>5, <2>6, <2>8, OwingOfOthers
    <3>2. entries'[w] = entries[w]
      BY <2>2, <2>3, <2>8 DEF TypeOK
    <3>3. QED
      BY <1>0, <2>4, <3>1, <3>2, CoveredStays
  <2>9. QED
    BY <2>7, <2>8
<1>4. ASSUME NEW r \in Requests, Dropped(r) PROVE Covered(w)'
  <2>1. ~Owes(Idle, w)
    BY DEF Owes
  <2>2. mw' = [mw EXCEPT ![r] = Idle] /\ UNCHANGED <<entries, errors>>
    BY <1>4 DEF Dropped
  <2>3. Owing(w)' \subseteq Owing(w)
    BY <2>1, <2>2, OwingOfOthers
  <2>4. QED
    BY <1>0, <2>2, <2>3, CoveredStays
<1>5. ASSUME NEW v \in Windows, Expire(v) PROVE Covered(w)'
  <2>1. entries'[w] \subseteq entries[w] /\ UNCHANGED <<mw, errors>>
    BY <1>5 DEF Expire, TypeOK
  <2>2. Owing(w)' = Owing(w)
    BY <2>1 DEF Owing, Owes, Window, Idle
  <2>3. QED
    BY <1>0, <2>1, <2>2, CoveredStays
<1>6. CASE Tick \/ UNCHANGED vars
  <2>1. UNCHANGED <<entries, mw, errors>>
    BY <1>6 DEF Tick, vars
  <2>2. Owing(w)' = Owing(w)
    BY <2>1 DEF Owing, Owes, Window, Idle
  <2>3. QED
    BY <1>0, <2>1, <2>2, CoveredStays
<1>7. QED
  BY <1>1, <1>2, <1>3, <1>4, <1>5, <1>6 DEF Next, Middleware

-----------------------------------------------------------------------------
(* Without failures a step removes from a window only what has passed.     *)
LEMMA Forgetting ==
  ASSUME TypeOK, StampInv, [Next]_vars, errors' = 0,
         NEW w \in Windows, NEW e \in entries[w], e \notin entries'[w]
  PROVE  e[1] <= clock - Span(w)
<1>0. /\ clock \in Nat /\ e[1] \in Nat /\ Span(w) \in Nat /\ Lifetime(w) \in Nat
      /\ Span(w) <= Lifetime(w) /\ errors \in Nat
  BY Constants, BoundsAssumption DEF TypeOK
<1>1. ASSUME NEW r \in Requests, Check(r) PROVE e[1] <= clock - Span(w)
  <2>. DEFINE v == Window(mw[r], mw[r].layer)
  <2>1. mw[r] \in Calls /\ mw[r] # Idle
    BY <1>1, CallUnderWay, IdleIsNoCall DEF Check
  <2>2. mw[r].now \in Nat /\ mw[r].now <= clock /\ v \in Windows
    BY <2>1, Layers, BoundsAssumption DEF StampInv, Calls
  <2>3. Prune(v, mw[r].now)
    BY <1>1 DEF Check
  <2>4. w = v /\ Old(v, e, mw[r].now - Span(v))
    BY <2>2, <2>3 DEF Prune, Recent, TypeOK
  <2>5. QED
    BY <1>0, <2>2, <2>4 DEF Old
<1>2. ASSUME NEW r \in Requests, Record(r) PROVE FALSE
  <2>. DEFINE v == Window(mw[r], mw[r].layer)
  <2>1. mw[r] \in Calls
    BY <1>2, CallUnderWay DEF Record
  <2>2. mw[r].weight \in Nat
    BY <2>1, WeightsAssumption DEF Calls
  <2>3. PICK n \in 0..mw[r].weight :
          entries' = [entries EXCEPT ![v] = @ \cup Charge(mw[r], n)]
    BY <1>2, <2>2 DEF Record
  <2>4. QED
    BY <2>3 DEF TypeOK
<1>3. ASSUME NEW v \in Windows, Expire(v) PROVE e[1] <= clock - Span(w)
  <2>1. w = v /\ deadline[w] <= clock /\ deadline[w] \in Nat
    BY <1>3 DEF Expire, TypeOK
  <2>2. errors = 0
    BY <1>3 DEF Expire
  <2>3. e[1] + Lifetime(w) <= deadline[w]
    BY <2>2 DEF StampInv
  <2>4. QED
    BY <1>0, <2>1, <2>3
<1>4. QED
  BY <1>1, <1>2, <1>3 DEF Next, Middleware, Arrive, Dropped, Tick, vars

LEMMA ErrorsGrow ==
  ASSUME TypeOK, [Next]_vars
  PROVE  errors' = 0 => errors = 0
<1>1. errors \in Nat
  BY BoundsAssumption DEF TypeOK
<1>2. errors' = errors \/ errors' = errors + 1
  BY DEF Next, Middleware, Arrive, Check, Record, Dropped, Expire, Tick, Fail, vars
<1>3. QED
  BY <1>1, <1>2

(* Stamps stay behind the clock and ahead of the expiry.                   *)
LEMMA StampStep == TypeOK /\ StampInv /\ [Next]_vars => StampInv'
<1>. SUFFICES ASSUME TypeOK, StampInv, [Next]_vars PROVE StampInv'
  OBVIOUS
<1>. DEFINE Calls0  == \A r \in Requests : mw[r] # Idle => mw[r].now <= clock
            Alive(w) == \A e \in entries[w] :
                          /\ e[1] <= clock
                          /\ errors = 0 => deadline[w] # 0 /\ e[1] + Lifetime(w) <= deadline[w]
<1>0. /\ TypeOK' /\ clock \in Nat
      /\ Calls0 /\ \A w \in Windows : Alive(w)
  BY TypeStep, BoundsAssumption DEF StampInv, TypeOK
<1>. SUFFICES Calls0' /\ \A w \in Windows : Alive(w)'
  BY DEF StampInv, Lifetime
<1>1. ASSUME NEW r \in Requests, NEW k \in Keys, NEW n \in Weights, Arrive(r, k, n)
      PROVE  Calls0' /\ \A w \in Windows : Alive(w)'
  <2>1. Call("check", 1, clock, k, n).now = clock
    BY DEF Call
  <2>2. Calls0'
    BY <1>0, <1>1, <2>1 DEF Arrive, TypeOK, Idle
  <2>3. QED
    BY <1>0, <1>1, <2>2 DEF Arrive, Lifetime
<1>2. ASSUME NEW r \in Requests, Check(r)
      PROVE  Calls0' /\ \A w \in Windows : Alive(w)'
  <2>. DEFINE v == Window(mw[r], mw[r].layer)
  <2>1. mw[r] \in Calls /\ mw[r].phase = "check" /\ mw[r] # Idle
    BY <1>2, CallUnderWay, IdleIsNoCall DEF Check
  <2>2. v \in Windows /\ Onward(mw[r]).now = mw[r].now
    BY <2>1, Layers, AfterCheck DEF Calls
  <2>3. \A q \in Requests : mw'[q] # Idle => mw[q] # Idle /\ mw'[q].now = mw[q].now
    BY <1>2, <2>1, <2>2 DEF Check, Proceed, TypeOK
  <2>4. Calls0'
    BY <1>0, <1>2, <2>3 DEF Check
  <2>5. ASSUME NEW w \in Windows PROVE Alive(w)'
    <3>1. \/ w = v /\ Prune(v, mw[r].now)
          \/ entries'[w] = entries[w] /\ deadline'[w] = deadline[w]
      BY <1>2, <2>2 DEF Check, Prune, TypeOK
    <3>2. /\ entries'[w] \subseteq entries[w]
          /\ entries'[w] # {} => deadline'[w] = deadline[w]
      BY <2>2, <3>1 DEF Prune, Recent, TypeOK
    <3>3. clock' = clock
      BY <1>2 DEF Check
    <3>4. QED
      BY <1>0, <3>2, <3>3, ErrorsGrow DEF Lifetime
  <2>6. QED
    BY <2>4, <2>5
<1>3. ASSUME NEW r \in Requests, Record(r)
      PROVE  Calls0' /\ \A w \in Windows : Alive(w)'
  <2>. DEFINE v == Window(mw[r], mw[r].layer)
  <2>1. mw[r] \in Calls /\ mw[r].phase = "record" /\ mw[r] # Idle
    BY <1>3, CallUnderWay, IdleIsNoCall DEF Record
  <2>2. /\ v \in Windows /\ mw[r].weight \in Nat /\ mw[r].now \in Nat
        /\ mw[r].now <= clock /\ mw[r].layer \in 1..3
    BY <1>0, <2>1, Layers, WeightsAssumption, BoundsAssumption DEF Calls
  <2>3. Onward(mw[r]) # Idle => Onward(mw[r]).now = mw[r].now
    BY <2>1, <2>2, AfterRecord
  <2>4. \A q \in Requests : mw'[q] # Idle => mw[q] # Idle /\ mw'[q].now = mw[q].now
    BY <1>3, <2>1, <2>3 DEF Record, Proceed, TypeOK
  <2>5. clock' = clock
    BY <1>3 DEF Record
  <2>6. Calls0'
    BY <1>0, <2>4, <2>5
  <2>7. PICK n \in 0..mw[r].weight :
          entries' = [entries EXCEPT ![v] = @ \cup Charge(mw[r], n)]
    BY <1>3, <2>2 DEF Record
  <2>8. \A e \in entries'[v] : e \in entries[v] \/ e[1] = mw[r].now
    BY <2>2, <2>7 DEF Charge, TypeOK
  <2>9. errors' = 0 => deadline' = [deadline EXCEPT ![v] = clock + Lifetime(v)]
    BY <1>0, <1>3, BoundsAssumption DEF Record, Fail, TypeOK
  <2>10. ASSUME NEW w \in Windows PROVE Alive(w)'
    <3>1. CASE w = v
      <4>1. \A e \in entries'[w] : e[1] \in Nat /\ e[1] <= clock
        BY <1>0, <2>2, <2>8, <3>1, BoundsAssumption DEF TypeOK
      <4>2. Lifetime(w) \in Nat /\ clock # 0
        BY Constants DEF TypeOK
      <4>3. errors' = 0 => deadline'[w] = clock + Lifetime(w)
        BY <2>2, <2>9, <3>1 DEF TypeOK
      <4>4. QED
        BY <1>0, <2>5, <4>1, <4>2, <4>3 DEF Lifetime
    <3>2. CASE w # v
      <4>1. entries'[w] = entries[w] /\ (errors' = 0 => deadline'[w] = deadline[w])
        BY <2>2, <2>7, <2>9, <3>2 DEF TypeOK
      <4>2. QED
        BY <1>0, <2>5, <4>1, ErrorsGrow DEF Lifetime
    <3>3. QED
      BY <3>1, <3>2
  <2>11. QED
    BY <2>6, <2>10
<1>4. ASSUME NEW r \in Requests, Dropped(r)
      PROVE  Calls0' /\ \A w \in Windows : Alive(w)'
  <2>1. Calls0'
    BY <1>0, <1>4 DEF Dropped, TypeOK, Idle
  <2>2. QED
    BY <1>0, <1>4, <2>1 DEF Dropped, Lifetime
<1>5. ASSUME NEW v \in Windows, Expire(v)
      PROVE  Calls0' /\ \A w \in Windows : Alive(w)'
  <2>1. Calls0'
    BY <1>0, <1>5 DEF Expire, Idle
  <2>2. ASSUME NEW w \in Windows PROVE Alive(w)'
    BY <1>0, <1>5 DEF Expire, TypeOK, Lifetime
  <2>3. QED
    BY <2>1, <2>2
<1>6. CASE Tick
  <2>1. /\ clock' = clock + 1
        /\ UNCHANGED <<entries, deadline, mw, errors>>
    BY <1>6 DEF Tick
  <2>2. \A r \in Requests : mw[r] # Idle => mw[r].now \in Nat
    BY CallUnderWay, BoundsAssumption DEF Calls
  <2>3. \A w \in Windows : \A e \in entries[w] : e[1] \in Nat
    BY BoundsAssumption DEF TypeOK
  <2>4. Calls0'
    BY <1>0, <2>1, <2>2 DEF Idle
  <2>5. QED
    BY <1>0, <2>1, <2>3, <2>4 DEF Lifetime
<1>7. CASE UNCHANGED vars
  BY <1>0, <1>7 DEF vars, Lifetime, Idle
<1>8. QED
  BY <1>1, <1>2, <1>3, <1>4, <1>5, <1>6, <1>7 DEF Next, Middleware

-----------------------------------------------------------------------------
(* A recent member stays where a later layer relies on it.                 *)
LEMMA RecentStays ==
  ASSUME TypeOK, StampInv, [Next]_vars, errors' = 0,
         NEW w \in Windows, Span(w) = Minute,
         NEW e \in entries[w], e[1] > clock' - Minute
  PROVE  e \in entries'[w]
<1>1. clock \in Nat /\ clock' \in Nat /\ clock <= clock'
  <2>1. clock' = clock \/ clock' = clock + 1
    BY DEF Next, Middleware, Arrive, Check, Record, Dropped, Expire, Tick, vars
  <2>2. QED
    BY <2>1, BoundsAssumption DEF TypeOK
<1>2. e[1] \in Nat /\ Minute \in Nat
  BY BoundsAssumption, SpansAssumption DEF TypeOK
<1>3. ~(e[1] <= clock - Span(w))
  BY <1>1, <1>2
<1>4. QED
  BY <1>3, Forgetting

(* What a step adds to a window is the charge of a recording call, whole   *)
(* when nothing fails.                                                     *)
LEMMA Recording ==
  ASSUME TypeOK, NEW r \in Requests, Record(r), errors' = 0
  PROVE  /\ mw[r] \in Calls /\ mw[r].phase = "record" /\ mw[r].layer \in 1..3
         /\ entries' = [entries EXCEPT ![Window(mw[r], mw[r].layer)] =
                          @ \cup Charge(mw[r], mw[r].weight)]
         /\ mw' = [mw EXCEPT ![r] = Onward(mw[r])]
         /\ clock' = clock
<1>1. mw[r] \in Calls /\ mw[r].phase = "record" /\ mw[r].layer \in 1..3
  BY CallUnderWay DEF Record, Calls
<1>2. ~Fail
  BY BoundsAssumption DEF Fail, TypeOK
<1>3. QED
  BY <1>1, <1>2 DEF Record, Proceed

LEMMA NothingElseAdds ==
  ASSUME TypeOK, [Next]_vars, \A r \in Requests : ~Record(r), NEW w \in Windows
  PROVE  entries'[w] \subseteq entries[w]
<1>1. ASSUME NEW r \in Requests, Check(r) PROVE entries'[w] \subseteq entries[w]
  BY <1>1 DEF Check, Prune, Recent, TypeOK
<1>2. ASSUME NEW v \in Windows, Expire(v) PROVE entries'[w] \subseteq entries[w]
  BY <1>2 DEF Expire, TypeOK
<1>3. QED
  BY <1>1, <1>2 DEF Next, Middleware, Arrive, Dropped, Tick, vars

LEMMA LayerStep == TypeOK /\ StampInv /\ LayerInv /\ [Next]_vars => LayerInv'
<1>. SUFFICES ASSUME TypeOK, StampInv, LayerInv, [Next]_vars, errors' = 0,
                     NEW q \in Requests, mw'[q].phase = "record",
                     mw'[q].now > clock' - Minute,
                     NEW n \in 1..3, n < mw'[q].layer,
                     NEW e \in Charge(mw'[q], mw'[q].weight)
              PROVE  e \in entries'[Window(mw'[q], n)]
  BY DEF LayerInv, Charge, Offsets, Window
<1>0. errors = 0 /\ TypeOK' /\ clock \in Nat /\ clock' \in Nat /\ clock <= clock'
  <2>1. clock' = clock \/ clock' = clock + 1
    BY DEF Next, Middleware, Arrive, Check, Record, Dropped, Expire, Tick, vars
  <2>2. QED
    BY <2>1, TypeStep, ErrorsGrow, BoundsAssumption DEF TypeOK
<1>1. mw'[q] \in Calls
  BY <1>0, IdleIsNoCall DEF TypeOK
<1>2. /\ n \in {1, 2} /\ Window(mw'[q], n) \in Windows
      /\ Span(Window(mw'[q], n)) = Minute
      /\ e[1] = mw'[q].now
  <2>1. mw'[q].layer \in 1..3
    BY <1>1 DEF Calls
  <2>2. n \in {1, 2}
    BY <2>1
  <2>3. mw'[q].key \in Keys
    BY <1>1 DEF Calls
  <2>4. QED
    BY <2>2, <2>3, KeysAssumption DEF Window, Windows, Span, Charge
<1>3. CASE mw'[q] = mw[q]
  <2>1. mw[q].now > clock - Minute
    BY <1>0, <1>1, <1>3, SpansAssumption, BoundsAssumption DEF Calls
  <2>2. Charge(mw[q], mw[q].weight) \subseteq entries[Window(mw[q], n)]
    BY <1>0, <1>3, <2>1 DEF LayerInv
  <2>3. QED
    BY <1>2, <1>3, <2>2, RecentStays
<1>4. ASSUME Check(q) PROVE FALSE
  <2>1. mw[q] \in Calls /\ mw[q].phase = "check" /\ mw[q].layer \in 1..3
    BY <1>4, CallUnderWay DEF Check, Calls
  <2>2. mw'[q] = Idle \/ mw'[q] = Onward(mw[q])
    BY <1>4 DEF Check, Proceed, TypeOK
  <2>3. mw'[q] = Onward(mw[q])
    BY <1>1, <2>2, IdleIsNoCall
  <2>4. mw'[q].layer = 1
    BY <2>1, <2>3, AfterCheck
  <2>5. QED
    BY <2>4
<1>5. CASE Record(q)
  <2>. DEFINE c == mw[q]  v == Window(c, c.layer)
  <2>1. /\ c \in Calls /\ c.phase = "record" /\ c.layer \in 1..3
        /\ entries' = [entries EXCEPT ![v] = @ \cup Charge(c, c.weight)]
        /\ mw'[q] = Onward(c)
        /\ clock' = clock
    BY <1>5, Recording DEF TypeOK
  <2>2. c.layer < 3
    BY <1>1, <2>1, AfterRecord, IdleIsNoCall
  <2>3. /\ mw'[q].now = c.now /\ mw'[q].weight = c.weight
        /\ mw'[q].layer = c.layer + 1 /\ Window(mw'[q], n) = Window(c, n)
    BY <2>1, <2>2, AfterRecord
  <2>4. e \in Charge(c, c.weight)
    BY <2>3 DEF Charge
  <2>5. CASE n = c.layer
    <3>1. v \in Windows
      BY <2>1, Layers
    <3>2. entries'[v] = entries[v] \cup Charge(c, c.weight)
      BY <2>1, <3>1 DEF TypeOK
    <3>3. QED
      BY <2>3, <2>4, <2>5, <3>2
  <2>6. CASE n < c.layer
    <3>1. Charge(c, c.weight) \subseteq entries[Window(c, n)]
      BY <1>0, <2>1, <2>3, <2>6 DEF LayerInv
    <3>2. QED
      BY <1>2, <2>3, <2>4, <3>1, RecentStays
  <2>7. QED
    BY <2>1, <2>3, <2>5, <2>6
<1>6. ASSUME NEW k \in Keys, NEW m \in Weights, Arrive(q, k, m) PROVE FALSE
  <2>1. mw'[q] = Call("check", 1, clock, k, m)
    BY <1>6 DEF Arrive, TypeOK
  <2>2. QED
    BY <2>1 DEF Call
<1>7. ASSUME Dropped(q) PROVE FALSE
  <2>1. mw'[q] = Idle
    BY <1>7 DEF Dropped, TypeOK
  <2>2. QED
    BY <1>1, <2>1, IdleIsNoCall
<1>8. mw'[q] = mw[q] \/ Middleware(q)
  BY DEF Next, Middleware, Arrive, Check, Record, Proceed, Dropped, Expire, Tick,
         vars, TypeOK
<1>9. QED
  BY <1>3, <1>4, <1>5, <1>6, <1>7, <1>8 DEF Middleware

LEMMA AgreeStep ==
  TypeOK /\ StampInv /\ LayerInv /\ LayersAgree /\ [Next]_vars => LayersAgree'
<1>. SUFFICES ASSUME TypeOK, StampInv, LayerInv, LayersAgree, [Next]_vars, errors' = 0
              PROVE  /\ Within("hour", Minute)' \subseteq entries'["burst"]
                     /\ Within("burst", Minute)' \subseteq UNION {entries'[k] : k \in Keys}
  BY DEF LayersAgree
<1>0. errors = 0 /\ TypeOK' /\ clock \in Nat /\ clock' \in Nat /\ clock <= clock'
  <2>1. clock' = clock \/ clock' = clock + 1
    BY DEF Next, Middleware, Arrive, Check, Record, Dropped, Expire, Tick, vars
  <2>2. QED
    BY <2>1, TypeStep, ErrorsGrow, BoundsAssumption DEF TypeOK
<1>1. /\ Windows = Keys \cup {"burst", "hour"} /\ Span("burst") = Minute
      /\ \A k \in Keys : Span(k) = Minute
  BY KeysAssumption DEF Windows, Span
<1>2. ASSUME NEW w \in {"hour", "burst"}, NEW e \in entries'[w], e[1] > clock' - Minute,
             e \in entries[w]
      PROVE  /\ w = "hour" => e \in entries'["burst"]
             /\ w = "burst" => \E k \in Keys : e \in entries'[k]
  <2>1. e[1] > clock - Minute
    <3>1. e[1] \in Nat
      BY <1>1, <1>2, BoundsAssumption DEF TypeOK
    <3>2. QED
      BY <1>0, <1>2, <3>1, SpansAssumption
  <2>2. e \in Within(w, Minute)
    BY <1>2, <2>1 DEF Within
  <2>3. w = "hour" => e \in entries["burst"]
    BY <1>0, <2>2 DEF LayersAgree
  <2>4. w = "burst" => \E k \in Keys : e \in entries[k]
    BY <1>0, <2>2 DEF LayersAgree
  <2>5. QED
    BY <1>1, <1>2, <2>3, <2>4, RecentStays
<1>3. ASSUME NEW w \in {"hour", "burst"}, NEW e \in entries'[w], e[1] > clock' - Minute,
             e \notin entries[w]
      PROVE  /\ w = "hour" => e \in entries'["burst"]
             /\ w = "burst" => \E k \in Keys : e \in entries'[k]
  <2>1. PICK r \in Requests : Record(r)
    BY <1>1, <1>3, NothingElseAdds
  <2>. DEFINE c == mw[r]  v == Window(c, c.layer)
  <2>2. /\ c \in Calls /\ c.phase = "record" /\ c.layer \in 1..3
        /\ entries' = [entries EXCEPT ![v] = @ \cup Charge(c, c.weight)]
        /\ clock' = clock
    BY <2>1, Recording
  <2>3. w = v /\ e \in Charge(c, c.weight)
    BY <1>1, <1>3, <2>2 DEF TypeOK
  <2>4. c.key \in Keys /\ e[1] = c.now
    BY <2>2, <2>3 DEF Charge, Calls
  <2>5. \A n \in 1..3 : n < c.layer => Charge(c, c.weight) \subseteq entries[Window(c, n)]
    BY <1>0, <1>3, <2>2, <2>4 DEF LayerInv
  <2>6. ASSUME w = "hour" PROVE e \in entries'["burst"]
    <3>1. c.layer = 3
      BY <2>2, <2>3, <2>4, <2>6, KeysAssumption DEF Window
    <3>2. e \in entries["burst"]
      BY <2>3, <2>5, <3>1 DEF Window
    <3>3. QED
      BY <1>1, <1>3, <3>2, RecentStays
  <2>7. ASSUME w = "burst" PROVE e \in entries'[c.key]
    <3>1. c.layer = 2
      BY <2>2, <2>3, <2>4, <2>7, KeysAssumption DEF Window
    <3>2. e \in entries[c.key]
      BY <2>3, <2>5, <3>1 DEF Window
    <3>3. QED
      BY <1>1, <1>3, <2>4, <3>2, RecentStays
  <2>8. QED
    BY <2>4, <2>6, <2>7
<1>4. QED
  BY <1>2, <1>3 DEF Within

-----------------------------------------------------------------------------
(* The inductive invariant of the rate limit.                              *)
THEOREM Invariance == Spec => []RInv
<1>1. RInv /\ [Next]_vars => RInv'
  BY TypeStep, OwingStep, StampStep, LayerStep, AgreeStep DEF RInv
<1>2. QED
  BY InitRate, <1>1, PTL DEF Spec

(* Concurrency and failures push a window beyond its limit by at most one  *)
(* largest weight each.                                                    *)
THEOREM OvershootSafety == Spec => []OvershootBound
<1>1. RInv => OvershootBound
  <2>. SUFFICES ASSUME RInv, NEW w \in Windows
       PROVE  Cardinality(entries[w]) <=
                Limit(w) - 1 + (Cardinality(Requests) + errors) * MaxWeight
    BY DEF OvershootBound
  <2>1. IsFiniteSet(entries[w]) /\ Cardinality(entries[w]) \in Nat
    BY FS_CardinalityType DEF RInv, OwingInv, Covered
  <2>2. Cardinality(Owing(w)) * MaxWeight \in Nat
    BY OwingIsFinite, WeightsAssumption
  <2>3. /\ Limit(w) \in Nat /\ errors \in Nat
        /\ (Cardinality(Requests) + errors) * MaxWeight \in Nat
    BY Constants, WeightsAssumption, BoundsAssumption DEF RInv, TypeOK
  <2>4. Cardinality(entries[w]) + Cardinality(Owing(w)) * MaxWeight <=
          Limit(w) - 1 + (Cardinality(Requests) + errors) * MaxWeight
    BY DEF RInv, OwingInv, Covered
  <2>5. QED
    BY <2>1, <2>2, <2>3, <2>4
<1>2. QED
  BY <1>1, Invariance, PTL

(* Without failures, no charge on the account escapes the delegate keys.   *)
THEOREM LayerSafety == Spec => []LayersAgree
<1>1. RInv => LayersAgree
  BY DEF RInv
<1>2. QED
  BY <1>1, Invariance, PTL

(* Without failures, no member is removed before its window has passed.    *)
THEOREM ForgettingSafety == Spec => ForgetsOnlyOld
<1>1. RInv /\ [Next]_vars =>
        [errors' = 0 =>
           \A w \in Windows : \A e \in entries[w] \ entries'[w] :
             e[1] <= clock - Span(w)]_vars
  BY Forgetting DEF RInv
<1>2. QED
  BY <1>1, Invariance, PTL DEF Spec, ForgetsOnlyOld

-----------------------------------------------------------------------------
(* The storage quota.                                                      *)
Entries == Uploads \X (0 .. MaxTries)

LEMMA EntriesFinite ==
  /\ IsFiniteSet(Entries)
  /\ \A E \in SUBSET Entries : IsFiniteSet(E)
<1>1. IsFiniteSet(0 .. MaxTries)
  BY QuotaBoundsAssumption, FS_Interval
<1>2. IsFiniteSet(Entries)
  BY <1>1, UploadsAssumption, FS_Product DEF Entries
<1>3. QED
  BY <1>2, FS_Subset

LEMMA EntryIsEntry ==
  ASSUME NEW u \in Uploads
  PROVE  Entry(u) \in Entries /\ Entry(u)[1] = u
BY QuotaBoundsAssumption DEF Entry, Entries

(* The bytes of one entry are finite, and as many as the blob has.         *)
LEMMA BytesOfEntry ==
  ASSUME NEW e \in Entries
  PROVE  IsFiniteSet(BytesOf(e)) /\ Cardinality(BytesOf(e)) = Size[e[1]]
<1>. DEFINE s == Size[e[1]]
<1>1. s \in Nat /\ s >= 1
  BY SizeAssumption DEF Entries
<1>. HIDE DEF s
<1>2. IsFiniteSet(1 .. s) /\ Cardinality(1 .. s) = s
  <2>1. /\ IsFiniteSet(1 .. s)
        /\ Cardinality(1 .. s) = IF 1 > s THEN 0 ELSE s - 1 + 1
    BY <1>1, FS_Interval
  <2>2. QED
    BY <1>1, <2>1
<1>3. IsFiniteSet({e}) /\ Cardinality({e}) = 1
  BY FS_Singleton
<1>4. /\ IsFiniteSet({e} \X (1 .. s))
      /\ Cardinality({e} \X (1 .. s)) = Cardinality({e}) * Cardinality(1 .. s)
  BY <1>2, <1>3, FS_Product
<1>5. Cardinality({e} \X (1 .. s)) = s
  BY <1>1, <1>2, <1>3, <1>4
<1>6. QED
  BY <1>4, <1>5 DEF BytesOf, s

BytesSet(E) == UNION {BytesOf(e) : e \in E}

LEMMA BytesSetFinite ==
  ASSUME NEW E \in SUBSET Entries
  PROVE  IsFiniteSet(BytesSet(E)) /\ Bytes(E) \in Nat
<1>. DEFINE T == {BytesOf(e) : e \in E}
            f == [e \in E |-> BytesOf(e)]
<1>1. f \in Surjection(E, T)
  BY DEF Surjection
<1>2. IsFiniteSet(T)
  BY <1>1, EntriesFinite, FS_Surjection
<1>3. \A t \in T : IsFiniteSet(t)
  BY BytesOfEntry
<1>4. IsFiniteSet(BytesSet(E))
  BY <1>2, <1>3, FS_UNION DEF BytesSet
<1>5. QED
  BY <1>4, FS_CardinalityType DEF Bytes, BytesSet

LEMMA BytesMonotone ==
  ASSUME NEW E \in SUBSET Entries, NEW D \in SUBSET E
  PROVE  Bytes(D) <= Bytes(E)
<1>1. BytesSet(D) \in SUBSET BytesSet(E)
  BY DEF BytesSet
<1>2. QED
  BY <1>1, BytesSetFinite, FS_Subset DEF Bytes, BytesSet

LEMMA BytesSubadditive ==
  ASSUME NEW D \in SUBSET Entries, NEW E \in SUBSET Entries
  PROVE  Bytes(D \cup E) <= Bytes(D) + Bytes(E)
<1>1. BytesSet(D \cup E) = BytesSet(D) \cup BytesSet(E)
  BY DEF BytesSet
<1>. DEFINE A == BytesSet(D)  B == BytesSet(E)
<1>2. IsFiniteSet(A) /\ IsFiniteSet(B)
  BY BytesSetFinite
<1>. HIDE DEF A, B
<1>3. Cardinality(A \cup B) = Cardinality(A) + Cardinality(B) - Cardinality(A \cap B)
  BY <1>2, FS_Union
<1>4. IsFiniteSet(A \cap B)
  BY <1>2, FS_Intersection
<1>5. Cardinality(A) \in Nat /\ Cardinality(B) \in Nat /\ Cardinality(A \cap B) \in Nat
  BY <1>2, <1>4, FS_CardinalityType
<1>6. Cardinality(A \cup B) <= Cardinality(A) + Cardinality(B)
  BY <1>3, <1>5
<1>7. QED
  BY <1>1, <1>6 DEF Bytes, BytesSet, A, B

LEMMA BytesOfOne ==
  ASSUME NEW u \in Uploads
  PROVE  Bytes({Entry(u)}) = Size[u]
<1>1. BytesSet({Entry(u)}) = BytesOf(Entry(u))
  BY DEF BytesSet
<1>2. QED
  BY <1>1, EntryIsEntry, BytesOfEntry DEF Bytes, BytesSet

-----------------------------------------------------------------------------
(* What is stored for requests that asked, and what may yet be.            *)
Charged == CheckedRows \cup InFlight

LEMMA ChargedIsEntries ==
  ASSUME QuotaTypeOK
  PROVE  /\ rows \in SUBSET Entries
         /\ CheckedRows \in SUBSET rows
         /\ InFlight \in SUBSET Entries
         /\ Charged \in SUBSET Entries
<1>1. rows \in SUBSET Entries
  BY DEF QuotaTypeOK, Entries
<1>2. InFlight \in SUBSET Entries
  BY EntryIsEntry, UploadsAssumption DEF InFlight, Checked
<1>3. QED
  BY <1>1, <1>2 DEF CheckedRows, Charged

(* A step that charges nothing new keeps the bound.                        *)
LEMMA ChargeShrinks ==
  ASSUME QuotaTypeOK, ChargeInv, Charged' \in SUBSET Charged, peak' = peak
  PROVE  ChargeInv'
<1>1. Max > 0 => Bytes(Charged) <= Max + peak
  BY DEF ChargeInv, Charged
<1>2. Bytes(Charged') <= Bytes(Charged)
  BY ChargedIsEntries, BytesMonotone
<1>3. Bytes(Charged) \in Nat /\ Bytes(Charged') \in Nat
  BY ChargedIsEntries, BytesSetFinite
<1>4. Max \in Nat /\ peak \in Nat
  BY QuotaBoundsAssumption DEF QuotaTypeOK
<1>5. Max > 0 => Bytes(Charged') <= Max + peak'
  BY <1>1, <1>2, <1>3, <1>4
<1>6. QED
  BY <1>5 DEF ChargeInv, Charged, Bytes, BytesOf

LEMMA SumOfThree ==
  ASSUME NEW a \in Nat, NEW b \in Nat, NEW ab \in Nat, NEW c \in Nat, NEW t \in Nat,
         NEW s \in Nat, NEW m \in Nat, NEW p \in Nat,
         a + s <= m, b <= p, ab <= a + b, t <= ab + s, c <= t
  PROVE  c <= m + p
OBVIOUS

(* The one admission that charges: the blob fits beside the rows, and the  *)
(* rest of what is charged is in flight and counted by peak.               *)
LEMMA ChargeAtAdmit ==
  ASSUME QuotaInv, QuotaTypeOK', NEW u \in Checked, Admit(u)
  PROVE  ChargeInv'
<1>. SUFFICES ASSUME Max > 0 PROVE Bytes(Charged') <= Max + peak'
  BY DEF ChargeInv, Charged, Bytes, BytesOf
<1>. DEFINE B == InFlight \ rows
            e == {Entry(u)}
<1>1. u \in Uploads /\ Size[u] \in Nat /\ Max \in Nat /\ peak \in Nat
  BY UploadsAssumption, SizeAssumption, QuotaBoundsAssumption DEF Checked, QuotaInv, QuotaTypeOK
<1>2. rows \in SUBSET Entries /\ B \in SUBSET Entries /\ e \in SUBSET Entries
  BY <1>1, ChargedIsEntries, EntryIsEntry DEF QuotaInv
<1>3. rows \cup B \in SUBSET Entries /\ (rows \cup B) \cup e \in SUBSET Entries
  BY <1>2
<1>4. Charged' \in SUBSET ((rows \cup B) \cup e)
  <2>1. pc' = [pc EXCEPT ![u] = "admitted"] /\ rows' = rows
    BY DEF Admit, Move
  <2>2. \A v \in Checked : pc'[v] \in {"admitted", "queued"} =>
             v = u \/ pc[v] \in {"admitted", "queued"}
    BY <2>1, UploadsAssumption DEF QuotaInv, QuotaTypeOK, Checked
  <2>3. InFlight' \in SUBSET (InFlight \cup e)
    BY <2>2 DEF InFlight, Entry
  <2>4. CheckedRows' \in SUBSET rows
    BY <2>1 DEF CheckedRows
  <2>5. QED
    BY <2>3, <2>4 DEF Charged
<1>5. /\ Bytes(rows) \in Nat /\ Bytes(B) \in Nat /\ Bytes(rows \cup B) \in Nat
      /\ Bytes(Charged') \in Nat /\ Bytes((rows \cup B) \cup e) \in Nat
  BY <1>2, <1>3, <1>4, BytesSetFinite
<1>6. Bytes(rows) + Size[u] <= Max
  BY <1>1 DEF Admit, Fits
<1>7. Bytes(B) <= peak' /\ peak' \in Nat
  <2>1. peak' = Highest(peak, Bytes(B))
    BY DEF Admit
  <2>2. QED
    BY <1>1, <1>5, <2>1 DEF Highest
<1>8. Bytes(rows \cup B) <= Bytes(rows) + Bytes(B)
  BY <1>2, BytesSubadditive
<1>9. Bytes((rows \cup B) \cup e) <= Bytes(rows \cup B) + Size[u]
  BY <1>1, <1>2, <1>3, BytesSubadditive, BytesOfOne
<1>10. Bytes(Charged') <= Bytes((rows \cup B) \cup e)
  BY <1>3, <1>4, BytesMonotone
<1>11. QED
  BY <1>1, <1>5, <1>6, <1>7, <1>8, <1>9, <1>10, SumOfThree

-----------------------------------------------------------------------------
LEMMA InitQuota == QuotaInit => QuotaInv
<1>. SUFFICES ASSUME QuotaInit PROVE QuotaInv
  OBVIOUS
<1>1. QuotaTypeOK
  BY QuotaBoundsAssumption DEF QuotaInit, QuotaTypeOK, Counters
<1>2. RowsInv
  BY DEF QuotaInit, RowsInv
<1>3. ChargeInv
  <2>1. Charged = {}
    BY UploadsAssumption DEF QuotaInit, Charged, CheckedRows, InFlight, Checked
  <2>2. Bytes({}) = 0
    BY FS_EmptySet DEF Bytes
  <2>3. QED
    BY <2>1, <2>2, QuotaBoundsAssumption DEF ChargeInv, Charged, QuotaInit
<1>4. QED
  BY <1>1, <1>2, <1>3 DEF QuotaInv

(* A step that moves one upload and stores at most its row.                *)
LEMMA MoveKeeps ==
  ASSUME QuotaInv, NEW u \in Uploads, NEW s \in Counters, NEW t \in Counters, Move(u, s, t),
         tries' \in [Uploads -> 0 .. MaxTries], peak' = peak,
         \/ rows' = rows /\ (s \in {"queued", "over"} => t \in {"queued", "over"})
         \/ rows' = rows \cup {Entry(u)} /\ t \in {"queued", "over"},
         Charged' \in SUBSET Charged
  PROVE  QuotaInv'
<1>1. pc' = [pc EXCEPT ![u] = t] /\ pc \in [Uploads -> Counters] /\ pc[u] = s
  BY DEF Move, QuotaInv, QuotaTypeOK
<1>2. Entry(u) \in Entries /\ Entry(u)[1] = u
  BY EntryIsEntry
<1>3. rows' \in SUBSET (rows \cup {Entry(u)}) /\ rows \in SUBSET Entries
  BY ChargedIsEntries DEF QuotaInv
<1>4. QuotaTypeOK'
  <2>1. pc' \in [Uploads -> Counters]
    BY <1>1
  <2>2. rows' \subseteq Uploads \X (0 .. MaxTries)
    BY <1>2, <1>3 DEF Entries
  <2>3. QED
    BY <2>1, <2>2 DEF QuotaTypeOK, QuotaInv
<1>5. RowsInv'
  <2>. SUFFICES ASSUME NEW r \in rows'
                PROVE  r = Entry(r[1]) /\ pc'[r[1]] \in {"queued", "over"}
    BY DEF RowsInv, Entry
  <2>1. CASE r \in rows
    <3>1. r = Entry(r[1]) /\ pc[r[1]] \in {"queued", "over"} /\ r[1] \in Uploads
      BY <2>1, <1>3 DEF QuotaInv, RowsInv, Entries
    <3>2. QED
      BY <1>1, <3>1
  <2>2. CASE r = Entry(u) /\ t \in {"queued", "over"}
    BY <1>1, <1>2, <2>2
  <2>3. QED
    BY <2>1, <2>2
<1>6. ChargeInv'
  BY ChargeShrinks DEF QuotaInv
<1>7. QED
  BY <1>4, <1>5, <1>6 DEF QuotaInv

LEMMA StillInFlight ==
  ASSUME QuotaTypeOK, NEW u \in Uploads, NEW t \in Counters, pc' = [pc EXCEPT ![u] = t],
         u \in Checked /\ t \in {"admitted", "queued"} => pc[u] \in {"admitted", "queued"}
  PROVE  InFlight' \in SUBSET InFlight
<1>1. \A v \in Checked : pc'[v] \in {"admitted", "queued"} => pc[v] \in {"admitted", "queued"}
  BY UploadsAssumption DEF QuotaTypeOK, Checked
<1>2. QED
  BY <1>1 DEF InFlight, Entry

LEMMA NextQuota == QuotaInv /\ [QuotaNext]_quotaVars => QuotaInv'
<1>. SUFFICES ASSUME QuotaInv, [QuotaNext]_quotaVars PROVE QuotaInv'
  OBVIOUS
<1>a. /\ QuotaTypeOK /\ RowsInv /\ ChargeInv
      /\ Checked \in SUBSET Uploads /\ Jobs \in SUBSET Checked /\ Manual \in SUBSET Checked
  BY UploadsAssumption DEF QuotaInv, Checked
<1>b. ASSUME rows' = rows, InFlight' \in SUBSET InFlight
      PROVE  Charged' \in SUBSET Charged
  BY <1>b DEF Charged, CheckedRows
<1>c. ASSUME NEW u \in Checked, pc[u] \in {"admitted", "queued"},
             rows' = rows \cup {Entry(u)}, InFlight' \in SUBSET InFlight
      PROVE  Charged' \in SUBSET Charged
  <2>1. Entry(u) \in InFlight
    BY <1>c DEF InFlight
  <2>2. QED
    BY <1>c, <2>1 DEF Charged, CheckedRows
<1>1. ASSUME NEW u \in Checked, Ask(u) PROVE QuotaInv'
  <2>1. Move(u, "idle", "check") /\ UNCHANGED <<tries, rows, peak>>
    BY <1>1 DEF Ask
  <2>2. InFlight' \in SUBSET InFlight
    BY <1>a, <2>1, StillInFlight DEF Move, Counters
  <2>3. Charged' \in SUBSET Charged
    BY <1>b, <2>1, <2>2
  <2>4. QED
    BY <1>a, <2>1, <2>3, MoveKeeps DEF Counters, QuotaTypeOK
<1>2. ASSUME NEW u \in Checked, Admit(u) PROVE QuotaInv'
  <2>1. Move(u, "check", "admitted") /\ UNCHANGED <<tries, rows>>
    BY <1>2 DEF Admit
  <2>2. peak' \in Nat
    <3>1. Bytes(InFlight \ rows) \in Nat
      BY <1>a, ChargedIsEntries, BytesSetFinite
    <3>2. QED
      BY <1>a, <1>2, <3>1 DEF Admit, Highest, QuotaTypeOK
  <2>3. QuotaTypeOK'
    <3>1. pc' \in [Uploads -> Counters]
      BY <1>a, <2>1 DEF Move, QuotaTypeOK, Counters
    <3>2. QED
      BY <1>a, <2>1, <2>2, <3>1 DEF QuotaTypeOK
  <2>4. RowsInv'
    <3>. SUFFICES ASSUME NEW r \in rows
                  PROVE  r = Entry(r[1]) /\ pc'[r[1]] \in {"queued", "over"}
      BY <2>1 DEF RowsInv, Entry
    <3>1. r = Entry(r[1]) /\ pc[r[1]] \in {"queued", "over"}
      BY <1>a DEF RowsInv
    <3>2. r[1] # u
      BY <2>1, <3>1 DEF Move
    <3>3. QED
      BY <1>a, <2>1, <3>1, <3>2 DEF Move, QuotaTypeOK
  <2>5. ChargeInv'
    BY <1>2, <2>3, ChargeAtAdmit
  <2>6. QED
    BY <2>3, <2>4, <2>5 DEF QuotaInv
<1>3. ASSUME NEW u \in Checked, Refuse(u) PROVE QuotaInv'
  <2>1. Move(u, "check", "over") /\ UNCHANGED <<tries, rows, peak>>
    BY <1>3 DEF Refuse
  <2>2. InFlight' \in SUBSET InFlight
    BY <1>a, <2>1, StillInFlight DEF Move, Counters
  <2>3. Charged' \in SUBSET Charged
    BY <1>b, <2>1, <2>2
  <2>4. QED
    BY <1>a, <2>1, <2>3, MoveKeeps DEF Counters, QuotaTypeOK
<1>4. ASSUME NEW u \in Jobs, Enqueue(u) PROVE QuotaInv'
  <2>0. PICK t \in {"queued", "over"} :
           Move(u, "admitted", t) /\ UNCHANGED <<tries, rows, peak>>
    BY <1>4 DEF Enqueue
  <2>1. t \in Counters /\ "admitted" \in Counters /\ u \in Uploads
    BY <1>a DEF Counters
  <2>2. InFlight' \in SUBSET InFlight
    BY <1>a, <2>0, <2>1, StillInFlight DEF Move
  <2>3. Charged' \in SUBSET Charged
    BY <1>b, <2>0, <2>2
  <2>4. QED
    BY <1>a, <2>0, <2>1, <2>3, MoveKeeps DEF QuotaTypeOK
<1>5. ASSUME NEW u \in Jobs, Execute(u) PROVE QuotaInv'
  <2>0. PICK t \in {"queued", "over"} : Move(u, "queued", t)
    BY <1>5 DEF Execute
  <2>1. t \in Counters /\ "queued" \in Counters /\ u \in Uploads /\ u \in Checked
    BY <1>a DEF Counters
  <2>2. tries' \in [Uploads -> 0 .. MaxTries] /\ peak' = peak
    <3>1. tries' = [tries EXCEPT ![u] = tries[u] + 1] /\ tries[u] < MaxTries /\ peak' = peak
      BY <1>5 DEF Execute
    <3>2. tries[u] + 1 \in 0 .. MaxTries
      BY <1>a, <2>1, <3>1, QuotaBoundsAssumption DEF QuotaTypeOK
    <3>3. QED
      BY <1>a, <3>1, <3>2 DEF QuotaTypeOK
  <2>3. InFlight' \in SUBSET InFlight
    BY <1>a, <2>0, <2>1, StillInFlight DEF Move
  <2>4. CASE rows' = rows
    <3>1. Charged' \in SUBSET Charged
      BY <1>b, <2>3, <2>4
    <3>2. QED
      BY <2>0, <2>1, <2>2, <2>4, <3>1, MoveKeeps
  <2>5. CASE rows' = rows \cup {Entry(u)}
    <3>1. Charged' \in SUBSET Charged
      BY <1>c, <2>0, <2>1, <2>3, <2>5 DEF Move
    <3>2. QED
      BY <2>0, <2>1, <2>2, <2>5, <3>1, MoveKeeps
  <2>6. QED
    BY <1>5, <2>4, <2>5 DEF Execute
<1>6. ASSUME NEW u \in Manual, InsertManual(u) PROVE QuotaInv'
  <2>1. Move(u, "admitted", "over") /\ UNCHANGED <<tries, peak>>
    BY <1>6 DEF InsertManual
  <2>2. u \in Checked /\ u \in Uploads /\ "admitted" \in Counters /\ "over" \in Counters
    BY <1>a DEF Counters
  <2>3. InFlight' \in SUBSET InFlight
    BY <1>a, <2>1, <2>2, StillInFlight DEF Move
  <2>4. CASE rows' = rows
    <3>1. Charged' \in SUBSET Charged
      BY <1>b, <2>3, <2>4
    <3>2. QED
      BY <1>a, <2>1, <2>2, <2>4, <3>1, MoveKeeps DEF QuotaTypeOK
  <2>5. CASE rows' = rows \cup {Entry(u)}
    <3>1. Charged' \in SUBSET Charged
      BY <1>c, <2>1, <2>2, <2>3, <2>5 DEF Move
    <3>2. QED
      BY <1>a, <2>1, <2>2, <2>5, <3>1, MoveKeeps DEF QuotaTypeOK
  <2>6. QED
    BY <1>6, <2>4, <2>5 DEF InsertManual
<1>7. ASSUME NEW u \in Unchecked, InsertUnchecked(u) PROVE QuotaInv'
  <2>1. /\ Move(u, "idle", "over") /\ UNCHANGED <<tries, peak>>
        /\ rows' = rows \cup {Entry(u)}
    BY <1>7 DEF InsertUnchecked
  <2>2. u \in Uploads /\ u \notin Checked /\ "idle" \in Counters /\ "over" \in Counters
    BY DEF Unchecked, Counters
  <2>3. InFlight' \in SUBSET InFlight
    BY <1>a, <2>1, <2>2, StillInFlight DEF Move
  <2>4. CheckedRows' = CheckedRows
    BY <2>1, <2>2, EntryIsEntry DEF CheckedRows
  <2>5. Charged' \in SUBSET Charged
    BY <2>3, <2>4 DEF Charged
  <2>6. QED
    BY <1>a, <2>1, <2>2, <2>5, MoveKeeps DEF QuotaTypeOK
<1>8. ASSUME NEW u \in Uploads, Cleanup(u) PROVE QuotaInv'
  <2>1. rows' \in SUBSET rows /\ UNCHANGED <<pc, tries, peak>>
    BY <1>8 DEF Cleanup
  <2>2. QuotaTypeOK'
    BY <1>a, <2>1 DEF QuotaTypeOK
  <2>3. RowsInv'
    BY <1>a, <2>1 DEF RowsInv, Entry
  <2>4. Charged' \in SUBSET Charged
    BY <2>1 DEF Charged, CheckedRows, InFlight, Entry
  <2>5. QED
    BY <1>a, <2>1, <2>2, <2>3, <2>4, ChargeShrinks DEF QuotaInv
<1>9. ASSUME Crash PROVE QuotaInv'
  <2>1. /\ pc' = [u \in Uploads |-> IF pc[u] \in {"check", "admitted"} THEN "over" ELSE pc[u]]
        /\ UNCHANGED <<tries, rows, peak>>
    BY <1>9 DEF Crash
  <2>2. pc' \in [Uploads -> Counters]
    BY <1>a, <2>1 DEF QuotaTypeOK, Counters
  <2>3. QuotaTypeOK'
    BY <1>a, <2>1, <2>2 DEF QuotaTypeOK
  <2>4. RowsInv'
    <3>. SUFFICES ASSUME NEW r \in rows
                  PROVE  r = Entry(r[1]) /\ pc'[r[1]] \in {"queued", "over"}
      BY <2>1 DEF RowsInv, Entry
    <3>1. r = Entry(r[1]) /\ pc[r[1]] \in {"queued", "over"} /\ r[1] \in Uploads
      BY <1>a, ChargedIsEntries DEF RowsInv, Entries
    <3>2. QED
      BY <2>1, <3>1
  <2>5. InFlight' \in SUBSET InFlight
    <3>1. \A v \in Checked : pc'[v] \in {"admitted", "queued"} => pc[v] \in {"admitted", "queued"}
      BY <1>a, <2>1
    <3>2. QED
      BY <3>1 DEF InFlight, Entry
  <2>6. Charged' \in SUBSET Charged
    BY <1>b, <2>1, <2>5
  <2>7. QED
    BY <1>a, <2>1, <2>3, <2>4, <2>6, ChargeShrinks DEF QuotaInv
<1>10. CASE UNCHANGED quotaVars
  BY <1>a, <1>10 DEF quotaVars, QuotaInv, QuotaTypeOK, RowsInv, ChargeInv, CheckedRows, InFlight,
                     Entry, Bytes, BytesOf
<1>11. QED
  BY <1>1, <1>2, <1>3, <1>4, <1>5, <1>6, <1>7, <1>8, <1>9, <1>10 DEF QuotaNext

(* The inductive invariant: the one id of an upload, which has asked, and  *)
(* the bound of what is charged.                                           *)
THEOREM QuotaInvariance == QuotaSpec => []QuotaInv
BY InitQuota, NextQuota, PTL DEF QuotaSpec

(* The rows that were asked for exceed the quota by at most what was       *)
(* admitted and not yet stored at an admission.                            *)
THEOREM QuotaSafety == QuotaSpec => []QuotaOvershoot
<1>1. QuotaInv => QuotaOvershoot
  <2>. SUFFICES ASSUME QuotaInv, Max > 0 PROVE Bytes(CheckedRows) <= Max + peak
    BY DEF QuotaOvershoot
  <2>1. QuotaTypeOK /\ CheckedRows \in SUBSET Charged /\ Bytes(Charged) <= Max + peak
    BY DEF QuotaInv, ChargeInv, Charged
  <2>2. /\ Bytes(CheckedRows) <= Bytes(Charged)
        /\ Bytes(CheckedRows) \in Nat /\ Bytes(Charged) \in Nat
    BY <2>1, ChargedIsEntries, BytesMonotone, BytesSetFinite
  <2>3. Max \in Nat /\ peak \in Nat
    BY <2>1, QuotaBoundsAssumption DEF QuotaTypeOK
  <2>4. QED
    BY <2>1, <2>2, <2>3
<1>2. QED
  BY <1>1, QuotaInvariance, PTL
=============================================================================
