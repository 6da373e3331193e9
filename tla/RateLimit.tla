----------------------------- MODULE RateLimit -----------------------------
(***************************************************************************)
(* The rate limit of one account: each request checks three sliding        *)
(* windows in Redis, that of its delegate key, the account's burst and the *)
(* account's hour, and then records its weight in each.  The six calls are *)
(* separate, so other requests come between them.                          *)
(***************************************************************************)
EXTENDS Integers, FiniteSets

CONSTANTS
  Requests,    \* places for requests of the account, used again and again
  Keys,        \* the delegate keys of the account
  Weights,     \* values of endpoint_weight
  MaxWeight,   \* the largest of them
  KeyLimit, BurstLimit, HourLimit,
  Minute, Hour,        \* the spans of the windows
  MinuteTtl, HourTtl,  \* the EXPIRE of their keys
  MaxTime,     \* bound: the clock stops there
  MaxErrors    \* bound: failed Redis calls

Windows == Keys \cup {"burst", "hour"}

ASSUME RequestsAssumption == IsFiniteSet(Requests)
ASSUME KeysAssumption == "burst" \notin Keys /\ "hour" \notin Keys
ASSUME WeightsAssumption ==
  MaxWeight \in Nat /\ \A n \in Weights : n \in Nat /\ n <= MaxWeight
ASSUME LimitsAssumption ==
  /\ KeyLimit \in Nat \ {0}
  /\ BurstLimit \in Nat \ {0}
  /\ HourLimit \in Nat \ {0}
ASSUME SpansAssumption ==
  /\ Minute \in Nat /\ Hour \in Nat /\ Minute <= Hour
  /\ MinuteTtl \in Nat /\ Minute <= MinuteTtl
  /\ HourTtl \in Nat /\ Hour <= HourTtl
ASSUME BoundsAssumption == MaxTime \in Nat /\ MaxErrors \in Nat

VARIABLES
  clock,     \* milliseconds, as the relayer and Redis read them
  entries,   \* entries[w]: the members of the sorted set, <<now, offset>>
  deadline,  \* deadline[w]: when the key of w expires, 0 if never
  mw,        \* mw[r]: the middleware's call for r, or Idle
  errors     \* failed calls so far

vars == <<clock, entries, deadline, mw, errors>>

Idle == [phase |-> "idle"]

Call(phase, layer, now, key, weight) ==
  [phase |-> phase, layer |-> layer, now |-> now, key |-> key, weight |-> weight]

Calls == [phase : {"check", "record"}, layer : 1..3, now : 1..MaxTime,
          key : Keys, weight : Weights]

TypeOK ==
  /\ clock \in 1..(MaxTime + 1)
  /\ entries \in [Windows -> SUBSET ((1..MaxTime) \X Nat)]
  /\ deadline \in [Windows -> Nat]
  /\ mw \in [Requests -> Calls \cup {Idle}]
  /\ errors \in 0..MaxErrors

Init ==
  /\ clock = 1
  /\ entries = [w \in Windows |-> {}]
  /\ deadline = [w \in Windows |-> 0]
  /\ mw = [r \in Requests |-> Idle]
  /\ errors = 0

-----------------------------------------------------------------------------
Limit(w) ==
  IF w = "hour" THEN HourLimit ELSE IF w = "burst" THEN BurstLimit ELSE KeyLimit

Span(w) == IF w = "hour" THEN Hour ELSE Minute

LifetimeOfMinutes(w) == MinuteTtl

Lifetime(w) == IF w = "hour" THEN HourTtl ELSE MinuteTtl

(* The window of layer n of a call.                                        *)
WindowHourFirst(c, n) ==
  IF n = 1 THEN "hour" ELSE IF n = 2 THEN "burst" ELSE c.key

Window(c, n) ==
  IF n = 1 THEN c.key ELSE IF n = 2 THEN "burst" ELSE "hour"

(* Scores are now + 0.001 * offset, plus 0.1 and 0.2 in the account's      *)
(* windows; ZREMRANGEBYSCORE removes those up to the start of the window.  *)
Old(w, e, start) ==
  e[1] < start \/ (e[1] = start /\ e[2] = 0 /\ w \in Keys)

Recent(w, now) == {e \in entries[w] : ~Old(w, e, now - Span(w))}

(* Redis drops a key, and its expiry with it, when its set is empty.       *)
Prune(w, now) ==
  /\ entries' = [entries EXCEPT ![w] = Recent(w, now)]
  /\ deadline' = [deadline EXCEPT ![w] = IF Recent(w, now) = {} THEN 0 ELSE @]

Offsets(n) == 0..(n - 1)

Charge(c, n) == {c.now} \X Offsets(n)

Fail == errors < MaxErrors /\ errors' = errors + 1

-----------------------------------------------------------------------------
Arrive(r, k, n) ==
  /\ mw[r] = Idle
  /\ clock <= MaxTime
  /\ mw' = [mw EXCEPT ![r] = Call("check", 1, clock, k, n)]
  /\ UNCHANGED <<clock, entries, deadline, errors>>

(* What follows a layer: the next one, the recording, the handler.         *)
Onward(c) ==
  IF c.layer < 3 THEN [c EXCEPT !.layer = @ + 1]
  ELSE IF c.phase = "check" THEN Call("record", 1, c.now, c.key, c.weight)
  ELSE Idle

Proceed(r) == mw' = [mw EXCEPT ![r] = Onward(mw[r])]

(* One atomic ZREMRANGEBYSCORE and ZCARD; at the limit the answer is 429,  *)
(* an error lets the request pass.                                         *)
CheckOffByOne(r) ==
  /\ mw[r].phase = "check"
  /\ LET w == Window(mw[r], mw[r].layer) IN
       \/ /\ Prune(w, mw[r].now)
          /\ IF Cardinality(Recent(w, mw[r].now)) > Limit(w)
             THEN mw' = [mw EXCEPT ![r] = Idle] ELSE Proceed(r)
          /\ UNCHANGED errors
       \/ /\ Prune(w, mw[r].now) \/ UNCHANGED <<entries, deadline>>
          /\ Proceed(r)
          /\ Fail
  /\ UNCHANGED clock

Check(r) ==
  /\ mw[r].phase = "check"
  /\ LET w == Window(mw[r], mw[r].layer) IN
       \/ /\ Prune(w, mw[r].now)
          /\ IF Cardinality(Recent(w, mw[r].now)) >= Limit(w)
             THEN mw' = [mw EXCEPT ![r] = Idle] ELSE Proceed(r)
          /\ UNCHANGED errors
       \/ /\ Prune(w, mw[r].now) \/ UNCHANGED <<entries, deadline>>
          /\ Proceed(r)
          /\ Fail
  /\ UNCHANGED clock

(* ZADDs and EXPIRE in a pipeline that is not atomic: an error may follow  *)
(* any number of them.                                                     *)
Record(r) ==
  /\ mw[r].phase = "record"
  /\ LET w == Window(mw[r], mw[r].layer)
         Add(n) == entries' = [entries EXCEPT ![w] = @ \cup Charge(mw[r], n)]
     IN \/ /\ Add(mw[r].weight)
           /\ deadline' = [deadline EXCEPT ![w] = clock + Lifetime(w)]
           /\ errors' = errors \/ Fail
        \/ /\ \E n \in 0..mw[r].weight : Add(n)
           /\ UNCHANGED deadline
           /\ Fail
  /\ Proceed(r)
  /\ UNCHANGED clock

(* The client leaves, or the process dies: the call is never continued.    *)
Dropped(r) ==
  /\ mw[r] # Idle
  /\ mw' = [mw EXCEPT ![r] = Idle]
  /\ UNCHANGED <<clock, entries, deadline, errors>>

Expire(w) ==
  /\ 0 < deadline[w] /\ deadline[w] <= clock
  /\ entries' = [entries EXCEPT ![w] = {}]
  /\ deadline' = [deadline EXCEPT ![w] = 0]
  /\ UNCHANGED <<clock, mw, errors>>

Tick ==
  /\ clock <= MaxTime
  /\ clock' = clock + 1
  /\ UNCHANGED <<entries, deadline, mw, errors>>

-----------------------------------------------------------------------------
Middleware(r) ==
  \/ \E k \in Keys, n \in Weights : Arrive(r, k, n)
  \/ Check(r)
  \/ Record(r)
  \/ Dropped(r)

Next ==
  \/ \E r \in Requests : Middleware(r)
  \/ \E w \in Windows : Expire(w)
  \/ Tick

Spec == Init /\ [][Next]_vars

-----------------------------------------------------------------------------
(* How far concurrent requests and failed calls can push a window beyond   *)
(* its limit: by one largest weight for each request in the middleware and *)
(* for each failure, and by nothing else that may happen.                  *)
OvershootBound ==
  \A w \in Windows :
    Cardinality(entries[w]) <=
      Limit(w) - 1 + (Cardinality(Requests) + errors) * MaxWeight

(* Without Redis errors a member disappears, by the pruning of a request   *)
(* with an old `now` or by the expiry of its key, only when its window has *)
(* passed.                                                                 *)
ForgetsOnlyOld ==
  [][errors' = 0 =>
       \A w \in Windows : \A e \in entries[w] \ entries'[w] :
         e[1] <= clock - Span(w)]_vars

Within(w, span) == {e \in entries[w] : e[1] > clock - span}

(* Without Redis errors, whatever requests are dropped half-way, what the  *)
(* account is charged in the last minute some key of it is charged too: a  *)
(* client cannot use up the account while its key has nothing to pay.      *)
LayersAgree ==
  errors = 0 =>
    /\ Within("hour", Minute) \subseteq entries["burst"]
    /\ Within("burst", Minute) \subseteq UNION {entries[k] : k \in Keys}

-----------------------------------------------------------------------------
(* The calls that have passed the check of w and not yet recorded in it.   *)
Owes(c, w) ==
  /\ c # Idle
  /\ \E n \in 1..3 :
       /\ Window(c, n) = w
       /\ IF c.phase = "check" THEN n < c.layer ELSE c.layer <= n

Owing(w) == {r \in Requests : Owes(mw[r], w)}

(* What the calls under way may still add is within the overshoot.         *)
Covered(w) ==
  /\ IsFiniteSet(entries[w])
  /\ Cardinality(entries[w]) + Cardinality(Owing(w)) * MaxWeight <=
       Limit(w) - 1 + (Cardinality(Requests) + errors) * MaxWeight

OwingInv == \A w \in Windows : Covered(w)

(* Nothing is stamped later than the clock, nor outlived by its key.       *)
StampInv ==
  /\ \A r \in Requests : mw[r] # Idle => mw[r].now <= clock
  /\ \A w \in Windows : \A e \in entries[w] :
       /\ e[1] <= clock
       /\ errors = 0 => deadline[w] # 0 /\ e[1] + Lifetime(w) <= deadline[w]

(* A call that is recording has left its charge in the layers before.      *)
LayerInv ==
  errors = 0 =>
    \A r \in Requests : mw[r].phase = "record" /\ mw[r].now > clock - Minute =>
      \A n \in 1..3 : n < mw[r].layer =>
        Charge(mw[r], mw[r].weight) \subseteq entries[Window(mw[r], n)]

(* The inductive invariant behind these properties.                        *)
RInv == TypeOK /\ OwingInv /\ StampInv /\ LayerInv /\ LayersAgree
=============================================================================
