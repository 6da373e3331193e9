------------------------- MODULE McpSessions_proofs -------------------------
(***************************************************************************)
(* The accounting of MCP session slots, for every set of connections and   *)
(* addresses and every value of the caps.                                  *)
(***************************************************************************)
EXTENDS McpSessions, FiniteSetTheorems, TLAPS

(* Sets of connections are finite.                                         *)
LEMMA FiniteConns ==
  /\ IsFiniteSet(Conns)
  /\ \A S \in SUBSET Conns : IsFiniteSet(S) /\ Cardinality(S) \in Nat
<1>1. IsFiniteSet(Conns)
  BY ConnsAssumption, FS_Union DEF Conns
<1>2. QED
  BY <1>1, FS_Subset, FS_CardinalityType

(* The initial state satisfies the inductive invariant.                    *)
LEMMA InitMInv == Init => MInv
<1>. SUFFICES ASSUME Init PROVE MInv
  OBVIOUS
<1>1. TypeOK
  <2>1. opens \in [Ips -> SUBSET Conns] /\ openedAt \in [Conns -> 0 .. MaxTime]
    BY TimeAssumption DEF Init
  <2>2. active \in [Ips -> 0 .. MaxPerIp] /\ total \in 0 .. MaxTotal
    BY LimitsAssumption DEF Init
  <2>3. gone \subseteq Sse /\ sessions \subseteq Conns /\ known \subseteq Ips
    BY DEF Init
  <2>4. /\ pc \in [Conns -> {"idle", "auth", "setup", "serving", "closing", "open", "over"}]
        /\ slot \in [Conns -> {"none", "held", "released"}]
    BY DEF Init
  <2>5. now \in 0 .. MaxTime /\ ip \in [Conns -> Ips]
    BY TimeAssumption DEF Init
  <2>6. stopping \in BOOLEAN
    BY Zenon DEF Init
  <2>7. QED
    BY <2>1, <2>2, <2>3, <2>4, <2>5, <2>6 DEF TypeOK
<1>2. SlotInv
  BY DEF Init, SlotInv
<1>3. Held = {}
  BY DEF Init, Held
<1>4. \A i \in Ips : HeldBy(i) = {}
  BY <1>3 DEF HeldBy
<1>5. CountersMatchSlots
  BY <1>3, <1>4, FS_EmptySet DEF Init, CountersMatchSlots
<1>6. OpensInv /\ BurstBound
  BY DEF Init, OpensInv, BurstBound
<1>7. QED
  BY <1>1, <1>2, <1>5, <1>6 DEF MInv

-----------------------------------------------------------------------------
(* What a step may do to the limiter: nothing but prune one address, grant *)
(* a slot to a connection that had none, or run a closure of releaseFn.    *)
Idle ==
  /\ UNCHANGED <<slot, known, active, openedAt, total>>
  /\ UNCHANGED opens \/ \E i \in Ips : Prune(i)
  /\ now' = now \/ UNCHANGED opens
  /\ now' \in {now, now + 1} /\ now' \in 0 .. MaxTime

Granting ==
  /\ UNCHANGED now
  /\ \E c \in Conns : slot[c] = "none" /\ pc[c] # "over" /\ Acquired(c, ip[c])

Releasing == UNCHANGED now /\ \E c \in Conns : slot[c] # "none" /\ ReleaseSlot(c)

LEMMA LimiterStep ==
  ASSUME MInv, [Next]_vars
  PROVE  UNCHANGED ip /\ (Idle \/ Granting \/ Releasing)
<1>. USE DEF MInv, limiterVars
<1>1. now \in 0 .. MaxTime
  BY DEF TypeOK
<1>2. ASSUME NEW c \in Conns, UNCHANGED <<ip, now>>, Cleanup(c)
      PROVE  UNCHANGED ip /\ (Idle \/ Releasing)
  BY <1>1, <1>2 DEF Cleanup, Idle, Releasing, SlotInv
<1>3. ASSUME UNCHANGED <<ip, now, limiterVars>> PROVE UNCHANGED ip /\ Idle
  BY <1>1, <1>3 DEF Idle
<1>4. ASSUME NEW c \in Conns, UNCHANGED <<ip, now>>, Denied(ip[c])
      PROVE  UNCHANGED ip /\ Idle
  BY <1>1, <1>4 DEF Denied, Idle, TypeOK
<1>5. ASSUME NEW c \in Conns, UNCHANGED <<ip, now>>, slot[c] = "none", pc[c] # "over",
             Acquired(c, ip[c])
      PROVE  UNCHANGED ip /\ Granting
  BY <1>5 DEF Granting
<1>6. ASSUME NEW c \in Conns, UNCHANGED <<ip, now>>, slot[c] # "none", ReleaseSlot(c)
      PROVE  UNCHANGED ip /\ Releasing
  BY <1>6 DEF Releasing
<1>7. ASSUME NEW c \in Sse, SseArrives(c)
      PROVE  UNCHANGED ip /\ (Idle \/ Granting)
  BY <1>4, <1>5, <1>7 DEF SseArrives, Step, SlotInv, Conns
<1>8. ASSUME NEW c \in Sse, SseRefused(c) PROVE UNCHANGED ip /\ Releasing
  BY <1>6, <1>8 DEF SseRefused, Step, SlotInv, Conns
<1>9. ASSUME NEW c \in Sse, SseCloses(c)
      PROVE  UNCHANGED ip /\ (Idle \/ Releasing)
  BY <1>2, <1>3, <1>9 DEF SseCloses, Conns
<1>10. ASSUME NEW c \in Http, HttpAuthorized(c)
       PROVE  UNCHANGED ip /\ (Idle \/ Granting)
  <2>1. c \in Conns /\ c \notin Sse
    BY ConnsAssumption DEF Conns
  <2>2. slot[c] = "none" /\ UNCHANGED <<ip, now>>
    BY <1>10, <2>1 DEF HttpAuthorized, Step, SlotInv
  <2>3. QED
    BY <1>3, <1>4, <1>5, <1>10, <2>1, <2>2 DEF HttpAuthorized, Step
<1>11. ASSUME NEW c \in Http, HttpReturns(c)
       PROVE  UNCHANGED ip /\ (Idle \/ Releasing)
  BY <1>3, <1>6, <1>11 DEF HttpReturns, Step, SlotInv, Conns
<1>12. ASSUME NEW c \in Http, HttpCloses(c) PROVE UNCHANGED ip /\ Releasing
  BY <1>6, <1>12 DEF HttpCloses, Step, SlotInv, Conns
<1>13. ASSUME NEW c \in Http, HttpDeletes(c)
       PROVE  UNCHANGED ip /\ (Idle \/ Releasing)
  BY <1>2, <1>13 DEF HttpDeletes, Conns
<1>14. ASSUME NEW c \in Conns, ShutdownCloses(c)
       PROVE  UNCHANGED ip /\ (Idle \/ Releasing)
  BY <1>2, <1>14 DEF ShutdownCloses
<1>15. ASSUME Tick PROVE UNCHANGED ip /\ Idle
  BY <1>15, TimeAssumption DEF Tick, Idle, TypeOK
<1>16. ASSUME NEW c \in Conns, SseOpens(c) \/ HttpArrives(c) \/ HttpInitialized(c)
       PROVE  UNCHANGED ip /\ Idle
  BY <1>3, <1>16 DEF SseOpens, HttpArrives, HttpInitialized
<1>17. ASSUME Shutdown PROVE UNCHANGED ip /\ Idle
  BY <1>3, <1>17 DEF Shutdown
<1>18. ASSUME UNCHANGED vars PROVE UNCHANGED ip /\ Idle
  BY <1>3, <1>18 DEF vars
<1>19. QED
  BY <1>7, <1>8, <1>9, <1>10, <1>11, <1>12, <1>13, <1>14, <1>15, <1>16, <1>17, <1>18
     DEF Next, SseHandler, HttpHandler, Conns

-----------------------------------------------------------------------------
(* Granting a slot keeps the counters equal to the slots that are held.    *)
LEMMA GrantCounts ==
  ASSUME MInv, NEW c \in Conns, slot[c] = "none", UNCHANGED ip, Acquired(c, ip[c])
  PROVE  CountersMatchSlots'
<1>. USE DEF MInv
<1>1. /\ slot' = [slot EXCEPT ![c] = "held"]
      /\ active' = [active EXCEPT ![ip[c]] = @ + 1]
      /\ total' = total + 1
      /\ known' = known \cup {ip[c]}
  BY DEF Acquired, Grant
<1>2. Held' = Held \cup {c} /\ c \notin Held
  BY <1>1 DEF Held, TypeOK
<1>3. \A i \in Ips : HeldBy(i)' = IF i = ip[c] THEN HeldBy(i) \cup {c} ELSE HeldBy(i)
  BY <1>2 DEF HeldBy
<1>4. IsFiniteSet(Held) /\ \A i \in Ips : IsFiniteSet(HeldBy(i)) /\ c \notin HeldBy(i)
  BY <1>2, FiniteConns DEF Held, HeldBy
<1>5. total' = Cardinality(Held')
  BY <1>1, <1>2, <1>4, FS_AddElement DEF CountersMatchSlots
<1>6. ASSUME NEW i \in Ips PROVE active'[i] = Cardinality(HeldBy(i)')
  <2>1. Cardinality(HeldBy(i) \cup {c}) = Cardinality(HeldBy(i)) + 1
    BY <1>4, FS_AddElement
  <2>2. active[i] = Cardinality(HeldBy(i))
    BY DEF CountersMatchSlots
  <2>3. QED
    BY <1>1, <1>3, <2>1, <2>2 DEF TypeOK
<1>7. \A d \in Held' : ip'[d] \in known'
  BY <1>1, <1>2 DEF CountersMatchSlots
<1>8. QED
  BY <1>1, <1>5, <1>6, <1>7 DEF CountersMatchSlots

(* The first call of a release closure gives back one slot and forgets the *)
(* address only when it holds none; the next calls change nothing.         *)
LEMMA ReleaseCounts ==
  ASSUME MInv, NEW c \in Conns, slot[c] # "none", UNCHANGED ip, ReleaseSlot(c)
  PROVE  CountersMatchSlots'
<1>. USE DEF MInv
<1>1. CASE slot[c] = "released"
  <2>1. UNCHANGED <<slot, known, active, total, ip>>
    BY <1>1 DEF ReleaseSlot
  <2>2. QED
    BY <2>1 DEF CountersMatchSlots, Held, HeldBy
<1>2. CASE slot[c] = "held"
  <2>1. slot' = [slot EXCEPT ![c] = "released"] /\ Release(ip[c])
    BY <1>2 DEF ReleaseSlot
  <2>2. c \in Held /\ ip[c] \in known /\ ip[c] \in Ips /\ c \in HeldBy(ip[c])
    BY <1>2 DEF Held, HeldBy, CountersMatchSlots, TypeOK
  <2>3. Held' = Held \ {c}
    BY <2>1 DEF Held, TypeOK
  <2>4. \A i \in Ips : HeldBy(i)' = IF i = ip[c] THEN HeldBy(i) \ {c} ELSE HeldBy(i)
    BY <2>3 DEF HeldBy
  <2>5. /\ IsFiniteSet(Held) /\ Cardinality(Held) \in Nat
        /\ \A i \in Ips : IsFiniteSet(HeldBy(i)) /\ Cardinality(HeldBy(i)) \in Nat
    BY FiniteConns DEF Held, HeldBy
  <2>6. Cardinality(Held) # 0 /\ Cardinality(HeldBy(ip[c])) # 0
    BY <2>2, <2>5, FS_EmptySet
  <2>7. active[ip[c]] # 0 /\ total # 0
    BY <2>2, <2>6 DEF CountersMatchSlots
  <2>8. /\ active' = [active EXCEPT ![ip[c]] = @ - 1]
        /\ total' = total - 1
        /\ known' = IF active[ip[c]] - 1 = 0 /\ opens[ip[c]] = {}
                    THEN known \ {ip[c]} ELSE known
    BY <2>1, <2>2, <2>7 DEF Release
  <2>9. total' = Cardinality(Held')
    BY <2>2, <2>3, <2>5, <2>8, FS_RemoveElement DEF CountersMatchSlots
  <2>10. ASSUME NEW i \in Ips PROVE active'[i] = Cardinality(HeldBy(i)')
    <3>1. CASE i = ip[c]
      <4>1. Cardinality(HeldBy(i) \ {c}) = Cardinality(HeldBy(i)) - 1
        BY <2>2, <2>5, <3>1, FS_RemoveElement
      <4>2. active[i] = Cardinality(HeldBy(i))
        BY DEF CountersMatchSlots
      <4>3. QED
        BY <2>4, <2>8, <3>1, <4>1, <4>2 DEF TypeOK
    <3>2. CASE i # ip[c]
      BY <2>4, <2>8, <3>2 DEF CountersMatchSlots, TypeOK
    <3>3. QED
      BY <3>1, <3>2
  <2>11. ASSUME NEW d \in Held' PROVE ip'[d] \in known'
    <3>1. d \in Held /\ d # c /\ ip[d] \in known
      BY <2>3, <2>11 DEF CountersMatchSlots
    <3>2. CASE ip[d] # ip[c]
      BY <2>8, <3>1, <3>2
    <3>3. CASE ip[d] = ip[c]
      <4>1. d \in HeldBy(ip[c])'
        BY <2>11, <3>3 DEF HeldBy
      <4>2. IsFiniteSet(HeldBy(ip[c])')
        BY <2>2, <2>4, <2>5, FS_RemoveElement
      <4>3. active'[ip[c]] # 0
        BY <2>2, <2>10, <4>1, <4>2, FS_EmptySet
      <4>4. active[ip[c]] - 1 # 0
        BY <2>2, <2>8, <4>3 DEF TypeOK
      <4>5. QED
        BY <2>8, <3>1, <4>4
    <3>4. QED
      BY <3>2, <3>3
  <2>12. QED
    BY <2>9, <2>10, <2>11 DEF CountersMatchSlots
<1>3. QED
  BY <1>1, <1>2 DEF TypeOK

(* Every step keeps the counters equal to the slots.                       *)
LEMMA CountersStep == MInv /\ [Next]_vars => CountersMatchSlots'
<1>. SUFFICES ASSUME MInv, [Next]_vars PROVE CountersMatchSlots'
  OBVIOUS
<1>1. UNCHANGED ip /\ (Idle \/ Granting \/ Releasing)
  BY LimiterStep
<1>2. CASE Idle
  <2>1. UNCHANGED <<slot, known, active, total, ip>>
    BY <1>1, <1>2 DEF Idle
  <2>2. QED
    BY <2>1 DEF MInv, CountersMatchSlots, Held, HeldBy
<1>3. CASE Granting
  BY <1>1, <1>3, GrantCounts DEF Granting
<1>4. CASE Releasing
  BY <1>1, <1>4, ReleaseCounts DEF Releasing
<1>5. QED
  BY <1>1, <1>2, <1>3, <1>4
-----------------------------------------------------------------------------
(* Every step keeps the relation of a handler's position to its slot.      *)
LEMMA SlotStep == MInv /\ [Next]_vars => SlotInv'
<1>. SUFFICES ASSUME MInv, [Next]_vars PROVE SlotInv'
  OBVIOUS
<1>. USE DEF MInv, limiterVars
<1>1. ASSUME NEW c \in Conns, UNCHANGED pc, Cleanup(c) PROVE SlotInv'
  <2>1. CASE c \notin sessions
    BY <1>1, <2>1 DEF Cleanup, SlotInv, TypeOK
  <2>2. CASE c \in sessions
    <3>1. /\ sessions' = sessions \ {c}
          /\ slot' = [slot EXCEPT ![c] = "released"]
      BY <1>1, <2>2 DEF Cleanup, ReleaseSlot, SlotInv
    <3>2. pc[c] \in {"serving", "open"}
      BY <2>2 DEF SlotInv
    <3>3. QED
      BY <1>1, <3>1, <3>2 DEF SlotInv, TypeOK
  <2>3. QED
    BY <2>1, <2>2
<1>2. ASSUME NEW c \in Conns, NEW from \in {"auth", "setup", "closing"},
             NEW to \in {"over", "closing"},
             Step(c, from, to), ReleaseSlot(c), UNCHANGED sessions
      PROVE  SlotInv'
  <2>1. slot'[c] = "released" /\ \A d \in Conns : d # c => slot'[d] = slot[d]
    BY <1>2 DEF ReleaseSlot, TypeOK
  <2>2. pc'[c] = to /\ \A d \in Conns : d # c => pc'[d] = pc[d]
    BY <1>2 DEF Step, TypeOK
  <2>3. c \notin sessions
    BY <1>2 DEF Step, SlotInv
  <2>4. QED
    BY <1>2, <2>1, <2>2, <2>3 DEF SlotInv
<1>3. ASSUME NEW c \in Conns, NEW from \in {"idle", "auth"}, slot[c] = "none",
             Step(c, from, "over"), UNCHANGED slot, UNCHANGED sessions
      PROVE  SlotInv'
  BY <1>3 DEF Step, SlotInv, TypeOK
<1>4. ASSUME NEW c \in Sse, SseArrives(c) PROVE SlotInv'
  <2>1. CASE Step(c, "idle", "auth") /\ Acquired(c, ip[c])
    BY <1>4, <2>1 DEF SseArrives, Step, Acquired, Grant, SlotInv, TypeOK, Conns
  <2>2. CASE Step(c, "idle", "over") /\ Denied(ip[c])
    BY <1>3, <1>4, <2>2 DEF SseArrives, Step, Denied, SlotInv, Conns
  <2>3. QED
    BY <1>4, <2>1, <2>2 DEF SseArrives
<1>5. ASSUME NEW c \in Sse, SseRefused(c) PROVE SlotInv'
  BY <1>2, <1>5 DEF SseRefused, Conns
<1>6. ASSUME NEW c \in Sse, SseOpens(c) PROVE SlotInv'
  BY <1>6 DEF SseOpens, Step, SlotInv, TypeOK, Conns
<1>7. ASSUME NEW c \in Sse, SseCloses(c) PROVE SlotInv'
  <2>1. CASE pc[c] = "open"
    BY <1>1, <1>7, <2>1 DEF SseCloses, Conns
  <2>2. CASE pc[c] # "open"
    BY <1>7, <2>2 DEF SseCloses, SlotInv
  <2>3. QED
    BY <2>1, <2>2
<1>8. ASSUME NEW c \in Http, HttpArrives(c) PROVE SlotInv'
  BY <1>8, ConnsAssumption DEF HttpArrives, Step, SlotInv, TypeOK, Conns
<1>9. ASSUME NEW c \in Http, HttpAuthorized(c) PROVE SlotInv'
  <2>1. c \in Conns /\ c \notin Sse
    BY ConnsAssumption DEF Conns
  <2>2. pc[c] = "auth" /\ slot[c] = "none" /\ UNCHANGED sessions
    BY <1>9, <2>1 DEF HttpAuthorized, Step, SlotInv
  <2>3. CASE Step(c, "auth", "over") /\ UNCHANGED slot
    BY <1>3, <2>1, <2>2, <2>3
  <2>4. CASE Step(c, "auth", "setup") /\ Acquired(c, ip[c])
    BY <2>1, <2>2, <2>4 DEF Step, Acquired, Grant, SlotInv, TypeOK
  <2>5. QED
    BY <1>9, <2>3, <2>4 DEF HttpAuthorized, Denied
<1>10. ASSUME NEW c \in Http, HttpInitialized(c) PROVE SlotInv'
  BY <1>10 DEF HttpInitialized, Step, SlotInv, TypeOK, Conns
<1>11. ASSUME NEW c \in Http, HttpReturns(c) PROVE SlotInv'
  <2>1. CASE Step(c, "serving", "open") /\ UNCHANGED limiterVars
    BY <1>11, <2>1 DEF HttpReturns, Step, SlotInv, TypeOK, Conns
  <2>2. QED
    BY <1>2, <1>11, <2>1 DEF HttpReturns, Conns
<1>12. ASSUME NEW c \in Http, HttpCloses(c) PROVE SlotInv'
  BY <1>2, <1>12 DEF HttpCloses, Conns
<1>13. ASSUME NEW c \in Http, HttpDeletes(c) PROVE SlotInv'
  BY <1>1, <1>13 DEF HttpDeletes, Conns
<1>14. ASSUME NEW c \in Conns, ShutdownCloses(c) PROVE SlotInv'
  BY <1>1, <1>14 DEF ShutdownCloses
<1>15. CASE Shutdown \/ Tick \/ UNCHANGED vars
  BY <1>15 DEF Shutdown, Tick, vars, SlotInv
<1>16. QED
  BY <1>4, <1>5, <1>6, <1>7, <1>8, <1>9, <1>10, <1>11, <1>12, <1>13, <1>14, <1>15
     DEF Next, SseHandler, HttpHandler

(* Every step keeps the types; the caps bound the counters.                *)
LEMMA TypeStep == MInv /\ [Next]_vars => TypeOK'
<1>. SUFFICES ASSUME MInv, [Next]_vars PROVE TypeOK'
  OBVIOUS
<1>. USE DEF MInv, limiterVars
<1>1. UNCHANGED ip /\ (Idle \/ Granting \/ Releasing)
  BY LimiterStep
<1>2. /\ active' \in [Ips -> 0 .. MaxPerIp]
      /\ total' \in 0 .. MaxTotal
      /\ known' \subseteq Ips
      /\ opens' \in [Ips -> SUBSET Conns]
      /\ openedAt' \in [Conns -> 0 .. MaxTime]
      /\ slot' \in [Conns -> {"none", "held", "released"}]
  <2>1. \A i \in Ips : Recent(i) \in SUBSET Conns
    BY DEF Recent, TypeOK
  <2>2. CASE Idle
    BY <2>1, <2>2 DEF Idle, Prune, TypeOK
  <2>3. CASE Granting
    BY <1>1, <2>1, <2>3, LimitsAssumption DEF Granting, Acquired, Grant, TypeOK
  <2>4. CASE Releasing
    <3>1. PICK c \in Conns : ReleaseSlot(c)
      BY <2>4 DEF Releasing
    <3>2. CASE UNCHANGED <<slot, known, active, opens, total>>
      BY <3>1, <3>2 DEF ReleaseSlot, TypeOK
    <3>3. CASE slot' = [slot EXCEPT ![c] = "released"] /\ Release(ip[c])
      BY <3>1, <3>3, LimitsAssumption DEF ReleaseSlot, Release, TypeOK
    <3>4. QED
      BY <3>1, <3>2, <3>3 DEF ReleaseSlot
  <2>5. QED
    BY <1>1, <2>2, <2>3, <2>4
<1>3. now' \in 0 .. MaxTime
  BY <1>1 DEF Idle, Granting, Releasing, TypeOK
<1>4. /\ pc' \in [Conns -> {"idle", "auth", "setup", "serving", "closing", "open", "over"}]
      /\ gone' \subseteq Sse
      /\ sessions' \subseteq Conns
  BY DEF Next, SseHandler, HttpHandler, SseArrives, SseRefused, SseOpens, SseCloses,
         HttpArrives, HttpAuthorized, HttpInitialized, HttpReturns, HttpCloses,
         HttpDeletes, ShutdownCloses, Shutdown, Tick, Cleanup, Step, TypeOK, Conns, vars
<1>5. stopping' \in BOOLEAN
  BY Zenon
     DEF Next, SseHandler, HttpHandler, SseArrives, SseRefused, SseOpens, SseCloses,
         HttpArrives, HttpAuthorized, HttpInitialized, HttpReturns, HttpCloses,
         HttpDeletes, ShutdownCloses, Shutdown, Tick, TypeOK, vars
<1>6. QED
  BY <1>1, <1>2, <1>3, <1>4, <1>5 DEF TypeOK

-----------------------------------------------------------------------------
(* A step that takes no slot leaves the history of the opens alone.        *)
LEMMA HistoryUnchanged ==
  ASSUME MInv, UNCHANGED ip, Idle \/ Releasing
  PROVE  /\ \A c \in Conns : slot'[c] = "none" <=> slot[c] = "none"
         /\ UNCHANGED openedAt
<1>1. CASE Idle
  BY <1>1 DEF Idle
<1>2. CASE Releasing
  <2>1. PICK c \in Conns : slot[c] # "none" /\ ReleaseSlot(c)
    BY <1>2 DEF Releasing
  <2>2. QED
    BY <2>1 DEF ReleaseSlot, MInv, TypeOK
<1>3. QED
  BY <1>1, <1>2

(* Pruning, forgetting and time never lose an open of the last minute.     *)
LEMMA OpensStep == MInv /\ [Next]_vars => OpensInv'
<1>. SUFFICES ASSUME MInv, [Next]_vars PROVE OpensInv'
  OBVIOUS
<1>. USE LimitsAssumption, TimeAssumption DEF MInv
<1>1. UNCHANGED ip /\ (Idle \/ Granting \/ Releasing)
  BY LimiterStep
<1>2. CASE Idle
  <2>1. UNCHANGED <<slot, openedAt>>
    BY <1>2 DEF Idle
  <2>2. CASE UNCHANGED opens
    BY <1>1, <1>2, <2>1, <2>2 DEF Idle, OpensInv, TypeOK
  <2>3. ASSUME NEW i \in Ips, Prune(i), UNCHANGED now PROVE OpensInv'
    BY <1>1, <2>1, <2>3 DEF Prune, Recent, OpensInv, TypeOK
  <2>4. QED
    BY <1>2, <2>2, <2>3 DEF Idle
<1>3. CASE Granting
  <2>1. PICK c \in Conns : slot[c] = "none" /\ Acquired(c, ip[c])
    BY <1>3 DEF Granting
  <2>2. /\ slot' = [slot EXCEPT ![c] = "held"]
        /\ openedAt' = [openedAt EXCEPT ![c] = now]
        /\ opens' = [opens EXCEPT ![ip[c]] = Recent(ip[c]) \cup {c}]
        /\ UNCHANGED <<ip, now>>
    BY <1>1, <1>3, <2>1 DEF Granting, Acquired, Grant
  <2>3. ASSUME NEW i \in Ips, NEW d \in Conns, d \in opens'[i]
        PROVE  ip'[d] = i /\ slot'[d] # "none"
    BY <2>2, <2>3 DEF Recent, OpensInv, TypeOK
  <2>4. ASSUME NEW d \in Conns, slot'[d] # "none"
        PROVE  /\ openedAt'[d] <= now'
               /\ openedAt'[d] + Window > now' => d \in opens'[ip'[d]]
    <3>1. CASE d = c
      BY <2>2, <3>1 DEF TypeOK
    <3>2. CASE d # c
      <4>1. slot[d] # "none" /\ openedAt'[d] = openedAt[d] /\ ip[d] \in Ips
        BY <2>2, <2>4, <3>2 DEF TypeOK
      <4>2. openedAt[d] + Window > now => d \in opens[ip[d]] /\ d \in Recent(ip[d])
        BY <4>1 DEF OpensInv, Recent
      <4>3. QED
        BY <2>2, <4>1, <4>2 DEF OpensInv, TypeOK
    <3>3. QED
      BY <3>1, <3>2
  <2>5. QED
    BY <2>3, <2>4 DEF OpensInv
<1>4. CASE Releasing
  <2>1. UNCHANGED <<opens, now>>
    BY <1>4 DEF Releasing, ReleaseSlot, Release
  <2>2. QED
    BY <1>1, <1>4, <2>1, HistoryUnchanged DEF OpensInv, TypeOK
<1>5. QED
  BY <1>1, <1>2, <1>3, <1>4

(* A granted slot is at most the maxNewSessionsPerIpPerMin-th of a minute. *)
LEMMA BurstStep == MInv /\ [Next]_vars => BurstBound'
<1>. SUFFICES ASSUME MInv, [Next]_vars PROVE BurstBound'
  OBVIOUS
<1>. USE LimitsAssumption, TimeAssumption DEF MInv
<1>1. UNCHANGED ip /\ (Idle \/ Granting \/ Releasing)
  BY LimiterStep
<1>2. CASE Idle \/ Releasing
  <2>1. /\ \A c \in Conns : slot'[c] = "none" <=> slot[c] = "none"
        /\ UNCHANGED <<ip, openedAt>>
    BY <1>1, <1>2, HistoryUnchanged
  <2>2. \A c \in Conns : OpenedBefore(c)' = OpenedBefore(c)
    BY <2>1 DEF OpenedBefore
  <2>3. QED
    BY <2>1, <2>2 DEF BurstBound
<1>3. CASE Granting
  <2>1. PICK c \in Conns : slot[c] = "none" /\ Acquired(c, ip[c])
    BY <1>3 DEF Granting
  <2>2. /\ slot' = [slot EXCEPT ![c] = "held"]
        /\ openedAt' = [openedAt EXCEPT ![c] = now]
        /\ UNCHANGED <<ip, now>>
        /\ Cardinality(Recent(ip[c])) < MaxNew
    BY <1>1, <1>3, <2>1 DEF Granting, Acquired, Grant
  <2>3. ip[c] \in Ips /\ now \in Nat /\ \A d \in Conns : openedAt[d] \in Nat
    BY DEF TypeOK
  <2>4. Recent(ip[c]) \in SUBSET Conns /\ c \notin Recent(ip[c])
    BY <2>1, <2>3 DEF Recent, OpensInv, TypeOK
  <2>5. /\ IsFiniteSet(Recent(ip[c]) \cup {c})
        /\ Cardinality(Recent(ip[c]) \cup {c}) \in Nat
        /\ Cardinality(Recent(ip[c]) \cup {c}) <= MaxNew
    BY <2>2, <2>4, FiniteConns, FS_AddElement
  <2>6. ASSUME NEW d \in Conns, slot'[d] # "none" PROVE Cardinality(OpenedBefore(d)') <= MaxNew
    <3>1. CASE ip[d] = ip[c] /\ openedAt'[d] = now
      <4>1. \A e \in Conns \ {c} : slot'[e] = slot[e] /\ openedAt'[e] = openedAt[e]
        BY <2>2 DEF TypeOK
      <4>2. ASSUME NEW e \in OpenedBefore(d)', e # c PROVE e \in Recent(ip[c])
        <5>1. e \in Conns /\ slot[e] # "none" /\ ip[e] = ip[c] /\ openedAt[e] + Window > now
          BY <2>2, <3>1, <4>1, <4>2 DEF OpenedBefore
        <5>2. QED
          BY <5>1 DEF OpensInv, Recent
      <4>3. OpenedBefore(d)' \in SUBSET (Recent(ip[c]) \cup {c})
        BY <4>2
      <4>4. /\ IsFiniteSet(OpenedBefore(d)')
            /\ Cardinality(OpenedBefore(d)') <= Cardinality(Recent(ip[c]) \cup {c})
        BY <2>5, <4>3, FS_Subset
      <4>5. Cardinality(OpenedBefore(d)') \in Nat
        BY <4>4, FS_CardinalityType
      <4>6. QED
        BY <2>5, <4>4, <4>5
    <3>2. CASE ~(ip[d] = ip[c] /\ openedAt'[d] = now)
      <4>1. d # c /\ slot[d] # "none" /\ openedAt'[d] = openedAt[d]
        BY <2>2, <2>6, <3>2 DEF TypeOK
      <4>2. ip[d] = ip[c] => openedAt[d] < now
        BY <2>3, <3>2, <4>1 DEF OpensInv
      <4>3. c \notin OpenedBefore(d)' /\ c \notin OpenedBefore(d)
        BY <2>1, <2>2, <2>3, <4>1, <4>2 DEF OpenedBefore, TypeOK
      <4>4. \A e \in Conns \ {c} : slot'[e] = slot[e] /\ openedAt'[e] = openedAt[e]
        BY <2>2 DEF TypeOK
      <4>5. OpenedBefore(d)' = OpenedBefore(d)
        BY <2>2, <4>1, <4>3, <4>4 DEF OpenedBefore
      <4>6. QED
        BY <4>1, <4>5 DEF BurstBound
    <3>3. QED
      BY <3>1, <3>2
  <2>7. QED
    BY <2>6 DEF BurstBound
<1>4. QED
  BY <1>1, <1>2, <1>3

-----------------------------------------------------------------------------
(* MInv holds in every reachable state.                                    *)
THEOREM Invariance == Spec => []MInv
<1>1. MInv /\ [Next]_vars => MInv'
  BY TypeStep, SlotStep, CountersStep, OpensStep, BurstStep DEF MInv
<1>2. QED
  BY InitMInv, <1>1, PTL DEF Spec

(* Type correctness, with the counters of the limiter within its caps.     *)
THEOREM TypeCorrectness == Spec => []TypeOK
<1>1. MInv => TypeOK
  BY DEF MInv
<1>2. QED
  BY <1>1, Invariance, PTL

(* totalActive and every perIp[i].active are the slots that are held.      *)
THEOREM CounterSafety == Spec => []CountersMatchSlots
<1>1. MInv => CountersMatchSlots
  BY DEF MInv
<1>2. QED
  BY <1>1, Invariance, PTL

(* Every slot is owned by a live session or by a handler on its way to one *)
(* or to the release: none is lost between the awaits of a handler.        *)
THEOREM SlotOwnership == Spec => []SlotsAreOwned
<1>1. ASSUME MInv, NEW c \in Conns, slot[c] = "held"
      PROVE  c \in sessions \/ Opening(c)
  <2>1. pc[c] \in {"idle", "auth", "setup", "serving", "closing", "open", "over"}
    BY <1>1 DEF MInv, TypeOK
  <2>2. CASE pc[c] \in {"auth", "setup"}
    BY <1>1, <2>2, ConnsAssumption DEF MInv, SlotInv, Opening
  <2>3. CASE pc[c] \in {"idle", "serving", "closing", "open", "over"}
    BY <1>1, <2>3 DEF MInv, SlotInv
  <2>4. QED
    BY <2>1, <2>2, <2>3
<1>2. MInv => SlotsAreOwned
  BY <1>1 DEF SlotsAreOwned
<1>3. QED
  BY <1>2, Invariance, PTL

-----------------------------------------------------------------------------
(* The limiter implements the ledger.                                      *)

(* What an entry of the ledger says of the slot it stands for.             *)
LEMMA EntryOfSlot ==
  ASSUME MInv
  PROVE  \A c \in Conns :
           /\ LedgerEntry(c) = "held" <=> slot[c] = "held"
           /\ LedgerEntry(c) \in {"held", "released"} <=> slot[c] # "none"
           /\ slot[c] # "none" => LedgerEntry(c) = slot[c]
  BY DEF LedgerEntry, MInv, TypeOK

(* The ledger counts with the operator of FiniteSets, which it brings in.  *)
LEMMA SameCardinality == \A S : Ledger!Cardinality(S) = Cardinality(S)
  BY DEF Ledger!Cardinality, Cardinality

(* The counters and the pruned list of an address are what the ledger      *)
(* computes from all its entries.                                          *)
LEMMA CapsOfLedger ==
  ASSUME MInv, NEW i \in Ips
  PROVE  Ledger!BelowCaps(i) <=> /\ total < MaxTotal
                                /\ active[i] < MaxPerIp
                                /\ Cardinality(Recent(i)) < MaxNew
<1>1. Ledger!Held = Held
  BY EntryOfSlot DEF Ledger!Held, Held
<1>2. Ledger!HeldBy(i) = HeldBy(i)
  BY <1>1 DEF Ledger!HeldBy, HeldBy
<1>3. Ledger!TakenBy(i) = Recent(i)
  <2>1. ASSUME NEW c \in Conns
        PROVE  c \in Recent(i) <=>
                 slot[c] # "none" /\ ip[c] = i /\ openedAt[c] + Window > now
    BY DEF MInv, OpensInv, Recent, TypeOK
  <2>2. Recent(i) \subseteq Conns
    BY DEF MInv, Recent, TypeOK
  <2>3. Ledger!TakenBy(i) = {c \in Conns : slot[c] # "none" /\ ip[c] = i /\ openedAt[c] + Window > now}
    BY EntryOfSlot DEF Ledger!TakenBy
  <2>4. QED
    BY <2>1, <2>2, <2>3
<1>4. /\ Ledger!Cardinality(Ledger!Held) = total
      /\ Ledger!Cardinality(Ledger!HeldBy(i)) = active[i]
      /\ Ledger!Cardinality(Ledger!TakenBy(i)) = Cardinality(Recent(i))
  BY <1>1, <1>2, <1>3, SameCardinality DEF MInv, CountersMatchSlots
<1>5. QED
  BY <1>4 DEF Ledger!BelowCaps

(* A stream without a slot moves on without one only by being refused.     *)
LEMMA RefusedStream ==
  ASSUME MInv, [Next]_vars, NEW d \in Sse,
         slot[d] = "none", slot'[d] = "none", pc'[d] # pc[d]
  PROVE  /\ pc[d] = "idle" /\ pc' = [pc EXCEPT ![d] = "over"]
         /\ Denied(ip[d])
         /\ UNCHANGED <<ip, now>>
<1>. USE DEF MInv
<1>1. d \in Conns /\ d \notin Http /\ pc[d] # "auth"
  BY ConnsAssumption DEF Conns, SlotInv
<1>2. ASSUME NEW c, NEW from, NEW to, Step(c, from, to) PROVE c = d /\ pc[d] = from
  BY <1>1, <1>2 DEF Step, TypeOK
<1>3. CASE SseArrives(d)
  BY <1>1, <1>3 DEF SseArrives, Step, Acquired, Grant, TypeOK
<1>4. ASSUME NEW c \in Sse, SseArrives(c), c # d PROVE FALSE
  BY <1>2, <1>4 DEF SseArrives
<1>5. ASSUME NEW c \in Sse, SseRefused(c) \/ SseOpens(c) PROVE FALSE
  BY <1>1, <1>2, <1>5 DEF SseRefused, SseOpens
<1>6. ASSUME NEW c \in Http, HttpHandler(c) PROVE FALSE
  <2>1. \E from, to : Step(c, from, to)
    BY <1>6 DEF HttpHandler, HttpArrives, HttpAuthorized, HttpInitialized, HttpReturns, HttpCloses
  <2>2. QED
    BY <1>1, <1>2, <2>1
<1>7. pc' # pc
  OBVIOUS
<1>8. QED
  BY <1>3, <1>4, <1>5, <1>6, <1>7
     DEF Next, SseHandler, SseCloses, HttpDeletes, ShutdownCloses, Shutdown, Tick, vars

(* Every step of the handlers is a step of the ledger, or a stutter.       *)
LEMMA LedgerStep == MInv /\ [Next]_vars => [Ledger!Next]_Ledger!vars
<1>. SUFFICES ASSUME MInv, [Next]_vars PROVE [Ledger!Next]_Ledger!vars
  OBVIOUS
<1>. DEFINE entry == [c \in Conns |-> LedgerEntry(c)]
<1>1. UNCHANGED ip /\ (Idle \/ Granting \/ Releasing) /\ ip \in [Conns -> Ips]
  BY LimiterStep DEF MInv, TypeOK
<1>2. CASE \E d \in Sse : slot[d] = "none" /\ slot'[d] = "none" /\ pc'[d] # pc[d]
  <2>1. PICK d \in Sse : slot[d] = "none" /\ slot'[d] = "none" /\ pc'[d] # pc[d]
    BY <1>2
  <2>2. /\ pc[d] = "idle" /\ pc' = [pc EXCEPT ![d] = "over"]
        /\ Denied(ip[d])
        /\ UNCHANGED <<ip, now, slot, openedAt>>
    BY <2>1, RefusedStream DEF Denied
  <2>3. d \in Conns /\ ip[d] \in Ips /\ entry[d] = "none" /\ ~Ledger!BelowCaps(ip[d])
    <3>1. d \in Conns /\ ip[d] \in Ips
      BY <1>1 DEF Conns
    <3>2. entry[d] = "none"
      BY <2>1, <2>2, <3>1 DEF LedgerEntry
    <3>3. total \in Nat /\ active[ip[d]] \in Nat /\ Cardinality(Recent(ip[d])) \in Nat
      <4>1. Recent(ip[d]) \in SUBSET Conns
        BY <3>1 DEF Recent, MInv, TypeOK
      <4>2. QED
        BY <3>1, <4>1, FiniteConns DEF MInv, TypeOK
    <3>4. total >= MaxTotal \/ active[ip[d]] >= MaxPerIp \/ Cardinality(Recent(ip[d])) >= MaxNew
      BY <2>2 DEF Denied
    <3>5. ~(total < MaxTotal /\ active[ip[d]] < MaxPerIp /\ Cardinality(Recent(ip[d])) < MaxNew)
      BY <3>3, <3>4, LimitsAssumption
    <3>6. QED
      BY <3>1, <3>2, <3>5, CapsOfLedger
  <2>4. LedgerEntry(d)' = "refused"
    BY <2>1, <2>2 DEF LedgerEntry, Conns, MInv, TypeOK
  <2>5. \A c \in Conns : c # d => LedgerEntry(c)' = LedgerEntry(c)
    BY <2>2 DEF LedgerEntry, MInv, TypeOK
  <2>6. entry' = [entry EXCEPT ![d] = "refused"]
    BY <2>4, <2>5
  <2>7. Ledger!Refuse(d)
    BY <2>2, <2>3, <2>6 DEF Ledger!Refuse
  <2>8. QED
    BY <2>3, <2>7 DEF Ledger!Next
<1>3. CASE \A d \in Sse : slot[d] = "none" /\ slot'[d] = "none" => pc'[d] = pc[d]
  <2>1. \A c \in Conns : slot'[c] = slot[c] => LedgerEntry(c)' = LedgerEntry(c)
    BY <1>3 DEF LedgerEntry
  <2>2. CASE Idle
    <3>1. entry' = entry /\ UNCHANGED <<ip, openedAt>>
      BY <1>1, <2>1, <2>2 DEF Idle
    <3>2. now' = now \/ now' = now + 1
      BY <2>2 DEF Idle
    <3>3. QED
      BY <3>1, <3>2 DEF Ledger!Next, Ledger!Pass, Ledger!vars
  <2>3. CASE Granting
    <3>1. PICK c \in Conns : slot[c] = "none" /\ pc[c] # "over" /\ Acquired(c, ip[c])
      BY <2>3 DEF Granting
    <3>2. /\ slot' = [slot EXCEPT ![c] = "held"]
          /\ openedAt' = [openedAt EXCEPT ![c] = now]
          /\ UNCHANGED <<ip, now>>
      BY <1>1, <2>3, <3>1 DEF Granting, Acquired, Grant
    <3>3. entry[c] = "none" /\ Ledger!BelowCaps(ip[c])
      BY <1>1, <3>1, CapsOfLedger DEF Acquired, LedgerEntry
    <3>4. LedgerEntry(c)' = "held"
      BY <3>2 DEF LedgerEntry, MInv, TypeOK
    <3>5. \A d \in Conns : d # c => LedgerEntry(d)' = LedgerEntry(d)
      BY <2>1, <3>2 DEF MInv, TypeOK
    <3>6. entry' = [entry EXCEPT ![c] = "held"]
      BY <3>4, <3>5
    <3>7. Ledger!Take(c)
      BY <3>2, <3>3, <3>6 DEF Ledger!Take
    <3>8. QED
      BY <3>7 DEF Ledger!Next
  <2>4. CASE Releasing
    <3>1. PICK c \in Conns : slot[c] # "none" /\ ReleaseSlot(c)
      BY <2>4 DEF Releasing
    <3>2. UNCHANGED <<ip, now, openedAt>>
      BY <1>1, <2>4, <3>1 DEF Releasing, ReleaseSlot
    <3>3. CASE slot[c] = "released"
      <4>1. entry' = entry
        BY <2>1, <3>1, <3>3 DEF ReleaseSlot
      <4>2. QED
        BY <3>2, <4>1 DEF Ledger!vars
    <3>4. CASE slot[c] = "held"
      <4>1. slot' = [slot EXCEPT ![c] = "released"]
        BY <3>1, <3>4 DEF ReleaseSlot
      <4>2. entry[c] = "held" /\ LedgerEntry(c)' = "released"
        BY <3>4, <4>1 DEF LedgerEntry, MInv, TypeOK
      <4>3. \A d \in Conns : d # c => LedgerEntry(d)' = LedgerEntry(d)
        BY <2>1, <4>1 DEF MInv, TypeOK
      <4>4. entry' = [entry EXCEPT ![c] = "released"]
        BY <4>2, <4>3
      <4>5. Ledger!GiveBack(c)
        BY <3>2, <4>2, <4>4 DEF Ledger!GiveBack
      <4>6. QED
        BY <4>5 DEF Ledger!Next
    <3>5. QED
      BY <3>1, <3>3, <3>4 DEF MInv, TypeOK
  <2>5. QED
    BY <1>1, <2>2, <2>3, <2>4
<1>4. QED
  BY <1>2, <1>3

(* Whatever the order of logins, closes, deletes and shutdown, a slot is   *)
(* taken, refused and given back as the ledger would decide.               *)
THEOREM LimiterKeepsLedger == Spec => KeepsLedger
<1>1. Init => Ledger!Init
  BY DEF Init, Ledger!Init, LedgerEntry
<1>2. QED
  BY <1>1, LedgerStep, Invariance, PTL DEF Spec, KeepsLedger, Ledger!Spec

-----------------------------------------------------------------------------
(* The live sessions, of all and of one address, are within the caps.      *)
THEOREM SessionCaps == Spec => []SessionsWithinCaps
<1>1. ASSUME MInv PROVE SessionsWithinCaps
  <2>. USE DEF MInv
  <2>1. \A c \in sessions : slot[c] = "held"
    BY <1>1 DEF SlotInv, TypeOK
  <2>2. sessions \in SUBSET Held
    BY <1>1, <2>1 DEF Held, TypeOK
  <2>3. Cardinality(sessions) <= MaxTotal
    <3>1. /\ IsFiniteSet(Held) /\ Cardinality(Held) \in Nat
          /\ Cardinality(sessions) \in Nat
      BY <1>1, FiniteConns DEF Held, TypeOK
    <3>2. Cardinality(sessions) <= Cardinality(Held)
      BY <2>2, <3>1, FS_Subset
    <3>3. Cardinality(Held) <= MaxTotal
      BY <1>1 DEF CountersMatchSlots, TypeOK
    <3>4. QED
      BY <3>1, <3>2, <3>3, LimitsAssumption
  <2>4. ASSUME NEW i \in Ips
        PROVE  Cardinality({c \in sessions : ip[c] = i}) <= MaxPerIp
    <3>. DEFINE S == {c \in sessions : ip[c] = i}
    <3>1. S \in SUBSET HeldBy(i) /\ S \in SUBSET Conns /\ HeldBy(i) \in SUBSET Conns
      BY <1>1, <2>2 DEF HeldBy, Held, TypeOK
    <3>2. /\ IsFiniteSet(HeldBy(i)) /\ Cardinality(HeldBy(i)) \in Nat
          /\ Cardinality(S) \in Nat
      BY <3>1, FiniteConns
    <3>3. Cardinality(S) <= Cardinality(HeldBy(i))
      BY <3>1, <3>2, FS_Subset
    <3>4. Cardinality(HeldBy(i)) <= MaxPerIp
      BY <1>1 DEF CountersMatchSlots, TypeOK
    <3>5. Cardinality(S) <= MaxPerIp
      BY <3>2, <3>3, <3>4, LimitsAssumption
    <3>6. QED
      BY <3>5
  <2>5. QED
    BY <2>1, <2>3, <2>4 DEF SessionsWithinCaps
<1>2. QED
  BY <1>1, Invariance, PTL

(* No minute sees more new sessions of an address than the cap allows.     *)
THEOREM BurstSafety == Spec => []BurstBound
<1>1. MInv => BurstBound
  BY DEF MInv
<1>2. QED
  BY <1>1, Invariance, PTL
=============================================================================
