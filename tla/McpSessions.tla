---------------------------- MODULE McpSessions ----------------------------
(***************************************************************************)
(* MCP sessions of the sidecar: the limiter that hands out session slots   *)
(* (mcp/rateLimit.ts) and the two handlers that take a slot, open a        *)
(* session and give the slot back (mcp/index.ts).  Node runs one callback  *)
(* at a time, so an action is what runs between two awaits.                *)
(***************************************************************************)
EXTENDS Naturals, FiniteSets

CONSTANTS
  Sse,        \* connections that will come to GET /mcp/sse
  Http,       \* connections that will come to POST /mcp without a session id
  Ips,        \* client addresses
  MaxTotal, MaxPerIp, MaxNew,  \* maxTotalSessions, maxSessionsPerIp,
                               \* maxNewSessionsPerIpPerMin
  Window,     \* the minute of maxNewSessionsPerIpPerMin, in ticks
  MaxTime     \* bound on the clock

Conns == Sse \cup Http

ASSUME ConnsAssumption  == IsFiniteSet(Sse) /\ IsFiniteSet(Http) /\ Sse \cap Http = {}
ASSUME LimitsAssumption ==  \* parsePositiveInt
  /\ MaxTotal \in Nat \ {0}
  /\ MaxPerIp \in Nat \ {0}
  /\ MaxNew \in Nat \ {0}
  /\ Window \in Nat \ {0}
ASSUME TimeAssumption   == MaxTime \in Nat

VARIABLES
  now,        \* Date.now()
  pc,         \* pc[c]: the await at which the handler of c stands
  ip,         \* ip[c]: clientIpFromRequest, once c has arrived
  gone,       \* SSE responses that have emitted "close"
  slot,       \* slot[c]: the closure of releaseFn(ip)
  sessions,   \* keys of sessionsById and streamableSessions
  known,      \* keys of perIp
  active,     \* perIp[i].active
  opens,      \* perIp[i].opens, a time-stamp standing as its connection
  openedAt,   \* openedAt[c]: that time-stamp
  total,      \* totalActive
  stopping    \* gracefulShutdown was entered

limiterVars == <<slot, known, active, opens, openedAt, total>>
vars == <<now, pc, ip, gone, slot, sessions, known, active, opens, openedAt, total, stopping>>

TypeOK ==
  /\ now \in 0 .. MaxTime
  /\ pc \in [Conns -> {"idle", "auth", "setup", "serving", "closing", "open", "over"}]
  /\ ip \in [Conns -> Ips]
  /\ gone \subseteq Sse
  /\ slot \in [Conns -> {"none", "held", "released"}]
  /\ sessions \subseteq Conns
  /\ known \subseteq Ips
  /\ active \in [Ips -> 0 .. MaxPerIp]
  /\ opens \in [Ips -> SUBSET Conns]
  /\ openedAt \in [Conns -> 0 .. MaxTime]
  /\ total \in 0 .. MaxTotal
  /\ stopping \in BOOLEAN

Init ==
  /\ now = 0
  /\ pc = [c \in Conns |-> "idle"]
  /\ ip \in [Conns -> Ips]
  /\ gone = {}
  /\ slot = [c \in Conns |-> "none"]
  /\ sessions = {}
  /\ known = {}
  /\ active = [i \in Ips |-> 0]
  /\ opens = [i \in Ips |-> {}]
  /\ openedAt = [c \in Conns |-> 0]
  /\ total = 0
  /\ stopping = FALSE

-----------------------------------------------------------------------------
(* The limiter.                                                            *)

(* t > now - 60_000: the opens that acquire keeps.                         *)
Recent(i) == {c \in opens[i] : openedAt[c] + Window > now}

Prune(i) == opens' = [opens EXCEPT ![i] = Recent(i)]

(* Refused by the global cap, before anything is pruned, or by one of the  *)
(* caps of the address.                                                    *)
Denied(i) ==
  /\ UNCHANGED <<slot, known, active, openedAt, total>>
  /\ \/ /\ total >= MaxTotal
        /\ UNCHANGED opens
     \/ /\ total < MaxTotal
        /\ active[i] >= MaxPerIp \/ Cardinality(Recent(i)) >= MaxNew
        /\ Prune(i)

Grant(c, i) ==
  /\ slot' = [slot EXCEPT ![c] = "held"]
  /\ openedAt' = [openedAt EXCEPT ![c] = now]
  /\ opens' = [opens EXCEPT ![i] = Recent(i) \cup {c}]
  /\ known' = known \cup {i}
  /\ active' = [active EXCEPT ![i] = @ + 1]
  /\ total' = total + 1

AcquiredOffByOne(c, i) ==
  /\ total < MaxTotal
  /\ active[i] <= MaxPerIp
  /\ Cardinality(Recent(i)) < MaxNew
  /\ Grant(c, i)

Acquired(c, i) ==
  /\ total < MaxTotal
  /\ active[i] < MaxPerIp
  /\ Cardinality(Recent(i)) < MaxNew
  /\ Grant(c, i)

(* The body of release: an unknown address is ignored, the counters stop   *)
(* at 0 and the entry goes once it counts nothing.                         *)
ReleaseForgettingOpens(i) ==
  IF i \notin known THEN UNCHANGED <<known, active, opens, total>>
  ELSE LET left == IF active[i] = 0 THEN 0 ELSE active[i] - 1 IN
    /\ active' = [active EXCEPT ![i] = left]
    /\ total' = IF total = 0 THEN 0 ELSE total - 1
    /\ known' = IF left = 0 THEN known \ {i} ELSE known
    /\ opens' = IF left = 0 THEN [opens EXCEPT ![i] = {}] ELSE opens

Release(i) ==
  IF i \notin known THEN UNCHANGED <<known, active, opens, total>>
  ELSE LET left == IF active[i] = 0 THEN 0 ELSE active[i] - 1 IN
    /\ active' = [active EXCEPT ![i] = left]
    /\ total' = IF total = 0 THEN 0 ELSE total - 1
    /\ known' = IF left = 0 /\ opens[i] = {} THEN known \ {i} ELSE known
    /\ UNCHANGED opens

(* The closure of releaseFn works once.                                    *)
ReleaseSlotAnyTime(c) ==
  /\ slot' = [slot EXCEPT ![c] = "released"]
  /\ Release(ip[c])
  /\ UNCHANGED openedAt

ReleaseSlot(c) ==
  /\ IF slot[c] = "released"
     THEN UNCHANGED <<slot, known, active, opens, total>>
     ELSE /\ slot' = [slot EXCEPT ![c] = "released"]
          /\ Release(ip[c])
  /\ UNCHANGED openedAt

-----------------------------------------------------------------------------
Step(c, from, to) ==
  /\ pc[c] = from
  /\ pc' = [pc EXCEPT ![c] = to]

(* `cleanup`, wired to the response and to the transport, so that it may   *)
(* be called again: then it finds the session deleted.                     *)
CleanupKeepingSession(c) ==
  /\ ReleaseSlot(c)
  /\ UNCHANGED sessions

Cleanup(c) ==
  /\ sessions' = sessions \ {c}
  /\ IF c \in sessions THEN ReleaseSlot(c) ELSE UNCHANGED limiterVars

(* GET /mcp/sse takes its slot first and then awaits resolveAuth.          *)
SseArrives(c) ==
  /\ \/ Step(c, "idle", "auth") /\ Acquired(c, ip[c])
     \/ Step(c, "idle", "over") /\ Denied(ip[c])
  /\ UNCHANGED <<now, ip, gone, sessions, stopping>>

SseRefused(c) ==
  /\ Step(c, "auth", "over")
  /\ ReleaseSlot(c)
  /\ UNCHANGED <<now, ip, gone, sessions, stopping>>

(* Only now is "close" listened to: one emitted before is not seen.        *)
SseOpens(c) ==
  /\ Step(c, "auth", "open")
  /\ sessions' = sessions \cup {c}
  /\ UNCHANGED <<now, ip, gone, limiterVars, stopping>>

(* The client, a proxy or the end of the response closes the stream.       *)
SseCloses(c) ==
  /\ pc[c] \in {"auth", "open"}
  /\ c \notin gone
  /\ gone' = gone \cup {c}
  /\ IF pc[c] = "open" THEN Cleanup(c) ELSE UNCHANGED <<sessions, limiterVars>>
  /\ UNCHANGED <<now, pc, ip, stopping>>

-----------------------------------------------------------------------------
(* POST /mcp resolves the caller first, then takes the slot, and goes on   *)
(* to await connect and handleRequest.                                     *)
HttpArrives(c) ==
  /\ Step(c, "idle", "auth")
  /\ UNCHANGED <<now, ip, gone, sessions, limiterVars, stopping>>

HttpAuthorized(c) ==
  /\ \/ Step(c, "auth", "over") /\ UNCHANGED limiterVars
     \/ Step(c, "auth", "over") /\ Denied(ip[c])
     \/ Step(c, "auth", "setup") /\ Acquired(c, ip[c])
  /\ UNCHANGED <<now, ip, gone, sessions, stopping>>

(* onsessioninitialized, called by the transport for an initialize message *)
HttpInitialized(c) ==
  /\ Step(c, "setup", "serving")
  /\ sessions' = sessions \cup {c}
  /\ UNCHANGED <<now, ip, gone, limiterVars, stopping>>

HttpReturnsKeepingSlot(c) ==
  /\ Step(c, "setup", "over") \/ Step(c, "serving", "open")
  /\ UNCHANGED <<now, ip, gone, sessions, limiterVars, stopping>>

(* handleRequest returns with or without a session, or throws before there *)
(* is one; later errors are answered by the transport (SDK, external).     *)
HttpReturns(c) ==
  /\ \/ Step(c, "setup", "closing") /\ ReleaseSlot(c)
     \/ Step(c, "setup", "over") /\ ReleaseSlot(c)
     \/ Step(c, "serving", "open") /\ UNCHANGED limiterVars
  /\ UNCHANGED <<now, ip, gone, sessions, stopping>>

(* Closing the transport that got no session calls its onclose, which is   *)
(* the slot's release a second time.                                       *)
HttpCloses(c) ==
  /\ Step(c, "closing", "over")
  /\ ReleaseSlot(c)
  /\ UNCHANGED <<now, ip, gone, sessions, stopping>>

(* DELETE /mcp by the caller that opened the session closes its transport. *)
HttpDeletes(c) ==
  /\ c \in sessions
  /\ Cleanup(c)
  /\ UNCHANGED <<now, pc, ip, gone, stopping>>

-----------------------------------------------------------------------------
(* SIGTERM: shutdownMcpSessions closes the transports one after another,   *)
(* while requests still arrive.                                            *)
Shutdown ==
  /\ ~stopping
  /\ stopping' = TRUE
  /\ UNCHANGED <<now, pc, ip, gone, sessions, limiterVars>>

ShutdownCloses(c) ==
  /\ stopping
  /\ c \in sessions
  /\ Cleanup(c)
  /\ UNCHANGED <<now, pc, ip, gone, stopping>>

Tick ==
  /\ now < MaxTime
  /\ now' = now + 1
  /\ UNCHANGED <<pc, ip, gone, sessions, limiterVars, stopping>>

-----------------------------------------------------------------------------
SseHandler(c)  == SseArrives(c) \/ SseRefused(c) \/ SseOpens(c)
HttpHandler(c) ==
  \/ HttpArrives(c)
  \/ HttpAuthorized(c)
  \/ HttpInitialized(c)
  \/ HttpReturns(c)
  \/ HttpCloses(c)

Next ==
  \/ \E c \in Sse : SseHandler(c) \/ SseCloses(c)
  \/ \E c \in Http : HttpHandler(c) \/ HttpDeletes(c)
  \/ \E c \in Conns : ShutdownCloses(c)
  \/ Shutdown
  \/ Tick

(* A promise the handler awaits settles; nobody has to connect or to leave *)
Fairness ==
  /\ \A c \in Sse : WF_vars(SseRefused(c) \/ SseOpens(c))
  /\ \A c \in Http : WF_vars(HttpAuthorized(c)) /\ WF_vars(HttpReturns(c))

Spec     == Init /\ [][Next]_vars
FairSpec == Spec /\ Fairness

-----------------------------------------------------------------------------
Held      == {c \in Conns : slot[c] = "held"}
HeldBy(i) == {c \in Held : ip[c] = i}

(* The counters of the limiter are the slots its callers hold, through     *)
(* every order of failed logins, closes, deletes and shutdown that calls   *)
(* the release of one session from several places.                         *)
CountersMatchSlots ==
  /\ total = Cardinality(Held)
  /\ \A i \in Ips : active[i] = Cardinality(HeldBy(i))
  /\ \A c \in Held : ip[c] \in known

(* A registered session is one the limiter counts, so the caps bound the   *)
(* transports that live, and not only the calls of acquire.                *)
SessionsWithinCaps ==
  /\ \A c \in sessions : slot[c] = "held"
  /\ Cardinality(sessions) <= MaxTotal
  /\ \A i \in Ips : Cardinality({c \in sessions : ip[c] = i}) <= MaxPerIp

(* No minute sees more than maxNewSessionsPerIpPerMin sessions opened from *)
(* one address, though closing sessions may make the limiter forget it.    *)
OpenedBefore(c) ==
  {d \in Conns : /\ slot[d] # "none"
                 /\ ip[d] = ip[c]
                 /\ openedAt[d] <= openedAt[c]
                 /\ openedAt[d] + Window > openedAt[c]}

BurstBound ==
  \A c \in Conns : slot[c] # "none" => Cardinality(OpenedBefore(c)) <= MaxNew

(* The limiter decides as a ledger that keeps every entry would: counters, *)
(* pruned lists, forgotten addresses and idempotent releases neither grant *)
(* a slot above a cap nor refuse a stream below all of them.  (A POST that *)
(* ends without a slot may also have been refused by resolveAuth.)         *)
LedgerEntry(c) ==
  IF c \in Sse /\ pc[c] = "over" /\ slot[c] = "none" THEN "refused" ELSE slot[c]

Ledger == INSTANCE SlotLedger
  WITH clock <- now, address <- ip, since <- openedAt,
       entry <- [c \in Conns |-> LedgerEntry(c)]

KeepsLedger == Ledger!Spec

(* No slot is orphaned: one that is held counts a session that lives or    *)
(* a handler that stands at the await whose outcome registers the session  *)
(* or gives the slot back.                                                 *)
Opening(c) == pc[c] = IF c \in Sse THEN "auth" ELSE "setup"

SlotsAreOwned ==
  \A c \in Conns : slot[c] = "held" => c \in sessions \/ Opening(c)

(* A slot taken for a session that never comes into being (a refused       *)
(* login, a POST that initializes nothing) returns to the limiter.         *)
UnusedSlotReturns ==
  \A c \in Conns : slot[c] = "held" ~> (c \in sessions \/ slot[c] = "released")

-----------------------------------------------------------------------------
(* The inductive invariant behind the safety properties.                   *)

(* Where a handler stands says whether its slot is taken; nothing but the  *)
(* one-shot closure keeps the second release of "closing" from counting.   *)
SlotInv ==
  \A c \in Conns :
    /\ pc[c] = "idle" => slot[c] = "none"
    /\ pc[c] = "auth" => slot[c] = IF c \in Sse THEN "held" ELSE "none"
    /\ pc[c] = "setup" => slot[c] = "held" /\ c \in Http
    /\ pc[c] = "closing" => slot[c] = "released"
    /\ c \in sessions => slot[c] = "held" /\ pc[c] \in {"serving", "open"}
    /\ pc[c] \in {"serving", "open"} => c \in sessions \/ slot[c] = "released"
    /\ pc[c] = "over" => slot[c] # "held"

(* The opens of an address hold every session opened in the last minute,   *)
(* also when its entry was deleted and made again.                         *)
OpensInv ==
  /\ \A i \in Ips, c \in Conns :
       c \in opens[i] => ip[c] = i /\ slot[c] # "none"
  /\ \A c \in Conns : slot[c] # "none" =>
       /\ openedAt[c] <= now
       /\ openedAt[c] + Window > now => c \in opens[ip[c]]

(* Everything the steps of the limiter and of its callers keep.            *)
MInv == TypeOK /\ SlotInv /\ CountersMatchSlots /\ OpensInv /\ BurstBound

-----------------------------------------------------------------------------
(* "the caller MUST invoke release(ip) exactly once when the session       *)
(* closes": when the handler is past its awaits and the response is closed *)
(* the slot is given back.                                                 *)
ClosedIsReleased ==
  \A c \in Sse : c \in gone /\ pc[c] = "open" => slot[c] = "released"
=============================================================================
