----------------------- MODULE Authentication_proofs -----------------------
(* Proofs about Authentication for every set of requests, messages and     *)
(* accounts, every window and every life of a nonce.                       *)
EXTENDS Authentication, TLAPS

USE AccountsAssumption, TimeAssumption, MaxChangesAssumption

-----------------------------------------------------------------------------
(* Types.                                                                  *)

LEMMA InitTypes == Init => TypeOK
BY DEF Init, TypeOK, Named, Phases, Awaiting

LEMMA GoesTypes ==
  ASSUME TypeOK, NEW r \in Requests, NEW p, NEW q \in Phases, Goes(r, p, q)
  PROVE  phase' \in [Requests -> Phases]
BY DEF TypeOK, Goes

LEMMA RequestTypes ==
  ASSUME TypeOK, NEW r \in Requests, Request(r)
  PROVE  TypeOK'
<1> USE DEF TypeOK, vars, checkVars, resolveVars, history, Named
<1>p. Awaiting \subseteq Phases /\ {"new", "refused", "unresolved", "accepted", "gone"} \subseteq Phases
  BY DEF Phases
<1>a. /\ "reading" \in Phases /\ "lookup" \in Phases /\ "verifying" \in Phases
      /\ "scanning" \in Phases /\ "fallback" \in Phases /\ "caching" \in Phases
  BY DEF Phases, Awaiting
<1>1. CASE Arrive(r)
  BY <1>1, <1>p, <1>a DEF Arrive, Goes
<1>2. CASE Admit(r)
  <2>1. CASE RecordFor(r, Ttl)
    BY <1>2, <2>1, <1>a DEF Admit, RecordFor, Goes
  <2>2. CASE RefuseBody(r)
    BY <1>2, <2>2, <1>p DEF Admit, RefuseBody, Goes
  <2>3. QED
    BY <1>2, <2>1, <2>2 DEF Admit
<1>3. CASE Lookup(r)
  BY <1>3, <1>a DEF Lookup, Scans, Goes
<1>4. CASE VerifyCached(r)
  <2>1. phase' \in [Requests -> Phases]
    BY <1>4, <1>a, <1>p DEF VerifyCached, Scans, Goes
  <2>2. todo' \in [Requests -> SUBSET Registry]
    BY <1>4 DEF VerifyCached, Scans
  <2>3. QED
    BY <1>4, <2>1, <2>2 DEF VerifyCached
<1>5. ASSUME NEW a \in Registry, ScanAccount(r, a) PROVE TypeOK'
  <2>1. phase' \in [Requests -> Phases]
    BY <1>5, <1>a DEF ScanAccount, Found, Goes
  <2>2. account' \in [Requests -> Named] /\ trouble' \in [Requests -> BOOLEAN]
    BY <1>5 DEF ScanAccount, Found
  <2>3. todo' \in [Requests -> SUBSET Registry]
    BY <1>5 DEF ScanAccount, Found
  <2>4. QED
    BY <1>5, <2>1, <2>2, <2>3 DEF ScanAccount
<1>6. CASE ScanEnds(r)
  BY <1>6, <1>a DEF ScanEnds, Goes
<1>7. CASE VerifyFallback(r)
  <2>1. phase' \in [Requests -> Phases]
    BY <1>7, <1>a, <1>p DEF VerifyFallback, Found, Goes
  <2>2. account' \in [Requests -> Named] /\ trouble' \in [Requests -> BOOLEAN]
    BY <1>7 DEF VerifyFallback, Found
  <2>3. QED
    BY <1>7, <2>1, <2>2 DEF VerifyFallback
<1>8. CASE CacheAccount(r)
  BY <1>8, <1>p DEF CacheAccount, Goes
<1>9. CASE Dropped(r)
  BY <1>9, <1>p DEF Dropped, Goes
<1>10. QED
  BY <1>1, <1>2, <1>3, <1>4, <1>5, <1>6, <1>7, <1>8, <1>9 DEF Request

LEMMA OutsideTypes ==
  ASSUME TypeOK, CacheExpires \/ Tick \/ (\E a \in Accounts : ChangeKeys(a))
  PROVE  TypeOK'
<1> USE DEF TypeOK, vars, checkVars, resolveVars, history, Named
<1>1. CASE CacheExpires
  BY <1>1 DEF CacheExpires
<1>2. CASE Tick
  BY <1>2 DEF Tick
<1>3. ASSUME NEW a \in Accounts, ChangeKeys(a) PROVE TypeOK'
  <2>1. holds' \subseteq Accounts /\ changes' \in 0 .. MaxChanges
    BY <1>3 DEF ChangeKeys
  <2>2. seen' \in [Requests -> SUBSET Accounts]
    BY <1>3, <2>1 DEF ChangeKeys
  <2>3. steady' \in [Requests -> SUBSET Accounts]
    BY <1>3, <2>1 DEF ChangeKeys
  <2>4. QED
    BY <1>3, <2>1, <2>2, <2>3 DEF ChangeKeys
<1>4. QED
  BY <1>1, <1>2, <1>3

-----------------------------------------------------------------------------
(* Nonces.                                                                 *)

NoncesOK == NonceInv /\ ApartInv

LEMMA InitNonces == Init => NoncesOK
BY DEF Init, NoncesOK, NonceInv, ApartInv, Admitted, Awaiting

(* A step that admits nothing and records nothing.                         *)
LEMMA NonceFrame ==
  ASSUME TypeOK, NoncesOK,
         UNCHANGED <<nonces, msg, checked, recorded>>,
         clock <= clock',
         \A r \in Requests : /\ Admitted(r)' => Admitted(r)
                             /\ phase'[r] \in Awaiting => phase[r] \in Awaiting,
         TypeOK'
  PROVE  NoncesOK'
<1> USE DEF NoncesOK
<1>1. NonceInv'
  BY DEF NonceInv, TypeOK
<1>2. ApartInv'
  BY DEF ApartInv
<1>3. QED
  BY <1>1, <1>2

(* Redis remembers a nonce longer than before, and no request is admitted. *)
LEMMA RefuseNonces ==
  ASSUME TypeOK, NoncesOK, NEW r \in Requests, Admit(r), RefuseBody(r), TypeOK'
  PROVE  NoncesOK'
<1>1. phase' = [phase EXCEPT ![r] = "refused"] /\ phase[r] = "reading"
  BY DEF RefuseBody, Goes
<1>2. /\ UNCHANGED <<clock, checked, recorded>>
      /\ msg' = msg
  BY DEF Admit, RefuseBody, checkVars
<1>3. \A s \in Requests : /\ Admitted(s)' => Admitted(s)
                          /\ phase'[s] \in Awaiting => phase[s] \in Awaiting
  BY <1>1 DEF Admitted, Awaiting, TypeOK
<1>4. \A m \in Messages : nonces[m] <= nonces'[m]
  <2>1. CASE nonces' = nonces
    BY <2>1 DEF TypeOK
  <2>2. CASE /\ ~Remembered(msg[r])
             /\ nonces' = [nonces EXCEPT ![msg[r]] = clock + Ttl]
    BY <2>2 DEF TypeOK, Remembered
  <2>3. QED
    BY <2>1, <2>2 DEF RefuseBody
<1>5. NonceInv'
  <2> SUFFICES ASSUME NEW s \in Requests
               PROVE  /\ phase'[s] \in Awaiting => checked[s] <= clock
                      /\ phase'[s] \in Awaiting \/ Admitted(s)' =>
                           /\ Stamp[msg[s]] - Window <= checked[s]
                           /\ checked[s] <= Stamp[msg[s]] + Window
                      /\ Admitted(s)' =>
                           /\ checked[s] <= recorded[s]
                           /\ recorded[s] <= clock
                           /\ recorded[s] + Ttl <= nonces'[msg[s]]
    BY <1>2 DEF NonceInv
  <2>1. nonces[msg[s]] <= nonces'[msg[s]] /\ recorded[s] \in Nat
        /\ nonces[msg[s]] \in Nat /\ nonces'[msg[s]] \in Nat
    BY <1>4 DEF TypeOK
  <2>2. QED
    BY <1>3, <2>1 DEF NoncesOK, NonceInv
<1>6. ApartInv'
  BY <1>2, <1>3 DEF NoncesOK, ApartInv
<1>7. QED
  BY <1>5, <1>6 DEF NoncesOK

(* The nonce of a request that is admitted was forgotten, so every earlier *)
(* admission of its message lies one life of the nonce back.               *)
LEMMA RecordNonces ==
  ASSUME TypeOK, NoncesOK, NEW r \in Requests, Admit(r), RecordFor(r, Ttl), TypeOK'
  PROVE  NoncesOK'
<1>1. phase' = [phase EXCEPT ![r] = "lookup"] /\ phase[r] = "reading"
  BY DEF RecordFor, Goes
<1>2. UNCHANGED <<clock, msg, checked>>
  BY DEF Admit, checkVars
<1>3. /\ recorded'[r] = clock
      /\ \A s \in Requests \ {r} : recorded'[s] = recorded[s]
  BY DEF RecordFor, TypeOK
<1>4. /\ nonces'[msg[r]] = clock + Ttl
      /\ nonces[msg[r]] <= clock
      /\ \A m \in Messages : nonces[m] <= nonces'[m]
  BY DEF RecordFor, TypeOK, Remembered
<1>5. /\ ~Admitted(r) /\ phase[r] \in Awaiting
      /\ \A s \in Requests \ {r} : /\ Admitted(s)' <=> Admitted(s)
                                   /\ phase'[s] = phase[s]
  BY <1>1 DEF Admitted, Awaiting, TypeOK
<1>6. \A s \in Requests : /\ clock \in Nat /\ Ttl \in Nat /\ recorded[s] \in Nat
                          /\ checked[s] \in Nat /\ msg[s] \in Messages
                          /\ nonces[msg[s]] \in Nat /\ nonces'[msg[s]] \in Nat
  BY DEF TypeOK
<1>7. NonceInv'
  <2>1. ASSUME NEW s \in Requests, s # r
        PROVE  /\ phase'[s] \in Awaiting => checked[s] <= clock
               /\ phase'[s] \in Awaiting \/ Admitted(s)' =>
                    /\ Stamp[msg[s]] - Window <= checked[s]
                    /\ checked[s] <= Stamp[msg[s]] + Window
               /\ Admitted(s)' =>
                    /\ checked[s] <= recorded'[s]
                    /\ recorded'[s] <= clock
                    /\ recorded'[s] + Ttl <= nonces'[msg[s]]
    <3>1. nonces[msg[s]] <= nonces'[msg[s]]
      BY <1>4, <1>6
    <3>2. QED
      BY <1>3, <1>5, <1>6, <2>1, <3>1 DEF NoncesOK, NonceInv
  <2>2. /\ checked[r] <= clock
        /\ Stamp[msg[r]] - Window <= checked[r]
        /\ checked[r] <= Stamp[msg[r]] + Window
    BY <1>5 DEF NoncesOK, NonceInv
  <2>3. recorded'[r] + Ttl <= nonces'[msg[r]] /\ recorded'[r] <= clock
    BY <1>3, <1>4, <1>6
  <2>4. QED
    BY <1>2, <1>3, <2>1, <2>2, <2>3 DEF NonceInv
<1>8. ApartInv'
  <2>1. ASSUME NEW s \in Requests, s # r, Admitted(s), msg[s] = msg[r]
        PROVE  recorded[s] + Ttl <= recorded'[r]
    <3>1. recorded[s] + Ttl <= nonces[msg[r]]
      BY <2>1 DEF NoncesOK, NonceInv
    <3>2. QED
      BY <1>3, <1>4, <1>6, <3>1
  <2>2. QED
    BY <1>2, <1>3, <1>5, <2>1 DEF NoncesOK, ApartInv
<1>9. QED
  BY <1>7, <1>8 DEF NoncesOK

LEMMA ArriveNonces ==
  ASSUME TypeOK, NoncesOK, NEW r \in Requests, Arrive(r), TypeOK'
  PROVE  NoncesOK'
<1>1. UNCHANGED <<clock, nonces, msg, recorded>>
  BY DEF Arrive
<1>2. \A s \in Requests \ {r} : phase'[s] = phase[s] /\ checked'[s] = checked[s]
  BY DEF Arrive, Goes, TypeOK
<1>3. /\ ~Admitted(r)'
      /\ \A s \in Requests \ {r} : Admitted(s)' <=> Admitted(s)
  BY <1>2 DEF Arrive, Goes, TypeOK, Admitted, Awaiting
<1>4. /\ checked'[r] = clock
      /\ phase'[r] \in Awaiting =>
           /\ Stamp[msg[r]] - Window <= clock
           /\ clock <= Stamp[msg[r]] + Window
  <2>1. checked'[r] = clock
    BY DEF Arrive, TypeOK
  <2>2. phase'[r] \in Awaiting => InWindow(msg[r])
    BY DEF Arrive, Goes, TypeOK, Awaiting
  <2>3. Stamp[msg[r]] \in Nat /\ clock \in Nat
    BY DEF TypeOK
  <2>4. QED
    BY <2>1, <2>2, <2>3 DEF InWindow
<1>5. NonceInv'
  <2>1. ASSUME NEW s \in Requests, s # r
        PROVE  /\ phase'[s] \in Awaiting => checked'[s] <= clock
               /\ phase'[s] \in Awaiting \/ Admitted(s)' =>
                    /\ Stamp[msg[s]] - Window <= checked'[s]
                    /\ checked'[s] <= Stamp[msg[s]] + Window
               /\ Admitted(s)' =>
                    /\ checked'[s] <= recorded[s]
                    /\ recorded[s] <= clock
                    /\ recorded[s] + Ttl <= nonces[msg[s]]
    BY <1>2, <1>3, <2>1 DEF NoncesOK, NonceInv
  <2>2. clock <= clock
    BY DEF TypeOK
  <2>3. QED
    BY <1>1, <1>3, <1>4, <2>1, <2>2 DEF NonceInv
<1>6. ApartInv'
  BY <1>1, <1>3 DEF NoncesOK, ApartInv
<1>7. QED
  BY <1>5, <1>6 DEF NoncesOK

LEMMA NextNonces ==
  ASSUME TypeOK, NoncesOK, [Next]_vars, TypeOK'
  PROVE  NoncesOK'
<1> USE DEF checkVars, resolveVars, history
<1>c. clock <= clock
  BY DEF TypeOK
<1>1. ASSUME NEW r \in Requests, Request(r) PROVE NoncesOK'
  <2>1. CASE Arrive(r)
    BY <2>1, ArriveNonces
  <2>2. CASE Admit(r)
    BY <2>2, RefuseNonces, RecordNonces DEF Admit
  <2>3. ASSUME UNCHANGED <<clock, nonces, msg, checked, recorded>>,
               NEW p \in Awaiting \ {"reading"},
               NEW q \in (Awaiting \ {"reading"}) \cup {"unresolved", "accepted", "gone"},
               Goes(r, p, q)
        PROVE  NoncesOK'
    <3>1. \A s \in Requests : /\ Admitted(s)' => Admitted(s)
                              /\ phase'[s] \in Awaiting => phase[s] \in Awaiting
      BY <2>3 DEF Goes, Admitted, TypeOK
    <3>2. QED
      BY <1>c, <2>3, <3>1, NonceFrame
  <2>a. /\ {"lookup", "verifying", "scanning", "fallback", "caching"}
             \subseteq Awaiting \ {"reading"}
    BY DEF Awaiting
  <2>4. CASE Lookup(r)
    BY <2>3, <2>4, <2>a DEF Lookup, Scans
  <2>5. CASE VerifyCached(r)
    BY <2>3, <2>5, <2>a DEF VerifyCached, Scans
  <2>6. ASSUME NEW a \in Registry, ScanAccount(r, a) PROVE NoncesOK'
    BY <2>3, <2>6, <2>a DEF ScanAccount, Found
  <2>7. CASE ScanEnds(r)
    BY <2>3, <2>7, <2>a DEF ScanEnds
  <2>8. CASE VerifyFallback(r)
    BY <2>3, <2>8, <2>a DEF VerifyFallback, Found
  <2>9. CASE CacheAccount(r)
    BY <2>3, <2>9, <2>a DEF CacheAccount
  <2>10. CASE Dropped(r)
    <3>1. \A s \in Requests : /\ Admitted(s)' => Admitted(s)
                              /\ phase'[s] \in Awaiting => phase[s] \in Awaiting
      BY <2>10 DEF Dropped, Goes, Admitted, Awaiting, TypeOK
    <3>2. QED
      BY <1>c, <2>10, <3>1, NonceFrame DEF Dropped
  <2>11. QED
    BY <1>1, <2>1, <2>2, <2>4, <2>5, <2>6, <2>7, <2>8, <2>9, <2>10 DEF Request
<1>2. ASSUME NEW a \in Accounts, ChangeKeys(a) PROVE NoncesOK'
  BY <1>2, <1>c, NonceFrame DEF ChangeKeys, Admitted
<1>3. CASE CacheExpires
  BY <1>3, <1>c, NonceFrame DEF CacheExpires, Admitted
<1>4. CASE Tick
  <2>1. clock <= clock'
    BY <1>4 DEF Tick, TypeOK
  <2>2. QED
    BY <1>4, <2>1, NonceFrame DEF Tick, Admitted
<1>5. CASE UNCHANGED vars
  BY <1>5, <1>c, NonceFrame DEF vars, Admitted
<1>6. QED
  BY <1>1, <1>2, <1>3, <1>4, <1>5 DEF Next

-----------------------------------------------------------------------------
(* The resolution of the account.                                          *)

ResolvedOK == ResolveInv /\ SteadyKeyIsAccepted

LEMMA InitResolved == Init => ResolvedOK
BY DEF Init, ResolvedOK, ResolveInv, SteadyKeyIsAccepted, Awaiting

(* What ResolvedOK says of one request that awaits an answer or has one.   *)
Reads(p, h, a, t, tr, sn, st, f) ==
  /\ p \in Awaiting => st \subseteq h /\ h \subseteq sn
  /\ p \in {"caching", "accepted"} => a \in sn
  /\ p \in {"scanning", "fallback", "unresolved"} /\ ~tr =>
       st \cap (Registry \ t) = {}
  /\ p \in {"fallback", "unresolved"} /\ ~tr => t = {}
  /\ p = "unresolved" /\ ~tr => st \cap (Registry \cup {f}) = {}

ReadsOf(r) ==
  Reads(phase[r], holds, account[r], todo[r], trouble[r], seen[r], steady[r],
        Fallback(r))

LEMMA ResolvedIsPointwise ==
  ResolvedOK <=> \A r \in Requests : ReadsOf(r)
BY DEF ResolvedOK, ResolveInv, SteadyKeyIsAccepted, ReadsOf, Reads

LEMMA RequestResolved ==
  ASSUME TypeOK, NEW r \in Requests, Request(r), ReadsOf(r), TypeOK'
  PROVE  ReadsOf(r)'
<1> USE DEF ReadsOf, Reads, Goes, checkVars, resolveVars, history
<1>t. /\ phase[r] \in Phases /\ holds \subseteq Accounts /\ todo[r] \subseteq Registry
      /\ phase \in [Requests -> Phases] /\ account \in [Requests -> Named]
      /\ todo \in [Requests -> SUBSET Registry] /\ trouble \in [Requests -> BOOLEAN]
      /\ seen \in [Requests -> SUBSET Accounts]
      /\ steady \in [Requests -> SUBSET Accounts]
  BY DEF TypeOK
<1>a. Awaiting = {"reading", "lookup", "verifying", "scanning", "fallback", "caching"}
  BY DEF Awaiting
<1>1. CASE Arrive(r)
  BY <1>1, <1>t, <1>a DEF Arrive
<1>2. CASE Admit(r)
  BY <1>2, <1>t, <1>a DEF Admit, RecordFor, RefuseBody
<1>3. CASE Lookup(r)
  BY <1>3, <1>t, <1>a DEF Lookup, Scans
<1>4. CASE VerifyCached(r)
  BY <1>4, <1>t, <1>a DEF VerifyCached, Scans
<1>f. \/ UNCHANGED <<msg, hint>> /\ Fallback(r)' = Fallback(r)
      \/ Arrive(r) \/ Admit(r) \/ Lookup(r) \/ VerifyCached(r)
  BY DEF Request, ScanAccount, ScanEnds, VerifyFallback, CacheAccount, Dropped,
         Fallback
<1>5. ASSUME NEW a \in Registry, ScanAccount(r, a) PROVE ReadsOf(r)'
  <2>1. CASE Found(r, "scanning", a)
    BY <1>5, <2>1, <1>t, <1>a DEF ScanAccount, Found
  <2>2. CASE ~Found(r, "scanning", a)
    <3>1. /\ phase[r] = "scanning" /\ phase'[r] = "scanning"
          /\ todo'[r] = todo[r] \ {a}
          /\ (a \notin holds /\ trouble'[r] = trouble[r]) \/ trouble'[r] = TRUE
          /\ UNCHANGED <<holds, account, seen, steady>>
      BY <1>5, <2>2, <1>t DEF ScanAccount
    <3>2. QED
      BY <3>1, <1>t, <1>a
  <2>3. QED
    BY <2>1, <2>2
<1>6. CASE ScanEnds(r)
  BY <1>6, <1>t, <1>a DEF ScanEnds
<1>7. CASE VerifyFallback(r)
  <2>1. CASE Found(r, "fallback", Fallback(r))
    BY <1>7, <2>1, <1>t, <1>a DEF VerifyFallback, Found
  <2>2. CASE ~Found(r, "fallback", Fallback(r))
    <3>1. /\ phase[r] = "fallback" /\ phase'[r] = "unresolved"
          /\ (Fallback(r) \notin holds /\ trouble'[r] = trouble[r]) \/ trouble'[r] = TRUE
          /\ UNCHANGED <<holds, account, seen, steady, todo>>
      BY <1>7, <2>2, <1>t DEF VerifyFallback
    <3>2. Fallback(r)' = Fallback(r)
      BY <1>7 DEF VerifyFallback, Fallback
    <3>3. QED
      BY <3>1, <3>2, <1>t, <1>a
  <2>3. QED
    BY <2>1, <2>2
<1>8. CASE CacheAccount(r)
  BY <1>8, <1>t, <1>a DEF CacheAccount
<1>9. CASE Dropped(r)
  BY <1>9, <1>t, <1>a DEF Dropped
<1>10. QED
  BY <1>1, <1>2, <1>3, <1>4, <1>5, <1>6, <1>7, <1>8, <1>9 DEF Request

(* A request's step changes nothing that another one has read.             *)
LEMMA OtherRequest ==
  ASSUME TypeOK, NEW r \in Requests, NEW s \in Requests \ {r}, Request(r)
  PROVE  ReadsOf(s)' <=> ReadsOf(s)
<1> USE DEF TypeOK, Goes, checkVars, resolveVars, history
<1>1. phase'[s] = phase[s]
  BY DEF Request, Arrive, Admit, RecordFor, RefuseBody, Lookup, Scans, VerifyCached,
         ScanAccount, Found, ScanEnds, VerifyFallback, CacheAccount, Dropped
<1>2. account'[s] = account[s] /\ todo'[s] = todo[s] /\ trouble'[s] = trouble[s]
  BY DEF Request, Arrive, Admit, RecordFor, RefuseBody, Lookup, Scans, VerifyCached,
         ScanAccount, Found, ScanEnds, VerifyFallback, CacheAccount, Dropped
<1>3. /\ seen'[s] = seen[s] /\ steady'[s] = steady[s]
      /\ UNCHANGED <<holds, msg, hint>>
  BY DEF Request, Arrive, Admit, Lookup, VerifyCached, ScanAccount, ScanEnds,
         VerifyFallback, CacheAccount, Dropped
<1>4. QED
  BY <1>1, <1>2, <1>3 DEF ReadsOf, Fallback

(* The chain changes under the requests that await an answer.              *)
LEMMA ChangeResolved ==
  ASSUME TypeOK, NEW a \in Accounts, ChangeKeys(a), NEW r \in Requests, ReadsOf(r)
  PROVE  ReadsOf(r)'
<1>1. /\ UNCHANGED <<phase, account, todo, trouble>>
      /\ Fallback(r)' = Fallback(r)
  BY DEF ChangeKeys, resolveVars, checkVars, Fallback
<1>2. CASE phase[r] \in Awaiting
  <2>1. seen'[r] = seen[r] \cup holds' /\ steady'[r] = steady[r] \cap holds'
    BY <1>2 DEF ChangeKeys
  <2>2. QED
    BY <1>1, <1>2, <2>1 DEF ReadsOf, Reads
<1>3. CASE phase[r] \notin Awaiting
  <2>1. seen'[r] = seen[r] /\ steady'[r] = steady[r]
    BY <1>3 DEF ChangeKeys
  <2>2. QED
    BY <1>1, <1>3, <2>1 DEF ReadsOf, Reads
<1>4. QED
  BY <1>2, <1>3

LEMMA NextResolved ==
  ASSUME TypeOK, ResolvedOK, [Next]_vars, TypeOK'
  PROVE  ResolvedOK'
<1>1. \A r \in Requests : ReadsOf(r)
  BY ResolvedIsPointwise
<1>2. SUFFICES ASSUME NEW r \in Requests PROVE ReadsOf(r)'
  BY DEF ResolvedOK, ResolveInv, SteadyKeyIsAccepted, ReadsOf, Reads
<1>3. CASE \E s \in Requests : Request(s)
  BY <1>1, <1>3, RequestResolved, OtherRequest
<1>4. CASE \E a \in Accounts : ChangeKeys(a)
  BY <1>1, <1>4, ChangeResolved
<1>5. CASE CacheExpires \/ Tick \/ UNCHANGED vars
  BY <1>1, <1>5 DEF CacheExpires, Tick, vars, checkVars, resolveVars, history,
                    ReadsOf, Fallback
<1>6. QED
  BY <1>3, <1>4, <1>5 DEF Next

-----------------------------------------------------------------------------
(* The theorems.                                                           *)

(* AuthInv is an invariant: nonces, and what requests have read of the     *)
(* chain, under every interleaving of requests, time and the chain.        *)
THEOREM AuthInvariance == Spec => []AuthInv
<1> USE DEF AuthInv, NoncesOK, ResolvedOK
<1>1. Init => AuthInv
  BY InitTypes, InitNonces, InitResolved
<1>2. AuthInv /\ [Next]_vars => AuthInv'
  <2> SUFFICES ASSUME AuthInv, [Next]_vars PROVE AuthInv'
    OBVIOUS
  <2>1. TypeOK'
    <3>1. CASE UNCHANGED vars
      BY <3>1 DEF TypeOK, vars, checkVars, resolveVars, history
    <3>2. QED
      BY <3>1, RequestTypes, OutsideTypes DEF Next
  <2>2. QED
    BY <2>1, NextNonces, NextResolved
<1>3. QED
  BY <1>1, <1>2, PTL DEF Spec

(* A request runs only for an account that listed its key while it was     *)
(* being authenticated (resolve_account).                                  *)
THEOREM AuthAccepted == Spec => []AcceptedWasDelegate
<1>1. AuthInv => AcceptedWasDelegate
  BY DEF AuthInv, ResolveInv, AcceptedWasDelegate
<1>2. QED
  BY <1>1, AuthInvariance, PTL

(* Without failed reads a key that an account kept is never refused.       *)
THEOREM AuthNoLockOut == Spec => []SteadyKeyIsAccepted
<1>1. AuthInv => SteadyKeyIsAccepted
  BY DEF AuthInv
<1>2. QED
  BY <1>1, AuthInvariance, PTL

(* What a second admission of one message takes: a nonce that has expired, *)
(* a client's clock that led, and a body that kept the relayer waiting.    *)
THEOREM AuthNonces == Spec => []SecondAdmissionNeedsLead
<1>1. AuthInv => SecondAdmissionNeedsLead
  <2> SUFFICES ASSUME AuthInv, NEW r \in Requests, NEW s \in Requests,
                      r # s, Admitted(r), Admitted(s), msg[r] = msg[s],
                      recorded[r] <= recorded[s]
               PROVE  /\ recorded[r] + Ttl <= recorded[s]
                      /\ Ttl - Window <=
                           (Stamp[msg[r]] - checked[r]) + (recorded[s] - checked[s])
    BY DEF SecondAdmissionNeedsLead
  <2>1. /\ recorded[r] \in Nat /\ recorded[s] \in Nat
        /\ checked[r] \in Nat /\ checked[s] \in Nat /\ Stamp[msg[r]] \in Nat
    BY DEF AuthInv, TypeOK
  <2>2. recorded[r] + Ttl <= recorded[s]
    BY <2>1 DEF AuthInv, ApartInv
  <2>3. checked[r] <= recorded[r] /\ checked[s] <= Stamp[msg[r]] + Window
    BY DEF AuthInv, NonceInv
  <2>4. QED
    BY <2>1, <2>2, <2>3
<1>2. QED
  BY <1>1, AuthInvariance, PTL
=============================================================================
