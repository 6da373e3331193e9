--------------------------- MODULE Authentication ---------------------------
(***************************************************************************)
(* The authentication of a request (auth.rs, sui.rs, the cache of db.rs).  *)
(* A signed message is checked against the clock, its body is awaited, its *)
(* nonce is recorded in Redis, and the delegate key is resolved to an      *)
(* account: the cache row verified on chain, else the registry scanned,    *)
(* else the account the client or the configuration names.  Meanwhile the  *)
(* clock moves, the key is added to and removed from accounts, and other   *)
(* requests record nonces and write the cache row.                         *)
(*                                                                         *)
(* All requests are signed with one delegate key: those of other keys      *)
(* share no cache row with them.                                           *)
(***************************************************************************)
EXTENDS Integers

CONSTANTS
  Requests,   \* HTTP requests
  Messages,   \* signed messages: one nonce each, possibly delivered again
  Stamp,      \* Stamp[m]: x-timestamp of m, by the clock of its client
  Accounts,   \* MemWalAccount objects
  Registry,   \* those that the AccountRegistry lists
  NoAccount,  \* no account (no cache row, no x-account-id header)
  Default,    \* config.memwal_account_id, or NoAccount
  Window,     \* 300 s: how far Stamp may be from the clock
  Ttl,        \* 600 s: life of a recorded nonce
  MaxClock,   \* bound: last time
  MaxChanges  \* bound: changes of the accounts' delegate keys

ASSUME AccountsAssumption ==
  /\ Registry \subseteq Accounts
  /\ NoAccount \notin Accounts
  /\ Default \in Accounts \cup {NoAccount}

ASSUME TimeAssumption ==
  /\ Stamp \in [Messages -> Nat]
  /\ Window \in Nat
  /\ Ttl \in Nat \ {0}
  /\ MaxClock \in Nat

ASSUME MaxChangesAssumption == MaxChanges \in Nat

VARIABLES
  clock,
  nonces,    \* nonces[m]: the time at which Redis forgets the nonce
  cache,     \* account of the live delegate_key_cache row, or NoAccount
  holds,     \* accounts whose delegate_keys list the key, on chain
  changes,
  phase,     \* phase[r]: where request r is
  msg,       \* msg[r]: the message it carries
  hint,      \* hint[m]: the x-account-id signed with m, or NoAccount
  checked,   \* checked[r]: the clock when its timestamp was checked
  recorded,  \* recorded[r]: the clock when its nonce was recorded
  account,   \* account[r]: the account being verified, or accepted
  todo,      \* todo[r]: registry entries its scan has still to read
  trouble,   \* trouble[r]: the scan or the fallback of r failed to read (history)
  seen,      \* seen[r]: accounts that held the key at some time of r (history)
  steady     \* steady[r]: accounts that held it at every time of r (history)

checkVars   == <<msg, hint, checked>>
resolveVars == <<account, todo, trouble>>
history     == <<seen, steady>>
vars        == <<clock, nonces, cache, holds, changes, phase, checkVars,
                 recorded, resolveVars, history>>

Named    == Accounts \cup {NoAccount}
Awaiting == {"reading", "lookup", "verifying", "scanning", "fallback", "caching"}
Phases   == Awaiting \cup {"new", "refused", "unresolved", "accepted", "gone"}

(* The nonce of an admitted request was recorded by that request.          *)
Admitted(r) ==
  phase[r] \in (Awaiting \ {"reading"}) \cup {"unresolved", "accepted"}

TypeOK ==
  /\ clock \in 0 .. MaxClock
  /\ nonces \in [Messages -> Nat]
  /\ cache \in Named
  /\ holds \subseteq Accounts
  /\ changes \in 0 .. MaxChanges
  /\ phase \in [Requests -> Phases]
  /\ msg \in [Requests -> Messages]
  /\ hint \in [Messages -> Named]
  /\ checked \in [Requests -> Nat]
  /\ recorded \in [Requests -> Nat]
  /\ account \in [Requests -> Named]
  /\ todo \in [Requests -> SUBSET Registry]
  /\ trouble \in [Requests -> BOOLEAN]
  /\ seen \in [Requests -> SUBSET Accounts]
  /\ steady \in [Requests -> SUBSET Accounts]

Init ==
  /\ clock = 0
  /\ nonces = [m \in Messages |-> 0]
  /\ cache = NoAccount
  /\ holds \in SUBSET Accounts
  /\ changes = 0
  /\ phase = [r \in Requests |-> "new"]
  /\ msg \in [Requests -> Messages]
  /\ hint \in [Messages -> Named]
  /\ checked = [r \in Requests |-> 0]
  /\ recorded = [r \in Requests |-> 0]
  /\ account = [r \in Requests |-> NoAccount]
  /\ todo = [r \in Requests |-> {}]
  /\ trouble = [r \in Requests |-> FALSE]
  /\ seen = [r \in Requests |-> {}]
  /\ steady = [r \in Requests |-> {}]

Goes(r, from, to) ==
  /\ phase[r] = from
  /\ phase' = [phase EXCEPT ![r] = to]

-----------------------------------------------------------------------------
(* verify_signature.                                                       *)

InWindow(m) == (clock - Stamp[m]) \in (-Window) .. Window

(* Headers and time-stamp; a header that is missing or malformed refuses.  *)
Arrive(r) ==
  /\ \/ Goes(r, "new", "refused")
     \/ Goes(r, "new", "reading") /\ InWindow(msg[r])
  /\ checked' = [checked EXCEPT ![r] = clock]
  /\ seen' = [seen EXCEPT ![r] = holds]
  /\ steady' = [steady EXCEPT ![r] = holds]
  /\ UNCHANGED <<clock, nonces, cache, holds, changes, msg, hint, recorded,
                 resolveVars>>

Remembered(m) == clock < nonces[m]

RecordFor(r, ttl) ==
  /\ ~Remembered(msg[r])
  /\ Goes(r, "reading", "lookup")
  /\ nonces' = [nonces EXCEPT ![msg[r]] = clock + ttl]
  /\ recorded' = [recorded EXCEPT ![r] = clock]

(* The body is too large or broken, or the signature does not verify; the  *)
(* nonce is known; or Redis fails, before or after it executed the SET.    *)
RefuseBody(r) ==
  /\ Goes(r, "reading", "refused")
  /\ UNCHANGED recorded
  /\ \/ UNCHANGED nonces
     \/ /\ ~Remembered(msg[r])
        /\ nonces' = [nonces EXCEPT ![msg[r]] = clock + Ttl]

AdmitForWindow(r) ==
  /\ RecordFor(r, Window) \/ RefuseBody(r)
  /\ UNCHANGED <<clock, cache, holds, changes, checkVars, resolveVars, history>>

AdmitAnyNonce(r) ==
  /\ \/ /\ Goes(r, "reading", "lookup")
        /\ nonces' = [nonces EXCEPT ![msg[r]] = clock + Ttl]
        /\ recorded' = [recorded EXCEPT ![r] = clock]
     \/ RefuseBody(r)
  /\ UNCHANGED <<clock, cache, holds, changes, checkVars, resolveVars, history>>

(* SET nonce:<n> NX EX 600, once the body is read and the signature holds. *)
Admit(r) ==
  /\ RecordFor(r, Ttl) \/ RefuseBody(r)
  /\ UNCHANGED <<clock, cache, holds, changes, checkVars, resolveVars, history>>

-----------------------------------------------------------------------------
(* resolve_account.  Each step is one answer of PostgreSQL or of the Sui   *)
(* full node, which reads the accounts as they are at that moment.         *)

Scans(r, from) ==
  /\ Goes(r, from, "scanning")
  /\ todo' = [todo EXCEPT ![r] = Registry]

(* An unreadable cache counts as an empty one.                             *)
Lookup(r) ==
  /\ \/ /\ Scans(r, "lookup")
        /\ UNCHANGED account
     \/ /\ Goes(r, "lookup", "verifying")
        /\ cache # NoAccount
        /\ account' = [account EXCEPT ![r] = cache]
        /\ UNCHANGED todo
  /\ UNCHANGED <<clock, nonces, cache, holds, changes, checkVars, recorded,
                 trouble, history>>

VerifyCachedTrusting(r) ==
  /\ Goes(r, "verifying", "accepted")
  /\ UNCHANGED <<clock, nonces, cache, holds, changes, checkVars, recorded,
                 resolveVars, history>>

VerifyCachedFinally(r) ==
  /\ \/ /\ Goes(r, "verifying", "accepted")
        /\ account[r] \in holds
     \/ /\ Goes(r, "verifying", "unresolved")
        /\ account[r] \notin holds
  /\ UNCHANGED <<clock, nonces, cache, holds, changes, checkVars, recorded,
                 resolveVars, history>>

(* verify_delegate_key_onchain on the cached account: a key that is gone   *)
(* and a read that fails both lead to the scan.                            *)
VerifyCached(r) ==
  /\ \/ /\ Goes(r, "verifying", "accepted")
        /\ account[r] \in holds
        /\ UNCHANGED todo
     \/ Scans(r, "verifying")
  /\ UNCHANGED <<clock, nonces, cache, holds, changes, checkVars, recorded,
                 account, trouble, history>>

Found(r, from, a) ==
  /\ Goes(r, from, "caching")
  /\ a \in holds
  /\ account' = [account EXCEPT ![r] = a]

(* find_account_by_delegate_key reads one entry of the table: the account  *)
(* holds the key, or does not, or its field is unreadable and skipped.     *)
ScanAccount(r, a) ==
  /\ a \in todo[r]
  /\ \/ Found(r, "scanning", a) /\ UNCHANGED <<todo, trouble>>
     \/ /\ Goes(r, "scanning", "scanning")
        /\ todo' = [todo EXCEPT ![r] = @ \ {a}]
        /\ \/ a \notin holds /\ UNCHANGED trouble
           \/ trouble' = [trouble EXCEPT ![r] = TRUE]
        /\ UNCHANGED account
  /\ UNCHANGED <<clock, nonces, cache, holds, changes, checkVars, recorded,
                 history>>

(* Every entry was read, or one read failed and ended the scan.            *)
ScanEnds(r) ==
  /\ Goes(r, "scanning", "fallback")
  /\ \/ todo[r] = {} /\ UNCHANGED trouble
     \/ trouble' = [trouble EXCEPT ![r] = TRUE]
  /\ UNCHANGED <<clock, nonces, cache, holds, changes, checkVars, recorded,
                 account, todo, history>>

(* The header, or else the configuration, names the account to verify.     *)
Fallback(r) == IF hint[msg[r]] # NoAccount THEN hint[msg[r]] ELSE Default

VerifyFallback(r) ==
  /\ \/ Found(r, "fallback", Fallback(r)) /\ UNCHANGED trouble
     \/ /\ Goes(r, "fallback", "unresolved")
        /\ Fallback(r) \notin holds
        /\ UNCHANGED <<account, trouble>>
     \/ /\ Goes(r, "fallback", "unresolved")
        /\ Fallback(r) # NoAccount
        /\ trouble' = [trouble EXCEPT ![r] = TRUE]
        /\ UNCHANGED account
  /\ UNCHANGED <<clock, nonces, cache, holds, changes, checkVars, recorded,
                 todo, history>>

(* `let _ = cache_delegate_key(..)`: an upsert whose failure is ignored.   *)
CacheAccount(r) ==
  /\ Goes(r, "caching", "accepted")
  /\ cache' \in {cache, account[r]}
  /\ UNCHANGED <<clock, nonces, holds, changes, checkVars, recorded,
                 resolveVars, history>>

(* The connection closes: axum drops the future at its await.              *)
Dropped(r) ==
  /\ \E p \in Awaiting : Goes(r, p, "gone")
  /\ UNCHANGED <<clock, nonces, cache, holds, changes, checkVars, recorded,
                 resolveVars, history>>

-----------------------------------------------------------------------------
(* The 24 hours of the row pass (at any time: the row is only a hint).     *)
CacheExpires ==
  /\ cache # NoAccount
  /\ cache' = NoAccount
  /\ UNCHANGED <<clock, nonces, holds, changes, phase, checkVars, recorded,
                 resolveVars, history>>

(* The owner of an account adds the key to it or removes it (external).    *)
ChangeKeys(a) ==
  /\ changes < MaxChanges
  /\ changes' = changes + 1
  /\ holds' = IF a \in holds THEN holds \ {a} ELSE holds \cup {a}
  /\ seen' = [r \in Requests |->
                IF phase[r] \in Awaiting THEN seen[r] \cup holds' ELSE seen[r]]
  /\ steady' = [r \in Requests |->
                IF phase[r] \in Awaiting THEN steady[r] \cap holds' ELSE steady[r]]
  /\ UNCHANGED <<clock, nonces, cache, phase, checkVars, recorded, resolveVars>>

Tick ==
  /\ clock < MaxClock
  /\ clock' = clock + 1
  /\ UNCHANGED <<nonces, cache, holds, changes, phase, checkVars, recorded,
                 resolveVars, history>>

-----------------------------------------------------------------------------
Request(r) ==
  \/ Arrive(r)
  \/ Admit(r)
  \/ Lookup(r)
  \/ VerifyCached(r)
  \/ \E a \in Registry : ScanAccount(r, a)
  \/ ScanEnds(r)
  \/ VerifyFallback(r)
  \/ CacheAccount(r)
  \/ Dropped(r)

Next ==
  \/ \E r \in Requests : Request(r)
  \/ \E a \in Accounts : ChangeKeys(a)
  \/ CacheExpires
  \/ Tick

Spec == Init /\ [][Next]_vars

-----------------------------------------------------------------------------
(* A request runs for an account that listed its key while the request was *)
(* being authenticated: no age of the cache row, no race of another        *)
(* request that writes it, and no fallback lets a removed key pass.        *)
AcceptedWasDelegate ==
  \A r \in Requests : phase[r] = "accepted" => account[r] \in seen[r]

(* Unless a read of the scan or the fallback fails, a key is refused only  *)
(* if no account that the registry, or the request, names held it all the  *)
(* time: neither a stale cache row nor a read of it that fails locks a     *)
(* client out.                                                             *)
SteadyKeyIsAccepted ==
  \A r \in Requests : phase[r] = "unresolved" /\ ~trouble[r] =>
    steady[r] \cap (Registry \cup {Fallback(r)}) = {}

(* A message delivered twice is admitted twice only after its nonce has    *)
(* expired, and only if the clock of its client led at the first check and *)
(* its second body kept the relayer waiting for, together, the Ttl less    *)
(* the Window: the timestamp is checked before that wait.                  *)
SecondAdmissionNeedsLead ==
  \A r, s \in Requests :
    (/\ r # s
     /\ Admitted(r)
     /\ Admitted(s)
     /\ msg[r] = msg[s]
     /\ recorded[r] <= recorded[s]) =>
       LET lead == Stamp[msg[r]] - checked[r]
           wait == recorded[s] - checked[s]
       IN /\ recorded[r] + Ttl <= recorded[s]
          /\ Ttl - Window <= lead + wait

-----------------------------------------------------------------------------
(* The inductive invariant behind the properties above.                    *)

(* The nonce of an admitted request is known until its time is over, and   *)
(* each request was checked within the window before it was recorded.      *)
NonceInv ==
  \A r \in Requests :
    /\ phase[r] \in Awaiting => checked[r] <= clock
    /\ phase[r] \in Awaiting \/ Admitted(r) =>
         Stamp[msg[r]] - Window <= checked[r] /\ checked[r] <= Stamp[msg[r]] + Window
    /\ Admitted(r) =>
         /\ checked[r] <= recorded[r]
         /\ recorded[r] <= clock
         /\ recorded[r] + Ttl <= nonces[msg[r]]

(* Two admissions of one message lie one life of the nonce apart.          *)
ApartInv ==
  \A r, s \in Requests :
    r # s /\ Admitted(r) /\ Admitted(s) /\ msg[r] = msg[s] =>
      \/ recorded[r] + Ttl <= recorded[s]
      \/ recorded[s] + Ttl <= recorded[r]

(* What a request has read of the chain, against what the chain was.       *)
ResolveInv ==
  \A r \in Requests :
    /\ phase[r] \in Awaiting => steady[r] \subseteq holds /\ holds \subseteq seen[r]
    /\ phase[r] \in {"caching", "accepted"} => account[r] \in seen[r]
    /\ phase[r] \in {"scanning", "fallback", "unresolved"} /\ ~trouble[r] =>
         steady[r] \cap (Registry \ todo[r]) = {}
    /\ phase[r] \in {"fallback", "unresolved"} /\ ~trouble[r] => todo[r] = {}

(* Type correctness with the facts on nonces and on the resolution that    *)
(* each step of a request, of the chain and of time keeps.                 *)
AuthInv ==
  TypeOK /\ NonceInv /\ ApartInv /\ ResolveInv /\ SteadyKeyIsAccepted
=============================================================================
