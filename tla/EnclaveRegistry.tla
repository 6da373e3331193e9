--------------------------- MODULE EnclaveRegistry ---------------------------
(***************************************************************************)
(* Who vouches for a response: enclave.rs signs with the key pair of its   *)
(* start and attests the key together with the image; enclave.move keeps   *)
(* the expected image and registers attested keys; a client that checks    *)
(* a response against the current enclave trusts the image.  Starts and    *)
(* ends of the relayer are those of Supervisor.                            *)
(***************************************************************************)
EXTENDS Supervisor, Sequences

CONSTANTS
  Debug,          \* in Images: an enclave in debug mode, which attests zeros
  Registrations,  \* bound: calls of register_enclave
  Upgrades        \* bound: versions of the package published after 0

ASSUME RegistryAssumption ==
  /\ Debug \in Images
  /\ Registrations \in Nat \ {0} /\ Upgrades \in Nat

VARIABLES
  docs,       \* attestation documents that clients fetched: key and PCRs
  responses,  \* responses that clients hold: key, and the image that signed
  package,    \* latest published package, the VERSION of its code
  config,     \* the EnclaveConfig
  enclaves    \* the Enclave objects, in the order of their creation

registryVars == <<docs, responses, package, config, enclaves>>
vars == <<supervisorVars, registryVars>>

None == 0

Keys == 1 .. Boots

Claims == [pk : Keys, pcrs : Images]

Enclaves ==
  [pk : Keys, pcrs : Images, config_version : 0 .. Upgrades,
   state : {"shared", "withdrawn", "destroyed"}]

TypeOK ==
  /\ SupervisorTypeOK
  /\ docs \subseteq Claims
  /\ responses \subseteq Claims
  /\ package \in 0 .. Upgrades
  /\ config \in [pcrs : Images, version : 0 .. Upgrades, current : 0 .. Registrations]
  /\ enclaves \in Seq(Enclaves)
  /\ Len(enclaves) <= Registrations

(* init of the package: the configuration expects zeros.                   *)
Init ==
  /\ SupervisorInit
  /\ docs = {} /\ responses = {} /\ package = 0
  /\ config = [pcrs |-> Debug, version |-> 0, current |-> None]
  /\ enclaves = <<>>

-----------------------------------------------------------------------------
(* GET /get_attestation: the document of this machine for this key; off an *)
(* enclave it is a mock that no chain accepts.                             *)
GetAttestation ==
  /\ relayer = "serving" /\ enclave_mode
  /\ docs' = docs \cup {[pk |-> eph_kp, pcrs |-> image]}
  /\ UNCHANGED <<supervisorVars, responses, package, config, enclaves>>

(* sign_response: intent, time and the hash of the data under the key.     *)
SignResponse ==
  /\ relayer = "serving"
  /\ responses' = responses \cup {[pk |-> eph_kp, pcrs |-> image]}
  /\ UNCHANGED <<supervisorVars, docs, package, config, enclaves>>

(* A package of a higher VERSION; the old ones can still be called.        *)
Upgrade ==
  /\ package < Upgrades
  /\ package' = package + 1
  /\ UNCHANGED <<supervisorVars, docs, responses, config, enclaves>>

Migrate(v) ==
  /\ config.version < v
  /\ config' = [config EXCEPT !.version = v]
  /\ UNCHANGED <<supervisorVars, docs, responses, package, enclaves>>

(* load_pk: the document, fetched at any time, has the expected PCRs.      *)
LoadAnyPk(d) == TRUE

LoadPk(d) == d.pcrs = config.pcrs

RegisterEnclave(d) ==
  /\ Len(enclaves) < Registrations
  /\ LoadPk(d)
  /\ enclaves' = Append(enclaves, [pk |-> d.pk, pcrs |-> d.pcrs,
                                   config_version |-> config.version, state |-> "shared"])
  /\ config' = [config EXCEPT !.current = Len(enclaves) + 1]
  /\ UNCHANGED <<supervisorVars, docs, responses, package>>

UpdatePcrsOnly(i) ==
  /\ config' = [config EXCEPT !.pcrs = i]
  /\ UNCHANGED <<supervisorVars, docs, responses, package, enclaves>>

UpdatePcrs(i) ==
  /\ config' = [config EXCEPT !.pcrs = i, !.current = None]
  /\ UNCHANGED <<supervisorVars, docs, responses, package, enclaves>>

(* destroy_old_enclave, with the Cap: not the current one, and one of an   *)
(* earlier version of the configuration.                                   *)
DestroyAnyOld(e) ==
  /\ enclaves[e].state = "shared"
  /\ enclaves[e].config_version < config.version
  /\ enclaves' = [enclaves EXCEPT ![e].state = "destroyed"]
  /\ UNCHANGED <<supervisorVars, docs, responses, package, config>>

DestroyOldEnclave(e) ==
  /\ enclaves[e].state = "shared"
  /\ config.current # e
  /\ enclaves[e].config_version < config.version
  /\ enclaves' = [enclaves EXCEPT ![e].state = "destroyed"]
  /\ UNCHANGED <<supervisorVars, docs, responses, package, config>>

(* deploy_old_enclave_by_owner: its owner deletes any of its own, old or   *)
(* not; the configuration is not told.                                     *)
DeployOldEnclaveByOwner(e) ==
  /\ enclaves[e].state = "shared"
  /\ enclaves' = [enclaves EXCEPT ![e].state = "withdrawn"]
  /\ UNCHANGED <<supervisorVars, docs, responses, package, config>>

(* Starts and ends of processes leave the chain and the clients alone.     *)
Processes ==
  /\ SupervisorNext
  /\ UNCHANGED registryVars

Next ==
  \/ Processes
  \/ GetAttestation \/ SignResponse
  \/ Upgrade
  \/ \E v \in 1 .. package : Migrate(v)
  \/ \E d \in docs : RegisterEnclave(d)
  \/ \E i \in Images : UpdatePcrs(i)
  \/ \E e \in DOMAIN enclaves : DestroyOldEnclave(e) \/ DeployOldEnclaveByOwner(e)

Spec == Init /\ [][Next]_vars

-----------------------------------------------------------------------------
(* is_current_enclave, of an object that a transaction can still use.      *)
IsCurrent(e) == config.current = e /\ enclaves[e].state = "shared"

(* verify_signature: the response's key is the enclave's.                  *)
Verifies(e, r) == enclaves[e].pk = r.pk

(* A response that verifies against the current enclave was signed by the  *)
(* image the configuration expects now: however starts of several images,  *)
(* documents fetched earlier, registrations and updates of the PCRs follow *)
(* each other.                                                             *)
TrustedImage ==
  \A e \in DOMAIN enclaves, r \in responses :
      IsCurrent(e) /\ Verifies(e, r) => r.pcrs = config.pcrs

(* The holder of the Cap destroys only what a migration has superseded and *)
(* the configuration does not name: before the first upgrade, nothing.  An *)
(* enclave it names is gone only if its owner deleted it.                  *)
GoneForAReason ==
  \A e \in DOMAIN enclaves :
     enclaves[e].state = "destroyed" =>
        /\ enclaves[e].config_version < config.version
        /\ config.current # e
        /\ package > 0

(* Trust starts with a registration and ends for good: an enclave that is  *)
(* not current (superseded, deleted, or its PCRs replaced) never is again, *)
(* and no enclave registered earlier vouches for the key of a new start,   *)
(* so that what a restarted relayer signs waits for its own registration.  *)
TrustIsEarned ==
  [][ /\ \A e \in DOMAIN enclaves : ~IsCurrent(e) => ~IsCurrent(e)'
      /\ eph_kp' \notin {None, eph_kp} =>
           /\ \A e \in DOMAIN enclaves : enclaves[e].pk # eph_kp'
           /\ \A c \in docs \cup responses : c.pk # eph_kp' ]_vars

(* One image per key, in what is attested and what is signed.              *)
OneImagePerKey ==
  \A c, d \in docs \cup responses : c.pk = d.pk => c.pcrs = d.pcrs

(* A key that was used is an earlier start's, or this start's own under    *)
(* the image that runs: a start that does not serve yet has used none.     *)
UsedKeys ==
  \A c \in docs \cup responses :
     \/ c.pk < boot
     \/ c.pk = boot /\ c.pcrs = image /\ relayer \in {"serving", "off"}

(* What is current was registered under the PCRs that are expected, and    *)
(* what is registered was attested.                                        *)
Registered ==
  /\ config.version <= package
  /\ config.current <= Len(enclaves)
  /\ config.current # None => enclaves[config.current].pcrs = config.pcrs
  /\ \A e \in DOMAIN enclaves :
        /\ [pk |-> enclaves[e].pk, pcrs |-> enclaves[e].pcrs] \in docs
        /\ enclaves[e].config_version <= config.version

RegistryInv ==
  /\ TypeOK
  /\ SupervisorInv
  /\ OneImagePerKey
  /\ UsedKeys
  /\ Registered
  /\ GoneForAReason
=============================================================================
