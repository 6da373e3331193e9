------------------------------ MODULE Supervisor ------------------------------
(***************************************************************************)
(* The processes of one deployment (main.rs, init.rs, run.sh): the relayer *)
(* spawns one sidecar at its start, waits for an answer on the sidecar's   *)
(* port, serves, and kills what it spawned only at the end of a graceful   *)
(* shutdown.  In an enclave run.sh first tries a sidecar of its own on the *)
(* same port, and the machine goes down after the relayer; on a host the   *)
(* next start may meet the sidecar of an earlier one.                      *)
(***************************************************************************)
EXTENDS Naturals

CONSTANTS
  Images,   \* what may be started: builds of the enclave image
  Boots,    \* bound: starts of the relayer
  Probes    \* health probes of a start (30)

ASSUME StartsAssumption == Boots \in Nat \ {0} /\ Probes \in Nat \ {0}

VARIABLES
  enclave_mode,   \* ENCLAVE_MODE: decided once, with the deployment
  machine,        \* the enclave, or the host
  image,          \* the image that was started last
  relayer,        \* the relayer process; "checking" while run.sh still tries
                  \* a sidecar and has not started it
  boot,           \* number of its starts, which also names each start
  probes,         \* health probes this start has sent in vain
  sidecar,        \* sidecar[s]: the HTTP server s
  eph_kp          \* the key pair of this start, 0 before it is generated

supervisorVars == <<enclave_mode, machine, image, relayer, boot, probes, sidecar, eph_kp>>

Starts == 1 .. Boots

(* The servers of a start: run.sh's dry run, and the relayer's own.        *)
Servers == Starts \X {"dryrun", "own"}
DryRun(b) == <<b, "dryrun">>
Own(b)    == <<b, "own">>

SupervisorTypeOK ==
  /\ enclave_mode \in BOOLEAN
  /\ machine \in {"up", "down"}
  /\ image \in Images
  /\ relayer \in {"off", "checking", "waiting", "starting", "serving"}
  /\ boot \in 0 .. Boots
  /\ probes \in 0 .. Probes
  /\ sidecar \in [Servers -> {"off", "starting", "listening"}]
  /\ eph_kp \in 0 .. Boots

(* A host is up before the first start; an enclave is launched for it.     *)
SupervisorInit ==
  /\ enclave_mode \in BOOLEAN
  /\ machine = IF enclave_mode THEN "down" ELSE "up"
  /\ image \in Images
  /\ relayer = "off" /\ boot = 0 /\ probes = 0 /\ eph_kp = 0
  /\ sidecar = [s \in Servers |-> "off"]

Answering == {s \in Servers : sidecar[s] = "listening"}

-----------------------------------------------------------------------------
(* A process on the host spawns its sidecar and begins to probe the port.  *)
LaunchOnHost(i) ==
  /\ ~enclave_mode /\ relayer = "off" /\ boot < Boots
  /\ image' = i
  /\ relayer' = "waiting"
  /\ boot' = boot + 1 /\ probes' = 0 /\ eph_kp' = 0
  /\ sidecar' = [sidecar EXCEPT ![Own(boot + 1)] = "starting"]
  /\ UNCHANGED <<enclave_mode, machine>>

(* An enclave: init, then run.sh, which tries a sidecar for three seconds. *)
LaunchEnclave(i) ==
  /\ enclave_mode /\ machine = "down" /\ relayer = "off" /\ boot < Boots
  /\ machine' = "up" /\ image' = i
  /\ relayer' = "checking"
  /\ boot' = boot + 1 /\ probes' = 0 /\ eph_kp' = 0
  /\ sidecar' = [sidecar EXCEPT ![DryRun(boot + 1)] = "starting"]
  /\ UNCHANGED enclave_mode

(* run.sh kills the process whose id it has noted, a shell or the tsx that *)
(* replaced it, waits for that one only and starts the relayer, which      *)
(* spawns its sidecar.  What the signal does to the server below is the    *)
(* shell's and tsx's matter: it has ended by then, or goes on.             *)
StartRelayer ==
  /\ relayer = "checking"
  /\ relayer' = "waiting"
  /\ \E d \in {sidecar[DryRun(boot)], "off"} :
        sidecar' = [sidecar EXCEPT ![DryRun(boot)] = d, ![Own(boot)] = "starting"]
  /\ UNCHANGED <<enclave_mode, machine, image, boot, probes, eph_kp>>

(* A sidecar takes the port if it is free; Express tells its callback of a *)
(* port that is taken, and nothing listens.                                *)
SidecarListens(s) ==
  /\ sidecar[s] = "starting"
  /\ sidecar' = [sidecar EXCEPT ![s] = IF Answering = {} THEN "listening" ELSE "off"]
  /\ UNCHANGED <<enclave_mode, machine, image, relayer, boot, probes, eph_kp>>

(* A sidecar ends by itself; nobody spawns another.                        *)
SidecarDies(s) ==
  /\ sidecar[s] \in {"starting", "listening"}
  /\ sidecar' = [sidecar EXCEPT ![s] = "off"]
  /\ UNCHANGED <<enclave_mode, machine, image, relayer, boot, probes, eph_kp>>

(* GET /health: whoever holds the port answers.                            *)
Probe ==
  /\ relayer = "waiting" /\ probes < Probes
  /\ IF Answering # {} THEN relayer' = "starting" /\ UNCHANGED probes
                       ELSE probes' = probes + 1 /\ UNCHANGED relayer
  /\ UNCHANGED <<enclave_mode, machine, image, boot, sidecar, eph_kp>>

(* The kill ends npx or tsx, and the server under it at the latest then    *)
(* or not at all.                                                          *)
Kill == sidecar' \in {sidecar, [sidecar EXCEPT ![Own(boot)] = "off"]}

Ends == relayer' = "off" /\ eph_kp' = 0

(* The last probe was in vain: kill, then panic.                           *)
GiveUp ==
  /\ relayer = "waiting" /\ probes = Probes
  /\ Kill /\ Ends
  /\ UNCHANGED <<enclave_mode, machine, image, boot, probes>>

(* EnclaveKeyPair::generate: a new pair for each start.                    *)
PersistedKey == IF boot > 1 THEN boot - 1 ELSE boot

FreshKey == boot

(* Database, Redis, key pair, queues, workers, the bound port.             *)
Serve ==
  /\ relayer = "starting"
  /\ relayer' = "serving" /\ eph_kp' = FreshKey
  /\ UNCHANGED <<enclave_mode, machine, image, boot, probes, sidecar>>

(* ctrl-c: no new connections, then the kill.                              *)
Shutdown ==
  /\ relayer = "serving"
  /\ Kill /\ Ends
  /\ UNCHANGED <<enclave_mode, machine, image, boot, probes>>

(* An expect that fails, SIGTERM, a crash, or the end of run.sh before it  *)
(* has started the relayer: nothing is killed.                             *)
Killed ==
  /\ relayer # "off"
  /\ Ends
  /\ UNCHANGED <<enclave_mode, machine, image, boot, probes, sidecar>>

(* run.sh waits for the relayer, init for run.sh, and then reboots: all    *)
(* processes of the enclave end.                                           *)
RestartedInPlace ==
  /\ enclave_mode /\ machine = "up" /\ relayer = "off"
  /\ machine' = "down"
  /\ UNCHANGED <<enclave_mode, image, relayer, boot, probes, sidecar, eph_kp>>

Reboot ==
  /\ enclave_mode /\ machine = "up" /\ relayer = "off"
  /\ machine' = "down"
  /\ sidecar' = [s \in Servers |-> "off"]
  /\ UNCHANGED <<enclave_mode, image, relayer, boot, probes, eph_kp>>

SupervisorNext ==
  \/ \E i \in Images : LaunchOnHost(i) \/ LaunchEnclave(i)
  \/ \E s \in Servers : SidecarListens(s) \/ SidecarDies(s)
  \/ StartRelayer \/ Probe \/ GiveUp \/ Serve \/ Shutdown \/ Killed \/ Reboot

-----------------------------------------------------------------------------
(* One sidecar at most holds the port; starts to come have none; a relayer *)
(* that serves uses the key of its own start; a host stays up and has no   *)
(* dry run; and what runs in an enclave is of its last start.              *)
SupervisorInv ==
  /\ SupervisorTypeOK
  /\ \A s, t \in Answering : s = t
  /\ \A s \in Servers : sidecar[s] # "off" => s[1] <= boot
  /\ ~enclave_mode => /\ machine = "up" /\ relayer # "checking"
                      /\ \A b \in Starts : sidecar[DryRun(b)] = "off"
  /\ eph_kp = IF relayer = "serving" THEN boot ELSE 0
  /\ relayer # "off" => machine = "up" /\ boot > 0
  /\ \A s \in Servers :
        enclave_mode /\ sidecar[s] \in {"starting", "listening"} => machine = "up" /\ s[1] = boot

(* In an enclave the sidecar that a relayer reaches was spawned in its own *)
(* start, with the configuration that run.sh received for it: by itself or *)
(* by the dry run before it, whatever ended the relayers and sidecars of   *)
(* earlier starts and whether or not the kill reached the dry run's        *)
(* server: the machine does not outlive a relayer.  (On a host it may be   *)
(* an orphan with an earlier start's environment.)                         *)
EnclaveServesOwn ==
  enclave_mode /\ relayer \in {"starting", "serving"} =>
    Answering \subseteq {DryRun(boot), Own(boot)}
=============================================================================
