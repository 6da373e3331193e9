------------------------ MODULE EnclaveRegistry_proofs ------------------------
(* Proofs about EnclaveRegistry and the processes of Supervisor under it,  *)
(* for every set of images and every number of starts, probes,             *)
(* registrations and upgrades.                                             *)
EXTENDS EnclaveRegistry, TLAPS

(* The servers of one start.                                               *)
LEMMA ServerParts ==
  /\ \A b \in Starts : DryRun(b) \in Servers /\ Own(b) \in Servers /\ DryRun(b) # Own(b)
                     /\ DryRun(b)[1] = b /\ Own(b)[1] = b
  /\ \A s \in Servers : s[1] \in Starts /\ (s = DryRun(s[1]) \/ s = Own(s[1]))
BY DEF Servers, DryRun, Own

(* Before the first start nothing runs, and no key was made.               *)
LEMMA SupervisorInitial == SupervisorInit => SupervisorInv
BY StartsAssumption, ServerParts
   DEF SupervisorInit, SupervisorInv, SupervisorTypeOK, Answering, Starts

(* A new start: one server of it begins, and in an enclave no other runs.  *)
LEMMA LaunchStep ==
  ASSUME SupervisorInv, NEW i \in Images, LaunchOnHost(i) \/ LaunchEnclave(i)
  PROVE  SupervisorInv'
<1> USE StartsAssumption DEF Starts
<1>1. /\ boot + 1 \in Starts /\ boot' = boot + 1 /\ boot \in Nat
      /\ relayer' \in {"checking", "waiting"} /\ eph_kp' = 0
      /\ machine' = "up" /\ image' = i /\ probes' = 0 /\ UNCHANGED enclave_mode
  BY DEF SupervisorInv, SupervisorTypeOK, LaunchOnHost, LaunchEnclave
<1>2. PICK n \in {DryRun(boot + 1), Own(boot + 1)} :
        /\ sidecar' = [sidecar EXCEPT ![n] = "starting"]
        /\ ~enclave_mode => n = Own(boot + 1)
  BY DEF LaunchOnHost, LaunchEnclave
<1>3. n \in Servers /\ n[1] = boot + 1
  BY <1>1, <1>2, ServerParts
<1>4. \A s \in Servers : sidecar'[s] = IF s = n THEN "starting" ELSE sidecar[s]
  BY <1>2 DEF SupervisorInv, SupervisorTypeOK
<1>5. SupervisorTypeOK'
  BY <1>1, <1>2, <1>3 DEF SupervisorInv, SupervisorTypeOK
<1>6. \A s, t \in Answering' : s = t
  BY <1>4 DEF SupervisorInv, Answering
<1>7. \A s \in Servers : sidecar'[s] # "off" => s[1] <= boot'
  <2> SUFFICES ASSUME NEW s \in Servers, sidecar'[s] # "off"
               PROVE  s[1] <= boot + 1
    BY <1>1
  <2>1. s[1] \in Nat
    BY ServerParts
  <2> QED
    BY <1>1, <1>3, <1>4, <2>1 DEF SupervisorInv
<1>8. ~enclave_mode => /\ relayer' # "checking"
                       /\ \A b \in Starts : sidecar'[DryRun(b)] = "off"
  BY <1>1, <1>2, <1>4, ServerParts DEF SupervisorInv, DryRun, Own, LaunchOnHost, LaunchEnclave
<1>9. \A s \in Servers : enclave_mode /\ sidecar'[s] \in {"starting", "listening"}
                             => s[1] = boot'
  <2> SUFFICES ASSUME NEW s \in Servers, enclave_mode, sidecar'[s] \in {"starting", "listening"}
               PROVE  s[1] = boot'
    OBVIOUS
  <2>1. machine = "down"
    BY DEF LaunchOnHost, LaunchEnclave
  <2>2. sidecar[s] \notin {"starting", "listening"}
    BY <2>1 DEF SupervisorInv
  <2> QED
    BY <1>1, <1>3, <1>4, <2>2
<1> QED
  BY <1>1, <1>5, <1>6, <1>7, <1>8, <1>9 DEF SupervisorInv

(* A step of one server of the current start, of one that begins to listen *)
(* while nobody else does, or of the relayer alone.                        *)
LEMMA ServerStep ==
  ASSUME SupervisorInv, NEW s \in Servers, s[1] <= boot,
         NEW d \in {"off", "starting", "listening"},
         sidecar' = [sidecar EXCEPT ![s] = d],
         d = "listening" => Answering \subseteq {s},
         d # "off" => /\ enclave_mode => machine = "up" /\ s[1] = boot
                      /\ ~enclave_mode => s = Own(s[1]),
         relayer' \in {"off", "checking", "waiting", "starting", "serving"},
         probes' \in 0 .. Probes,
         UNCHANGED <<enclave_mode, machine, image, boot>>,
         eph_kp' = IF relayer' = "serving" THEN boot ELSE 0,
         relayer' # "off" => relayer # "off",
         relayer' = "checking" => relayer = "checking"
  PROVE  SupervisorInv'
<1> USE DEF SupervisorInv
<1>1. \A t \in Servers : sidecar'[t] = IF t = s THEN d ELSE sidecar[t]
  BY DEF SupervisorTypeOK
<1>2. SupervisorTypeOK'
  <2>1. boot \in 0 .. Boots /\ 0 \in 0 .. Boots
    BY StartsAssumption DEF SupervisorTypeOK
  <2>2. sidecar' \in [Servers -> {"off", "starting", "listening"}]
    BY DEF SupervisorTypeOK
  <2> QED
    BY <2>1, <2>2 DEF SupervisorTypeOK
<1>3. \A t, u \in Answering' : t = u
  BY <1>1 DEF Answering
<1>4. \A t \in Servers : sidecar'[t] # "off" => t[1] <= boot
  BY <1>1
<1>5. ~enclave_mode => \A b \in Starts : sidecar'[DryRun(b)] = "off"
  <2> SUFFICES ASSUME ~enclave_mode, NEW b \in Starts PROVE sidecar'[DryRun(b)] = "off"
    OBVIOUS
  <2>1. DryRun(b) \in Servers /\ sidecar[DryRun(b)] = "off"
    BY ServerParts
  <2>2. d # "off" => s # DryRun(b)
    BY ServerParts
  <2> QED
    BY <1>1, <2>1, <2>2
<1>6. \A t \in Servers : enclave_mode /\ sidecar'[t] \in {"starting", "listening"}
                             => machine = "up" /\ t[1] = boot
  BY <1>1
<1> QED
  BY <1>2, <1>3, <1>4, <1>5, <1>6

(* The relayer's steps that touch no server, or kill its own.              *)
LEMMA RelayerStep ==
  ASSUME SupervisorInv, relayer # "off",
         sidecar' \in {sidecar, [sidecar EXCEPT ![Own(boot)] = "off"]},
         relayer' \in {"off", "waiting", "starting", "serving"},
         probes' \in 0 .. Probes,
         UNCHANGED <<enclave_mode, machine, image, boot>>,
         eph_kp' = IF relayer' = "serving" THEN boot ELSE 0
  PROVE  SupervisorInv'
<1>0. boot \in Starts /\ boot \in Nat
  BY StartsAssumption DEF SupervisorInv, SupervisorTypeOK, Starts
<1>s. PICK s \in Servers : s = Own(boot)
  BY <1>0, ServerParts
<1>1. s \in Servers /\ s[1] = boot /\ s = Own(s[1]) /\ s[1] <= boot
  BY <1>0, <1>s, ServerParts
<1>2. PICK d \in {sidecar[s], "off"} : sidecar' = [sidecar EXCEPT ![s] = d]
  BY <1>1, <1>s DEF SupervisorInv, SupervisorTypeOK
<1>3. d \in {"off", "starting", "listening"}
  BY <1>1, <1>2 DEF SupervisorInv, SupervisorTypeOK
<1>4. d = "listening" => Answering \subseteq {s}
  BY <1>1, <1>2 DEF SupervisorInv, Answering
<1>5. d # "off" => /\ enclave_mode => machine = "up" /\ s[1] = boot
                   /\ ~enclave_mode => s = Own(s[1])
  BY <1>1 DEF SupervisorInv
<1>6. /\ relayer' \in {"off", "checking", "waiting", "starting", "serving"}
      /\ relayer' = "checking" => relayer = "checking"
  OBVIOUS
<1> QED
  BY <1>1, <1>2, <1>3, <1>4, <1>5, <1>6, ServerStep

(* The relayer starts: the dry run's server is gone or not, and its own    *)
(* begins.                                                                 *)
LEMMA StartRelayerStep ==
  ASSUME SupervisorInv, StartRelayer, enclave_mode
  PROVE  SupervisorInv'
<1>1. boot \in Starts /\ boot \in 0 .. Boots /\ machine = "up" /\ boot > 0
  BY StartsAssumption DEF SupervisorInv, SupervisorTypeOK, Starts, StartRelayer
<1>2. PICK d \in {sidecar[DryRun(boot)], "off"} :
        sidecar' = [sidecar EXCEPT ![DryRun(boot)] = d, ![Own(boot)] = "starting"]
  BY DEF StartRelayer
<1>3. UNCHANGED <<enclave_mode, machine, image, boot, probes, eph_kp>> /\ relayer' = "waiting"
      /\ relayer = "checking"
  BY DEF StartRelayer
<1>4. \A t \in Servers : sidecar'[t] = IF t = Own(boot) THEN "starting"
                                       ELSE IF t = DryRun(boot) THEN d ELSE sidecar[t]
  BY <1>1, <1>2, ServerParts DEF SupervisorInv, SupervisorTypeOK
<1>5. d \in {"off", "starting", "listening"}
  BY <1>1, <1>2, ServerParts DEF SupervisorInv, SupervisorTypeOK
<1>6. SupervisorTypeOK'
  BY <1>2, <1>3, <1>5 DEF SupervisorInv, SupervisorTypeOK
<1>7. \A t \in Servers : sidecar'[t] = "listening" => sidecar[t] = "listening"
  BY <1>2, <1>4
<1>8. \A t \in Servers : sidecar'[t] # "off" => t[1] <= boot /\ t[1] = boot
  <2> SUFFICES ASSUME NEW t \in Servers, sidecar'[t] # "off" PROVE t[1] = boot
    BY <1>1
  <2>1. CASE t \in {Own(boot), DryRun(boot)}
    BY <1>1, <2>1, ServerParts
  <2>2. CASE t \notin {Own(boot), DryRun(boot)}
    <3>1. sidecar[t] \in {"starting", "listening"}
      BY <1>4, <2>2 DEF SupervisorInv, SupervisorTypeOK
    <3> QED
      BY <3>1 DEF SupervisorInv
  <2> QED
    BY <2>1, <2>2
<1> QED
  BY <1>1, <1>3, <1>6, <1>7, <1>8 DEF SupervisorInv, Answering

LEMMA SupervisorStep ==
  ASSUME SupervisorInv, SupervisorNext
  PROVE  SupervisorInv'
<1> USE StartsAssumption
<1>0. /\ SupervisorTypeOK
      /\ sidecar \in [Servers -> {"off", "starting", "listening"}]
      /\ boot \in 0 .. Boots /\ probes \in 0 .. Probes
      /\ relayer # "off" => machine = "up" /\ boot \in Starts
      /\ eph_kp = IF relayer = "serving" THEN boot ELSE 0
  BY DEF SupervisorInv, SupervisorTypeOK, Starts
<1>1. CASE \E i \in Images : LaunchOnHost(i) \/ LaunchEnclave(i)
  BY <1>1, LaunchStep
<1>2. CASE \E s \in Servers : SidecarListens(s) \/ SidecarDies(s)
  <2>1. PICK s \in Servers : SidecarListens(s) \/ SidecarDies(s)
    BY <1>2
  <2>2. PICK d \in {"off", "listening"} :
          /\ sidecar' = [sidecar EXCEPT ![s] = d]
          /\ d = "listening" => Answering = {}
    BY <2>1 DEF SidecarListens, SidecarDies
  <2>3. /\ sidecar[s] \in {"starting", "listening"}
        /\ UNCHANGED <<enclave_mode, machine, image, relayer, boot, probes, eph_kp>>
    BY <2>1 DEF SidecarListens, SidecarDies
  <2>4. /\ s[1] <= boot
        /\ enclave_mode => machine = "up" /\ s[1] = boot
        /\ ~enclave_mode => s = Own(s[1])
    BY <2>3, ServerParts DEF SupervisorInv
  <2>5. relayer' \in {"off", "checking", "waiting", "starting", "serving"}
    BY <1>0, <2>3 DEF SupervisorTypeOK
  <2> QED
    BY <1>0, <2>2, <2>3, <2>4, <2>5, ServerStep
<1>3. CASE StartRelayer
  <2>1. CASE enclave_mode
    BY <1>3, <2>1, StartRelayerStep
  <2>2. enclave_mode
    BY <1>3 DEF StartRelayer, SupervisorInv
  <2> QED
    BY <2>1, <2>2
<1>4. CASE Probe
  <2>1. probes' \in 0 .. Probes
    BY <1>0, <1>4 DEF Probe
  <2> QED
    BY <1>0, <1>4, <2>1, RelayerStep DEF Probe
<1>5. CASE GiveUp \/ Shutdown
  BY <1>0, <1>5, RelayerStep DEF GiveUp, Shutdown, Kill, Ends
<1>6. CASE Serve
  BY <1>0, <1>6, RelayerStep DEF Serve, FreshKey
<1>7. CASE Killed
  BY <1>0, <1>7, RelayerStep DEF Killed, Ends
<1>8. CASE Reboot
  <2>1. /\ UNCHANGED <<enclave_mode, image, relayer, boot, probes, eph_kp>>
        /\ relayer = "off" /\ machine' = "down"
        /\ sidecar' = [s \in Servers |-> "off"]
    BY <1>8 DEF Reboot
  <2>2. SupervisorTypeOK'
    BY <1>0, <2>1 DEF SupervisorTypeOK
  <2>3. Answering' = {} /\ enclave_mode
    BY <1>8, <2>1 DEF Answering, Reboot
  <2> QED
    BY <1>0, <2>1, <2>2, <2>3 DEF SupervisorInv
<1> QED
  BY <1>1, <1>2, <1>3, <1>4, <1>5, <1>6, <1>7, <1>8 DEF SupervisorNext

-----------------------------------------------------------------------------
(* The registry.  Enclave objects are only appended and marked as gone.    *)
LEMMA RegistryInitial == Init => RegistryInv
<1> SUFFICES ASSUME Init PROVE RegistryInv
  OBVIOUS
<1> USE RegistryAssumption
<1>1. SupervisorInv
  BY SupervisorInitial DEF Init
<1>2. enclaves = <<>> /\ enclaves \in Seq(Enclaves) /\ Len(enclaves) = 0 /\ DOMAIN enclaves = {}
  BY DEF Init
<1>3. TypeOK
  BY <1>1, <1>2 DEF Init, TypeOK, SupervisorInv, Claims, None
<1> QED
  BY <1>1, <1>2, <1>3 DEF Init, RegistryInv, OneImagePerKey, UsedKeys, Registered,
                          GoneForAReason, None

(* What the relayer's own steps do to keys: a key is the start's number,   *)
(* so a start that uses its key first makes one that nobody has used.      *)
LEMMA ProcessesStep ==
  ASSUME RegistryInv, Processes
  PROVE  RegistryInv'
<1>1. SupervisorNext /\ UNCHANGED <<docs, responses, package, config, enclaves>>
  BY DEF Processes, registryVars
<1>2. SupervisorInv' /\ SupervisorTypeOK'
  BY <1>1, SupervisorStep DEF RegistryInv, SupervisorInv
<1>3. TypeOK'
  BY <1>1, <1>2 DEF RegistryInv, TypeOK
<1>4. OneImagePerKey' /\ Registered' /\ GoneForAReason'
  BY <1>1 DEF RegistryInv, OneImagePerKey, Registered, GoneForAReason
<1>5. boot \in Nat /\ boot' \in Nat
  BY <1>2 DEF RegistryInv, TypeOK, SupervisorTypeOK
<1>6. CASE \E i \in Images : LaunchOnHost(i) \/ LaunchEnclave(i)
  <2>1. boot' = boot + 1 /\ relayer = "off"
    BY <1>6 DEF LaunchOnHost, LaunchEnclave
  <2>2. \A c \in docs \cup responses : c.pk \in Nat /\ c.pk < boot'
    <3>1. \A c \in docs \cup responses : c.pk \in Nat
      BY DEF RegistryInv, TypeOK, Claims, Keys
    <3> QED
      BY <1>5, <2>1, <3>1 DEF RegistryInv, UsedKeys
  <2>3. UsedKeys'
    BY <1>1, <2>2 DEF UsedKeys
  <2> QED
    BY <1>2, <1>3, <1>4, <2>3 DEF RegistryInv
<1>7. CASE UNCHANGED <<boot, image>> /\ (relayer \in {"serving", "off"} => relayer' \in {"serving", "off"})
  <2>1. UsedKeys'
    BY <1>1, <1>7 DEF RegistryInv, UsedKeys
  <2> QED
    BY <1>2, <1>3, <1>4, <2>1 DEF RegistryInv
<1>8. \/ \E i \in Images : LaunchOnHost(i) \/ LaunchEnclave(i)
      \/ /\ UNCHANGED <<boot, image>>
         /\ relayer \in {"serving", "off"} => relayer' \in {"serving", "off"}
  BY <1>1 DEF SupervisorNext, SidecarListens, SidecarDies, StartRelayer, Probe, GiveUp, Serve, Shutdown,
              Killed, Reboot, Ends
<1> QED
  BY <1>6, <1>7, <1>8

(* A document or a response of this start: one more claim of its own key   *)
(* for the image that runs.                                                *)
LEMMA ClaimStep ==
  ASSUME RegistryInv, relayer = "serving",
         UNCHANGED <<supervisorVars, package, config, enclaves>>,
         docs \subseteq docs', docs' \subseteq docs \cup {[pk |-> eph_kp, pcrs |-> image]},
         responses' \subseteq responses \cup {[pk |-> eph_kp, pcrs |-> image]}
  PROVE  RegistryInv'
<1> DEFINE own == [pk |-> eph_kp, pcrs |-> image]
<1>1. UNCHANGED <<enclave_mode, machine, image, relayer, boot, probes, sidecar, eph_kp>>
  BY DEF supervisorVars
<1>2. eph_kp = boot /\ boot > 0 /\ boot \in 0 .. Boots /\ image \in Images
  BY DEF RegistryInv, SupervisorInv, SupervisorTypeOK
<1>3. own \in Claims /\ own.pk = boot /\ own.pcrs = image
  BY <1>2, StartsAssumption DEF Claims, Keys
<1>4. SupervisorInv' /\ SupervisorTypeOK'
  BY <1>1 DEF RegistryInv, SupervisorInv, SupervisorTypeOK, Answering, Starts
<1>5. TypeOK'
  BY <1>3, <1>4 DEF RegistryInv, TypeOK
<1>6. \A c \in docs \cup responses : c.pk = boot => c.pcrs = image
  <2>1. \A c \in docs \cup responses : c.pk \in Nat
    BY DEF RegistryInv, TypeOK, Claims, Keys
  <2> QED
    BY <1>2, <2>1 DEF RegistryInv, UsedKeys
<1>7. \A c \in docs' \cup responses' : c \in docs \cup responses \/ c = own
  OBVIOUS
<1>8. OneImagePerKey'
  <2> SUFFICES ASSUME NEW c \in docs' \cup responses', NEW d \in docs' \cup responses',
                      c.pk = d.pk
               PROVE  c.pcrs = d.pcrs
    BY DEF OneImagePerKey
  <2>1. CASE c = own \/ d = own
    BY <1>3, <1>6, <1>7, <2>1
  <2>2. CASE c \in docs \cup responses /\ d \in docs \cup responses
    BY <2>2 DEF RegistryInv, OneImagePerKey
  <2> QED
    BY <1>7, <2>1, <2>2
<1>9. UsedKeys'
  BY <1>1, <1>3, <1>7 DEF RegistryInv, UsedKeys
<1>10. Registered' /\ GoneForAReason'
  BY DEF RegistryInv, Registered, GoneForAReason
<1> QED
  BY <1>4, <1>5, <1>8, <1>9, <1>10 DEF RegistryInv

(* A transaction on the chain leaves keys and processes alone.             *)
LEMMA ChainStep ==
  ASSUME RegistryInv, UNCHANGED <<supervisorVars, docs, responses>>,
         package' \in 0 .. Upgrades,
         config' \in [pcrs : Images, version : 0 .. Upgrades, current : 0 .. Registrations],
         enclaves' \in Seq(Enclaves), Len(enclaves') <= Registrations,
         Registered', GoneForAReason'
  PROVE  RegistryInv'
<1>1. UNCHANGED <<enclave_mode, machine, image, relayer, boot, probes, sidecar, eph_kp>>
  BY DEF supervisorVars
<1>2. SupervisorInv' /\ SupervisorTypeOK'
  BY <1>1 DEF RegistryInv, SupervisorInv, SupervisorTypeOK, Answering, Starts
<1>3. TypeOK'
  BY <1>2 DEF RegistryInv, TypeOK
<1>4. OneImagePerKey' /\ UsedKeys'
  BY <1>1 DEF RegistryInv, OneImagePerKey, UsedKeys
<1> QED
  BY <1>2, <1>3, <1>4 DEF RegistryInv

LEMMA Parts ==
  ASSUME RegistryInv
  PROVE  /\ enclaves \in Seq(Enclaves) /\ Len(enclaves) \in 0 .. Registrations
         /\ DOMAIN enclaves = 1 .. Len(enclaves)
         /\ \A e \in DOMAIN enclaves : enclaves[e] \in Enclaves
         /\ package \in 0 .. Upgrades
         /\ config \in [pcrs : Images, version : 0 .. Upgrades, current : 0 .. Registrations]
         /\ docs \subseteq Claims
  BY RegistryAssumption DEF RegistryInv, TypeOK

LEMMA UpgradeStep ==
  ASSUME RegistryInv, Upgrade
  PROVE  RegistryInv'
<1>1. /\ package < Upgrades /\ package' = package + 1
      /\ UNCHANGED <<supervisorVars, docs, responses, config, enclaves>>
  BY DEF Upgrade
<1>2. package' \in 0 .. Upgrades /\ config.version <= package'
  BY <1>1, Parts, RegistryAssumption DEF RegistryInv, Registered
<1>3. Registered'
  BY <1>1, <1>2 DEF RegistryInv, Registered
<1>4. GoneForAReason'
  BY <1>1, Parts, RegistryAssumption DEF RegistryInv, GoneForAReason
<1> QED
  BY <1>1, <1>2, <1>3, <1>4, Parts, ChainStep

(* A higher version: what was superseded stays so.                         *)
LEMMA MigrateStep ==
  ASSUME RegistryInv, NEW v \in 1 .. package, Migrate(v)
  PROVE  RegistryInv'
<1>1. /\ config.version < v /\ config' = [config EXCEPT !.version = v]
      /\ UNCHANGED <<supervisorVars, docs, responses, package, enclaves>>
  BY DEF Migrate
<1>2. /\ config' \in [pcrs : Images, version : 0 .. Upgrades, current : 0 .. Registrations]
      /\ config'.version = v /\ config'.pcrs = config.pcrs /\ config'.current = config.current
      /\ v \in Nat /\ config.version \in Nat
  BY <1>1, Parts, RegistryAssumption
<1>3. \A e \in DOMAIN enclaves : enclaves[e].config_version \in Nat
  BY Parts DEF Enclaves
<1>4. Registered'
  BY <1>1, <1>2, <1>3, Parts DEF RegistryInv, Registered
<1>5. GoneForAReason'
  BY <1>1, <1>2, <1>3 DEF RegistryInv, GoneForAReason
<1> QED
  BY <1>1, <1>2, <1>4, <1>5, Parts, ChainStep

(* The enclave that is appended has the expected PCRs and becomes current. *)
LEMMA RegisterStep ==
  ASSUME RegistryInv, NEW d \in docs, RegisterEnclave(d)
  PROVE  RegistryInv'
<1> DEFINE n == Len(enclaves) + 1
           new == [pk |-> d.pk, pcrs |-> d.pcrs,
                   config_version |-> config.version, state |-> "shared"]
<1>1. /\ Len(enclaves) < Registrations /\ d.pcrs = config.pcrs
      /\ enclaves' = Append(enclaves, new)
      /\ config' = [config EXCEPT !.current = n]
      /\ UNCHANGED <<supervisorVars, docs, responses, package>>
  BY DEF RegisterEnclave, LoadPk
<1>2. d \in Claims /\ d = [pk |-> d.pk, pcrs |-> d.pcrs]
  BY Parts DEF Claims
<1>3. new \in Enclaves
  BY <1>2, Parts DEF Claims, Enclaves
<1>4. /\ enclaves' \in Seq(Enclaves) /\ Len(enclaves') = n
      /\ DOMAIN enclaves' = 1 .. n
      /\ enclaves'[n] = new /\ \A e \in DOMAIN enclaves : enclaves'[e] = enclaves[e]
  BY <1>1, <1>3, Parts
<1>5. n \in 1 .. Registrations
  BY <1>1, Parts, RegistryAssumption
<1>6. /\ config' \in [pcrs : Images, version : 0 .. Upgrades, current : 0 .. Registrations]
      /\ config'.current = n /\ config'.pcrs = config.pcrs /\ config'.version = config.version
  BY <1>1, <1>5, Parts, RegistryAssumption
<1>7. \A e \in DOMAIN enclaves' : e = n \/ (e \in DOMAIN enclaves /\ enclaves'[e] = enclaves[e])
  BY <1>4, Parts
<1>8. Registered'
  <2>1. config'.version <= package' /\ config'.current <= Len(enclaves')
    BY <1>1, <1>4, <1>5, <1>6 DEF RegistryInv, Registered
  <2>2. config'.current # None => enclaves'[config'.current].pcrs = config'.pcrs
    BY <1>1, <1>4, <1>6
  <2>3. \A e \in DOMAIN enclaves' :
          /\ [pk |-> enclaves'[e].pk, pcrs |-> enclaves'[e].pcrs] \in docs'
          /\ enclaves'[e].config_version <= config'.version
    <3> SUFFICES ASSUME NEW e \in DOMAIN enclaves'
                 PROVE  /\ [pk |-> enclaves'[e].pk, pcrs |-> enclaves'[e].pcrs] \in docs
                        /\ enclaves'[e].config_version <= config.version
      BY <1>1, <1>6
    <3>1. CASE e = n
      <4>1. config.version \in Nat
        BY Parts
      <4> QED
        BY <1>2, <1>4, <3>1, <4>1
    <3>2. CASE e \in DOMAIN enclaves /\ enclaves'[e] = enclaves[e]
      BY <3>2 DEF RegistryInv, Registered
    <3> QED
      BY <1>7, <3>1, <3>2
  <2> QED
    BY <2>1, <2>2, <2>3 DEF Registered
<1>9. GoneForAReason'
  <2> SUFFICES ASSUME NEW e \in DOMAIN enclaves', enclaves'[e].state = "destroyed"
               PROVE  /\ enclaves'[e].config_version < config'.version
                      /\ config'.current # e
                      /\ package' > 0
    BY DEF GoneForAReason
  <2>1. e # n
    BY <1>4
  <2>2. e \in DOMAIN enclaves /\ enclaves'[e] = enclaves[e]
    BY <1>7, <2>1
  <2> QED
    BY <1>1, <1>6, <2>1, <2>2 DEF RegistryInv, GoneForAReason
<1> QED
  BY <1>1, <1>4, <1>5, <1>6, <1>8, <1>9, Parts, ChainStep

(* New PCRs: no enclave is current until one is registered under them.     *)
LEMMA UpdatePcrsStep ==
  ASSUME RegistryInv, NEW i \in Images, UpdatePcrs(i)
  PROVE  RegistryInv'
<1>1. /\ config' = [config EXCEPT !.pcrs = i, !.current = None]
      /\ UNCHANGED <<supervisorVars, docs, responses, package, enclaves>>
  BY DEF UpdatePcrs
<1>2. /\ config' \in [pcrs : Images, version : 0 .. Upgrades, current : 0 .. Registrations]
      /\ config'.current = 0 /\ config'.version = config.version
  <2>1. config \in [pcrs : Images, version : 0 .. Upgrades, current : 0 .. Registrations]
        /\ 0 \in 0 .. Registrations
    BY Parts, RegistryAssumption
  <2>2. config' = [[config EXCEPT !.pcrs = i] EXCEPT !.current = 0]
    BY <1>1 DEF None
  <2> QED
    BY <2>1, <2>2
<1>3. Registered'
  BY <1>1, <1>2, Parts DEF RegistryInv, Registered, None
<1>4. GoneForAReason'
  BY <1>1, <1>2, Parts DEF RegistryInv, GoneForAReason
<1> QED
  BY <1>1, <1>2, <1>3, <1>4, Parts, ChainStep

(* An enclave object that is marked keeps its key, PCRs and version.       *)
LEMMA Marked ==
  ASSUME RegistryInv, NEW e \in DOMAIN enclaves, NEW s \in {"withdrawn", "destroyed"},
         enclaves' = [enclaves EXCEPT ![e].state = s],
         UNCHANGED <<supervisorVars, docs, responses, package, config>>
  PROVE  /\ enclaves' \in Seq(Enclaves) /\ Len(enclaves') = Len(enclaves)
         /\ DOMAIN enclaves' = DOMAIN enclaves
         /\ \A f \in DOMAIN enclaves :
              /\ enclaves'[f].pk = enclaves[f].pk /\ enclaves'[f].pcrs = enclaves[f].pcrs
              /\ enclaves'[f].config_version = enclaves[f].config_version
              /\ enclaves'[f].state = IF f = e THEN s ELSE enclaves[f].state
         /\ Registered'
<1> DEFINE marked == [enclaves[e] EXCEPT !.state = s]
<1>1. marked \in Enclaves
  BY Parts DEF Enclaves
<1>2. enclaves' = [enclaves EXCEPT ![e] = marked]
  OBVIOUS
<1>3. enclaves' \in Seq(Enclaves) /\ Len(enclaves') = Len(enclaves)
      /\ DOMAIN enclaves' = DOMAIN enclaves
      /\ \A f \in DOMAIN enclaves : enclaves'[f] = IF f = e THEN marked ELSE enclaves[f]
  BY <1>1, <1>2, Parts
<1>4. /\ marked.pk = enclaves[e].pk /\ marked.pcrs = enclaves[e].pcrs
      /\ marked.config_version = enclaves[e].config_version /\ marked.state = s
  BY Parts DEF Enclaves
<1>5. \A f \in DOMAIN enclaves :
        /\ enclaves'[f].pk = enclaves[f].pk /\ enclaves'[f].pcrs = enclaves[f].pcrs
        /\ enclaves'[f].config_version = enclaves[f].config_version
        /\ enclaves'[f].state = IF f = e THEN s ELSE enclaves[f].state
  BY <1>3, <1>4
<1>6. Registered'
  <2>1. config.current # None => config.current \in DOMAIN enclaves
    BY Parts DEF RegistryInv, Registered, None
  <2> QED
    BY <1>3, <1>5, <2>1 DEF RegistryInv, Registered
<1> QED
  BY <1>3, <1>5, <1>6

LEMMA DestroyStep ==
  ASSUME RegistryInv, NEW e \in DOMAIN enclaves, DestroyOldEnclave(e)
  PROVE  RegistryInv'
<1>1. /\ enclaves' = [enclaves EXCEPT ![e].state = "destroyed"]
      /\ UNCHANGED <<supervisorVars, docs, responses, package, config>>
      /\ config.current # e /\ enclaves[e].config_version < config.version
  BY DEF DestroyOldEnclave
<1>2. /\ enclaves' \in Seq(Enclaves) /\ Len(enclaves') = Len(enclaves)
      /\ DOMAIN enclaves' = DOMAIN enclaves
      /\ \A f \in DOMAIN enclaves :
           /\ enclaves'[f].config_version = enclaves[f].config_version
           /\ enclaves'[f].state = IF f = e THEN "destroyed" ELSE enclaves[f].state
      /\ Registered'
  BY <1>1, Marked
<1>3. package > 0
  <2>1. enclaves[e].config_version \in Nat /\ config.version \in Nat /\ package \in Nat
    BY Parts DEF Enclaves
  <2> QED
    BY <1>1, <2>1 DEF RegistryInv, Registered
<1>4. GoneForAReason'
  BY <1>1, <1>2, <1>3 DEF RegistryInv, GoneForAReason
<1> QED
  BY <1>1, <1>2, <1>4, Parts, ChainStep

LEMMA WithdrawStep ==
  ASSUME RegistryInv, NEW e \in DOMAIN enclaves, DeployOldEnclaveByOwner(e)
  PROVE  RegistryInv'
<1>1. /\ enclaves' = [enclaves EXCEPT ![e].state = "withdrawn"]
      /\ UNCHANGED <<supervisorVars, docs, responses, package, config>>
  BY DEF DeployOldEnclaveByOwner
<1>2. /\ enclaves' \in Seq(Enclaves) /\ Len(enclaves') = Len(enclaves)
      /\ DOMAIN enclaves' = DOMAIN enclaves
      /\ \A f \in DOMAIN enclaves :
           /\ enclaves'[f].config_version = enclaves[f].config_version
           /\ enclaves'[f].state = IF f = e THEN "withdrawn" ELSE enclaves[f].state
      /\ Registered'
  BY <1>1, Marked
<1>3. GoneForAReason'
  BY <1>1, <1>2 DEF RegistryInv, GoneForAReason
<1> QED
  BY <1>1, <1>2, <1>3, Parts, ChainStep

LEMMA RegistryStep ==
  ASSUME RegistryInv, [Next]_vars
  PROVE  RegistryInv'
<1>1. CASE Processes
  BY <1>1, ProcessesStep
<1>2. CASE GetAttestation
  BY <1>2, ClaimStep DEF GetAttestation
<1>3. CASE SignResponse
  BY <1>3, ClaimStep DEF SignResponse
<1>4. CASE Upgrade
  BY <1>4, UpgradeStep
<1>5. CASE \E v \in 1 .. package : Migrate(v)
  BY <1>5, MigrateStep
<1>6. CASE \E d \in docs : RegisterEnclave(d)
  BY <1>6, RegisterStep
<1>7. CASE \E i \in Images : UpdatePcrs(i)
  BY <1>7, UpdatePcrsStep
<1>8. CASE \E e \in DOMAIN enclaves : DestroyOldEnclave(e) \/ DeployOldEnclaveByOwner(e)
  BY <1>8, DestroyStep, WithdrawStep
<1>9. CASE UNCHANGED vars
  <2>1. UNCHANGED <<supervisorVars, docs, responses, package, config, enclaves>>
    BY <1>9 DEF vars, registryVars
  <2>2. Registered' /\ GoneForAReason'
    BY <2>1 DEF RegistryInv, Registered, GoneForAReason
  <2> QED
    BY <2>1, <2>2, Parts, ChainStep
<1> QED
  BY <1>1, <1>2, <1>3, <1>4, <1>5, <1>6, <1>7, <1>8, <1>9 DEF Next

-----------------------------------------------------------------------------
(* The processes, the keys and the registry keep to the invariant.         *)
THEOREM RegistryInvariance == Spec => []RegistryInv
<1>1. Init => RegistryInv
  BY RegistryInitial
<1>2. RegistryInv /\ [Next]_vars => RegistryInv'
  BY RegistryStep
<1> QED
  BY <1>1, <1>2, PTL DEF Spec

(* A response that verifies against the current enclave was signed by the  *)
(* image that the configuration expects: the key that was registered was   *)
(* attested for that image, and no other image has had it.                 *)
THEOREM TrustSafety == Spec => []TrustedImage
<1>1. RegistryInv => TrustedImage
  <2> SUFFICES ASSUME RegistryInv, NEW e \in DOMAIN enclaves, NEW r \in responses,
                      IsCurrent(e), Verifies(e, r)
               PROVE  r.pcrs = config.pcrs
    BY DEF TrustedImage
  <2> DEFINE d == [pk |-> enclaves[e].pk, pcrs |-> enclaves[e].pcrs]
  <2>1. config.current = e /\ d.pk = r.pk
    BY DEF IsCurrent, Verifies
  <2>2. e # None
    BY Parts DEF None
  <2>3. d.pcrs = config.pcrs /\ d \in docs
    BY <2>1, <2>2 DEF RegistryInv, Registered
  <2> QED
    BY <2>1, <2>3 DEF RegistryInv, OneImagePerKey
<1> QED
  BY <1>1, RegistryInvariance, PTL

(* What the holder of the Cap destroyed was superseded by a migration, and *)
(* the configuration does not name it.                                     *)
THEOREM GoneSafety == Spec => []GoneForAReason
<1>1. RegistryInv => GoneForAReason
  BY DEF RegistryInv
<1> QED
  BY <1>1, RegistryInvariance, PTL

(* In an enclave, the sidecar that a relayer reaches was spawned in its    *)
(* own start, by itself or by the dry run of run.sh.                       *)
THEOREM OwnSidecar == Spec => []EnclaveServesOwn
<1>1. RegistryInv => EnclaveServesOwn
  <2> SUFFICES ASSUME SupervisorInv, enclave_mode, NEW s \in Answering
               PROVE  s \in {DryRun(boot), Own(boot)}
    BY DEF RegistryInv, EnclaveServesOwn
  <2>1. s \in Servers /\ s[1] = boot
    BY DEF SupervisorInv, Answering
  <2> QED
    BY <2>1, ServerParts
<1> QED
  BY <1>1, RegistryInvariance, PTL
(* An enclave becomes current in the step that appends it, and in no other.*)
LEMMA NeverAgain ==
  ASSUME RegistryInv, [Next]_vars, NEW e \in DOMAIN enclaves, IsCurrent(e)'
  PROVE  IsCurrent(e)
<1>1. e \in 1 .. Len(enclaves) /\ Len(enclaves) \in Nat
  BY Parts
<1>2. CASE UNCHANGED <<config, enclaves>>
  BY <1>2 DEF IsCurrent
<1>3. ASSUME NEW v \in 1 .. package, Migrate(v) PROVE IsCurrent(e)
  BY <1>3, Parts DEF Migrate, IsCurrent
<1>4. ASSUME NEW d \in docs, RegisterEnclave(d) PROVE IsCurrent(e)
  <2>1. config'.current = Len(enclaves) + 1
    BY <1>4, Parts DEF RegisterEnclave
  <2> QED
    BY <1>1, <2>1 DEF IsCurrent
<1>5. ASSUME NEW i \in Images, UpdatePcrs(i) PROVE IsCurrent(e)
  <2>1. config'.current = 0
    BY <1>5, Parts DEF UpdatePcrs, None
  <2> QED
    BY <1>1, <2>1 DEF IsCurrent
<1>6. ASSUME NEW f \in DOMAIN enclaves, NEW s \in {"withdrawn", "destroyed"},
             enclaves' = [enclaves EXCEPT ![f].state = s], UNCHANGED config
      PROVE  IsCurrent(e)
  <2>1. enclaves[e] \in Enclaves /\ enclaves \in Seq(Enclaves)
    BY Parts
  <2>2. CASE f = e
    BY <1>6, <2>1, <2>2 DEF IsCurrent, Enclaves
  <2>3. CASE f # e
    BY <1>6, <2>1, <2>3 DEF IsCurrent
  <2> QED
    BY <2>2, <2>3
<1>7. CASE \E f \in DOMAIN enclaves : DestroyOldEnclave(f) \/ DeployOldEnclaveByOwner(f)
  BY <1>6, <1>7 DEF DestroyOldEnclave, DeployOldEnclaveByOwner
<1> QED
  BY <1>2, <1>3, <1>4, <1>5, <1>7
     DEF Next, Processes, registryVars, GetAttestation, SignResponse, Upgrade, vars

(* The key of a start is made once, when the relayer has not served yet.   *)
LEMMA NewKey ==
  ASSUME RegistryInv, [Next]_vars, eph_kp' \notin {None, eph_kp}
  PROVE  relayer = "starting" /\ eph_kp' = boot
<1>1. CASE Processes
  BY <1>1 DEF Processes, SupervisorNext, LaunchOnHost, LaunchEnclave, SidecarListens, SidecarDies,
         StartRelayer, Probe, GiveUp, Serve, FreshKey, Shutdown, Ends, Killed, Reboot, None
<1>2. CASE UNCHANGED supervisorVars
  BY <1>2 DEF supervisorVars
<1> QED
  BY <1>1, <1>2
     DEF Next, GetAttestation, SignResponse, Upgrade, Migrate, RegisterEnclave, UpdatePcrs,
         DestroyOldEnclave, DeployOldEnclaveByOwner, vars

(* Trust comes from a registration of the start's own key, and what is not *)
(* trusted any more is not trusted again.                                  *)
THEOREM EarnedTrust == Spec => TrustIsEarned
<1>1. ASSUME RegistryInv, [Next]_vars
      PROVE  /\ \A e \in DOMAIN enclaves : ~IsCurrent(e) => ~IsCurrent(e)'
             /\ eph_kp' \notin {None, eph_kp} =>
                  /\ \A e \in DOMAIN enclaves : enclaves[e].pk # eph_kp'
                  /\ \A c \in docs \cup responses : c.pk # eph_kp'
  <2>1. \A e \in DOMAIN enclaves : ~IsCurrent(e) => ~IsCurrent(e)'
    BY <1>1, NeverAgain
  <2>2. ASSUME eph_kp' \notin {None, eph_kp}
        PROVE  /\ \A e \in DOMAIN enclaves : enclaves[e].pk # eph_kp'
               /\ \A c \in docs \cup responses : c.pk # eph_kp'
    <3>1. relayer = "starting" /\ eph_kp' = boot
      BY <1>1, <2>2, NewKey
    <3>2. boot \in Nat
      BY <1>1 DEF RegistryInv, SupervisorInv, SupervisorTypeOK
    <3>3. \A c \in docs \cup responses : c.pk \in Nat /\ c.pk < boot
      <4>1. \A c \in docs \cup responses : c.pk \in Nat
        BY <1>1 DEF RegistryInv, TypeOK, Claims, Keys
      <4> QED
        BY <1>1, <3>1, <4>1 DEF RegistryInv, UsedKeys
    <3>4. \A c \in docs \cup responses : c.pk # eph_kp'
      BY <3>1, <3>2, <3>3
    <3>5. ASSUME NEW e \in DOMAIN enclaves PROVE enclaves[e].pk # eph_kp'
      <4> DEFINE d == [pk |-> enclaves[e].pk, pcrs |-> enclaves[e].pcrs]
      <4>1. d \in docs /\ d.pk = enclaves[e].pk
        BY <1>1 DEF RegistryInv, Registered
      <4> QED
        BY <3>4, <4>1
    <3> QED
      BY <3>4, <3>5
  <2> QED
    BY <2>1, <2>2
<1> QED
  BY <1>1, RegistryInvariance, PTL DEF Spec, TrustIsEarned
=============================================================================
