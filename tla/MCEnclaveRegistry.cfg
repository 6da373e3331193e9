SPECIFICATION Spec
CONSTANTS
  debug = debug
  release = release
  Images = {debug, release}
  Debug = debug
  Boots = 3
  Probes = 1
  Registrations = 2
  Upgrades = 1
INVARIANTS RegistryInv TrustedImage EnclaveServesOwn
PROPERTY TrustIsEarned
