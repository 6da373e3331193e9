SPECIFICATION Spec
CONSTANTS
  r1 = r1
  r2 = r2
  a1 = a1
  a2 = a2
  m1 = m1
  NoAccount = NoAccount
  Requests = {r1, r2}
  Messages = {m1}
  Stamp <- MCStamp
  Accounts = {a1, a2}
  Registry = {a1}
  Default = NoAccount
  Window = 1
  Ttl = 2
  MaxClock = 2
  MaxChanges = 2
SYMMETRY Symmetry
CHECK_DEADLOCK FALSE
INVARIANTS AuthInv AcceptedWasDelegate SteadyKeyIsAccepted SecondAdmissionNeedsLead
