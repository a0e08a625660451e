CONSTANTS
  r1 = r1
  r2 = r2
  t1 = t1
  t2 = t2
  t3 = t3
  alice = alice
  bob = bob
  Tokens = {t1, t2}
  Requests = {r1, r2}
  Principals = {alice, bob}
  TTL = 2
  NoToken = NoToken
  NoSession = NoSession
  Absent = Absent
SPECIFICATION FairSpec
INVARIANTS
  PresentedTokenRevoked
  Inv
PROPERTIES
  RevokedForGood
  LifetimeNeverExtended
  LifecycleSpec
  SessionsCollected
