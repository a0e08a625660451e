CONSTANTS
  domain = domain
  p1 = p1
  p2 = p2
  p3 = p3
  Pairs = {p1, p2, p3}
  Domains = {domain}
  Blank = Blank
  Unset = Unset
  NoNumber = NoNumber
  Environments <- MCEnvironments
SPECIFICATION FairSpec
INVARIANTS
  StuckOnlyByTornKey
  Inv
PROPERTIES
  OnlyHopelessStartsFail
  PairKept
  Recovers
