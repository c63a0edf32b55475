CONSTANTS
  u1 = u1  u2 = u2  u3 = u3  u4 = u4
  a = a  c1 = c1  c2 = c2  c3 = c3  j = j
  bOld = bOld  bNew = bNew  b2 = b2  b3 = b3  b4 = b4  page = page
  NoBody = NoBody
  Uris <- MCUris
  Certs <- MCCerts
  Junk <- MCJunk
  Anchors <- MCAnchors
  Bodies <- MCBodies
  Bundles <- MCBundles
  Entries <- MCEntries
  Repositories <- MCRepositories
  Serves <- MCServes
  EarlierCopies <- MCEarlierCopies
  MaxFetches = 3
  MaxCertificates = 3
  Retries = 1
  Resamples = 2
SPECIFICATION FairSpec
INVARIANTS
  TypeOK
  ExactWalk
  SameCertificates
  OnlyAnAnswerRemoves
  LimitsHold
PROPERTIES
  Terminates
  ImplementsWalk
