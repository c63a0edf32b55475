CONSTANTS
  r = r  n = n  x = x  f = f  ta = ta  ic = ic  sc = sc  fc = fc
  t1 = t1  t2 = t2  tl = tl  c1 = c1  c2 = c2  i1 = i1  i2 = i2
  d1 = d1  d1b = d1b  d2 = d2  j0 = j0  jl = jl  j2 = j2
  own = own  lifted = lifted  revoked = revoked  altered = altered
  purpose = purpose  stale = stale  odd = odd  b1 = b1  b2 = b2
  NoToken = NoToken  NoBundle = NoBundle  NoBranch = NoBranch
  Certs <- MCCerts
  SubjectOf <- MCSubjectOf
  IssuerOf <- MCIssuerOf
  UnitsOf <- MCUnitsOf
  INSTALLROOT_ANCHORS = {r}
  TIMESTAMP_ANCHORS = {ta}
  Chains <- MCChains
  MaxDay = 2
  Streams <- MCStreams
  ContentOf <- MCContentOf
  Channels <- MCChannels
  Bundles = {b1, b2}
  CertsIn <- MCCertsIn
  Issuers <- MCIssuers
  Environments <- MCEnvironments
  Population = "dod"
  Forged <- MCForged
  Vouched <- MCVouched
  Reliable = {t1, tl}
  MaxFails = 0
  MaxScripts = 2
  Settings <- MCBoth
SPECIFICATION Spec
PROPERTY NoRollback
