CONSTANTS
  x = x  y = y  z = z  ca = ca  tls = tls
  k1 = k1  k1b = k1b  kn = kn  ku = ku  kf = kf  k2 = k2
  Nothing = Nothing  Every = Every  Unreadable = Unreadable
  NoCab = NoCab  Torn = Torn
  Certs <- MCCerts
  Purposes = {tls}
  Envs <- MCEnvs
  Cabs <- MCCabs
  PackagingOf <- MCPackagingOf
  SignatureOf <- MCSignatureOf
  Pinned = {ca}
  ListIn <- MCListIn
  NotAfter <- MCNotAfter
  Unverifiable = {}
  MayServe <- MCMayServe
  Releases <- MCReleases
  Legacy = {k1}
  MaxDay = 3
  MaxFails = 1
  Retries = 1
  Settings <- MCSettings
SPECIFICATION FairSpec
INVARIANTS
  TypeOK
  MaterialMatchesCabinet
  NotModifiedMissesNothing
PROPERTIES
  CatchesUp
  NothingDeletedUntilAllArrived
  ImplementsCommittedStore
