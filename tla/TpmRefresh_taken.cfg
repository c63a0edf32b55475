CONSTANTS
  k0 = k0  k1 = k1  k1b = k1b  k2 = k2  kx = kx
  r1 = r1  r2 = r2  a1 = a1  a2 = a2
  NoCab = NoCab
  Certs <- MCCerts
  Cabs <- MCCabs
  Releases <- MCReleases
  Vouched <- MCVouched
  Published <- MCPublished
  RootsOf <- MCRootsOf
  CasOf <- MCCasOf
  Carried <- MCCarried
  AsOfs = {2}
  MaxDay = 3
  MaxFails = 2
  Settings <- MCSettings
SPECIFICATION FairSpec
INVARIANTS
  TypeOK
  StoreMatchesCabinet
  ReissueIsTaken
PROPERTIES
  CollectedByFetching
  CatchesUp
  ImplementsCommittedStore
