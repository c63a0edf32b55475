CONSTANTS
  k0 = k0  k1 = k1  k1b = k1b  k2 = k2  kx = kx
  r1 = r1  r2 = r2  a1 = a1  a2 = a2
  NoCab = NoCab
  Certs <- MCCerts
  Cabs <- MCCabs
  Releases <- MCShortReleases
  Vouched <- MCVouched
  Published <- MCPublished
  RootsOf <- MCRootsOf
  CasOf <- MCCasOf
  Carried <- MCCarried
  AsOfs = {3}
  MaxDay = 3
  MaxFails = 0
  Settings <- MCDatedSettings
SPECIFICATION Spec
INVARIANT StoreMatchesCabinet
