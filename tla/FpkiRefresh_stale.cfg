CONSTANTS
  u1 = u1  u2 = u2  u3 = u3  u4 = u4  p1 = p1  p2 = p2  p3 = p3
  a = a  c1 = c1  c2 = c2  c3 = c3  c4 = c4
  bA = bA  bC = bC  b2 = b2  b3 = b3
  NoBody = NoBody  NoPath = NoPath
  Uris <- MCUris
  Paths <- MCPaths
  Certs <- MCCerts
  Junk = {}
  Anchors <- MCAnchors
  Bodies <- MCBundles
  Bundles <- MCBundles
  Entries <- MCEntries
  Repositories <- MCRepositories
  PathOf <- MCPathOf
  Publishes <- MCPublishes
  Issuers <- MCIssuers
  NotAfter <- MCNotAfter
  FreshCheckout = FALSE
  MaxDay = 2
  MaxChanges = 1
  MaxFails = 1
SPECIFICATION Spec
INVARIANT StoreReproduces
