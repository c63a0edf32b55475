SPECIFICATION Spec
CONSTANTS
  Certs <- MCCerts
  Decodes <- MCDecodes
  Anchoring <- MCAnchoring
  WithCertificate <- MCWithCertificate
  TlsReads <- MCDecodes
  Subject <- MCSubject
  Issuer <- MCIssuer
  KeyId <- MCKeyId
  AuthorityKeyId <- MCAuthorityKeyId
  Key <- MCKey
  SignedBy <- MCSignedBy
  Validity <- MCValidity
  Label <- MCLabel
  Serial <- MCSerial
  Releases <- MCReleases
  Settings <- MCSettings
  NoKeyId = NoKeyId
  Ids = {"own", "other"}
  OwnId = "own"
  MaxDepth = 3
  MaxDay = 2
  MaxDeaths = 1
INVARIANTS
  TypeOK
  CompleteRunPasses
  WalkStoreIsSettled
  EnvironmentHoldsWholeStores
  PreparedPathsBuild
  OneStoreThreeWays
PROPERTIES
  ReviewSeesEveryCaChange
