CONSTANTS
  Handlers = {h1, h2}
  MaxId = 4
  Actors = {"a", "b"}
  MaxRedirects = 2
  RsaKeys = {"rsa"}
  Ed25519Keys = {"ed25519"}
  Tolerance = 1
  Resolvers = {r1, r2}
  Names = {"n1", "n2"}
SPECIFICATION FederationSpec
INVARIANTS
  TypeOK DeliveredWasReceived
  SignatureSafety RemoteActorSafety
PROPERTIES
  FollowGivenUpForAReason BlockRemovesFollows RequestsEnd
  RowsKeepTheirActor FetchesEnd
