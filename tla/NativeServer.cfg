CONSTANTS
  Requests = {r1, r2, r3}
  Models = {m1, m2}
  AnyModel = AnyModel
  Limits = {1}
  MaxModels = 2
  MaxContexts = 3
  NoCtx = NoCtx
  NoModel = NoModel
  NoOne = NoOne
  Main = Main
SPECIFICATION FairSpec
PROPERTIES ImplementsModelService RequestsAnswered LoadsWithinLimit
INVARIANTS RegistryExact InferenceOnItsModel EmbedTableBacked StopReleasesAll
