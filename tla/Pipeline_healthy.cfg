SPECIFICATION Spec
CONSTANTS
  Ids <- MCIds
  Routes <- MCRoutes
  Hops <- MCHops
  Cpu = "cpu"
  Invalid = "bad"
  Nodes <- Compose
  LangOf <- ComposeLangOf
  IdOf <- ComposeIdOf
  Peers <- ComposePeers
  Posts <- MixedPosts
  MaxPosts = 2
  MaxCalls = 12
  MaxCrashes = 0
  Patient = TRUE
INVARIANTS TypeOK NestedFirst ValidIsAnsweredOk BadRequestMeansUntouched
