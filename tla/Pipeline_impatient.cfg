SPECIFICATION FairSpec
CONSTANTS
  Ids <- MCIds
  Routes <- MCRoutes
  Hops <- MCHops
  Cpu = "cpu"
  Invalid = "bad"
  Nodes <- Compose
  LangOf <- ComposeLangOf
  IdOf <- ComposeIdOf
  Peers <- ComposePeers
  Posts <- ImpatientPosts
  MaxPosts = 1
  MaxCalls = 14
  MaxCrashes = 1
  Patient = FALSE
INVARIANTS OpenCallsFormStack OkIsEarned RepeatsOnlyByGo LogTellsRoute
PROPERTY NothingIsRewritten KeepsContract EveryCallEnds
