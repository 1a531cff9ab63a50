SPECIFICATION Spec
CONSTANTS
  Ids <- MCIds
  Routes <- MCRoutes
  Hops <- MCHops
  Cpu = "cpu"
  Invalid = "bad"
  Nodes <- WithNode
  LangOf <- WithNodeLangOf
  IdOf <- WithNodeIdOf
  Peers <- StalePeers
  Posts <- StalePosts
  MaxPosts = 2
  MaxCalls = 14
  MaxCrashes = 0
  Patient = TRUE
INVARIANT VisitsHappened
