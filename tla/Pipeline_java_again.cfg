SPECIFICATION Spec
CONSTANTS
  Ids <- MCIds
  Routes <- MCRoutes
  Hops <- MCHops
  Cpu = "cpu"
  Invalid = "bad"
  Nodes <- Compose
  LangOf <- ComposeLangOf
  IdOf <- ComposeIdOf
  Peers <- ComposePeers
  Posts <- AgainPosts
  MaxPosts = 1
  MaxCalls = 9
  MaxCrashes = 0
  Patient = TRUE
INVARIANT ValidIsAnsweredOk
