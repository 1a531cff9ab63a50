SPECIFICATION FairSpec
CONSTANTS
  Tidy <- MCTidy
  NoTexts <- MCNoTexts
  Foreign <- MCForeign
  Dashed <- MCDashed
  Envs <- OneEnv
  Bodies <- FewBodies
  Reqs = {r1, r2}
  Ticks = FALSE
  Signals = {}
INVARIANTS CountsTellAnswers
PROPERTIES KeepsContract OnlyPeersHoldRequests
