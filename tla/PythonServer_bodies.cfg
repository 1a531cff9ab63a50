SPECIFICATION FairSpec
CONSTANTS
  Tidy <- MCTidy
  NoTexts <- MCNoTexts
  Foreign <- MCForeign
  Dashed <- MCDashed
  Envs <- AllEnvs
  Bodies <- AllBodies
  Reqs = {r1}
  Ticks = TRUE
  Signals = {"INT", "KILL"}
INVARIANTS TypeOK AnswerIsExplained TraceContinues TraceIsWhole OnlyLateIsLost
PROPERTY StopEnds
