SPECIFICATION Spec
CONSTANTS
  Node <- MCNode
  Base <- MCBase
  Rules <- MCRules
  Prog <- MCProg
  Eval <- MCEval
  Once <- MCOnce
  Idb <- MCIdb
  Stage <- MCStage
  Answer <- MCAnswer
  Graph <- MCGraph
  Fact <- MCFact
  Claim <- MCClaim
  Pattern <- MCPattern
  Match <- MCMatch
  Wirings <- MCWirings
  Nothing = Nothing
INVARIANTS PipelineAtRest IncrementalIsBatch ClaimsWereTrue
PROPERTIES NothingRetracted FactsArrive
