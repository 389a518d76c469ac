CONSTANTS
  Texts <- MCTexts
  DefaultText = "call"
  Params <- MCParams
  DefaultParams = "42"
  Queries <- MCQueries
  NoValue = "none"
  Values <- MCParams
  NodesOf <- MCNodesOf
  EdgesOf <- MCEdgesOf
  ExceptionNodesOf <- MCExceptionNodesOf
  StepsOf <- MCStepsOf
  Matches <- MCMatches
SPECIFICATION Spec
INVARIANTS TypeOK StepsCurrent NodesShowStep DetailsShowStep ModesAgree
PROPERTY PlaybackEnds
