SPECIFICATION Spec
CONSTANTS
  MaxLines = 4
  MaxTurns = 4
INVARIANTS
  TypeOK
  SameExchangeSameRequest
  SameSettingsSameParameters
  StreamAgreesWithWhole
  AnswerSurvivesReplay
  
  ClosedOnlyByUpstreamEnd
  BlocksAreWellFormed
CHECK_DEADLOCK FALSE
