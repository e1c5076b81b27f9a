CONSTANTS
  to_lower_lut <- MCLowerCase
  FieldNames <- MCFieldNames
  Messages <- MCMessageSet
  Limits <- MCLimits
  MaxMessages = 2
  Bodies <- MCBodies
  EditedNames <- MCNames
  EditedValues <- MCValues
  MaxFields = 2
  MaxBodySize = 2
  Answered <- MCAnswered
  FrameStreams <- MCFrameStreams
  BufferSize = 16
SPECIFICATION Spec
CHECK_DEADLOCK FALSE
CONSTRAINT ResponseBound
INVARIANTS
  RequestIsTheMessage
  LimitsIndependentOfPieces
  ResponseCarriesBody
  PartsKeepTheAnnouncedAttr
  FramesReadExactly
  FramesJudgedRight
