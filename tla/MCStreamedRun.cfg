CONSTANTS
  s1 = s1
  s2 = s2
  final = final
  Steps = {s1, s2}
  FinalStep = final
  Symbols = {" ", "<", ">", "[", "]"}
  MaxChunk = 3
  MaxSize = 4
SPECIFICATION FairSpec
INVARIANTS
  MessageWellFormed
  AnswerIsTheMessage
  NothingLost
  StreamedIsReturned
PROPERTY
  StreamEnds
