CONSTANTS
  OtherType = OtherType
  OtherLevel = OtherLevel
  Requests = {r1}
  CommandLine = {cli}
  MaxSubtasks = 2
  NoHint = NoHint
  Prompts <- MCPrompts
  Replies <- MCReplies
  Texts <- MCTexts
  Answers <- MCAnswers
  Ratios = {0}
  Ids = {i1, i2}
  Missing = Missing
  Empty = Empty
  Garbage = Garbage
  PushBeside = {"queueing"}
  MaxPops = 1
  MaxCrashes = 1
SPECIFICATION FairSpec
INVARIANTS TypeOK OnePlacePerSubtask PlannerStaysInBounds SuccessIsSettled AnswerTellsAll
PROPERTY EveryDispatchEnds
