CONSTANTS
  Wrong = Wrong
  AllowedModels <- MCModels
  Goals <- MCGoals
  Replies <- MCReplies
  Analyses <- MCAnalyses
  MaxVersion = 3
  MaxTries = 2
SPECIFICATION Spec
INVARIANTS TypeOK BlameIsRight PreviewConfirms DoneTwiceHasCause
