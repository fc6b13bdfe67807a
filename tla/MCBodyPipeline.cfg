SPECIFICATION Spec
CONSTANTS
  Masked = Masked
  None = None
  Kinds = {"plain", "pii", "attack"}
  MaxParts = 2
  Cases <- MCCases
  Word = 1000
  KindChars = 5
  Replies <- MCReplies
  Rewrites <- MCRewrites
INVARIANTS TypeOK BodyWhole BlockHolds RefusedForCause LastMessageClean  ReplyWhole NewestKept WithinThreshold
CHECK_DEADLOCK FALSE
