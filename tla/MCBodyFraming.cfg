SPECIFICATION Spec
CONSTANTS
  Masked = Masked
  None = None
  Kinds = {"plain", "pii", "attack"}
  MaxParts = 2
  Cases <- MCCases
  Word = 1000
  KindChars = 5
  Replies <- MCReplies
  Rewrites <- MCRewrites
INVARIANT FramingKept
CHECK_DEADLOCK FALSE
