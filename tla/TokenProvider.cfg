\* Two reads at a time of one installation, and four tokens.
SPECIFICATION Spec
CONSTANTS
  Requests = {r1, r2}
  MaxTokens = 4
INVARIANTS RetryIsNewer
PROPERTIES RefusedForCause
