\* The target branch moves while the run is reading: the finding.
SPECIFICATION Spec
CONSTANTS
  c1 = c1  c2 = c2  l1 = l1  l2 = l2
  NoLogin = NoLogin
  NoApp = NoApp
  Unread = Unread
  Heads = {c1, c2}
  FirstHead = c1
  Logins = {l1, l2}
  RuleSets <- AnyRules
  Attempts = 1
  MaxChanges = 1
  MaxReviews = 2
INVARIANTS ReadyIsKnownMergeable
