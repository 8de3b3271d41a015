\* Two requests of one browser at a time, two sign-ins, three credentials.
SPECIFICATION Spec
CONSTANTS
  i1 = i1  i2 = i2
  Requests = {r1, r2}
  OAuthStates = {o1, o2}
  Sessions = {s1, s2}
  Installations = {i1, i2}
  Recorded = i1
  Situations <- SomeSituations
  Rotates = TRUE
  NoState = NoState
  NoSession = NoSession
  MaxGrants = 3
  MaxUpsets = 1
SYMMETRY Interchangeable
INVARIANTS OneSignInPerState CredentialSurvives
PROPERTIES AnswersAreAuthorized QuietRequestIsExact
CHECK_DEADLOCK FALSE
