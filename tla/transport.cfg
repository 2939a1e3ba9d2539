CONSTANTS
  t1 = t1
  t2 = t2
  Tasks = {t1, t2}
  Methods <- LaunchAndRetire
  Lifetime = 2
  Margin = 1
  Skew = 0
  MaxAttempts = 2
  AttemptTime = 1
  MaxVersion = 1
  MaxIds = 1
  MaxFaults = 1
SPECIFICATION Spec
INVARIANTS TokensLastTheMargin AnswersAreCurrent RegistrationsAreKnown
PROPERTIES OneMints
