\* Both sides interleaved, half failures, cancellation, a config saved or a
\* document deleted or written meanwhile.
CONSTANTS
  analyst = analyst  admin = admin
  eng = eng  hr = hr
  pay = pay
  Roles = {analyst, admin}
  Departments = {eng, hr}
  CloudDepartments = {hr}
  Paths = {pay}
  Inside <- MCInside
  Yours = Yours  Theirs = Theirs
  Runs = {Yours, Theirs}
  NoSide = NoSide  NoDraft = NoDraft
  Texts = {t1}
  MaxRetries = 0
  PermissionEdits <- PermissionChoices
  EnvironmentEdits <- NotEngineering
  Documents <- OneName
  Answers <- TwoAnswers
  MaxEdits = 1
SPECIFICATION FairComparison
INVARIANTS
  SidesKeptApart
  OneOutcome
  OtherHalfHeard
  DiffOfWholeSides
PROPERTIES
  ComparisonCloses
