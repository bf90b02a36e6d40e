\* Two runs of any roles, each in a local or a cloud department with an
\* unreadable document and a selection pass, and gatherers that may return
\* what is not theirs: the ledger, gaps, the spawn gate and progress.
CONSTANTS
  analyst = analyst  admin = admin
  engineering = engineering  finance = finance
  report = report  ledgerFile = ledgerFile  link = link
  r1 = r1  r2 = r2
  Roles = {analyst, admin}
  Departments = {engineering, finance}
  CloudDepartments = {finance}
  Paths = {report, ledgerFile, link}
  Inside <- MCInside
  Runs = {r1, r2}
  MaxGatherers = 1
  WantedFiles = 2
  MaxFiles = 1
  Size <- MCSize
  ReadAllChars = 10
  Unreadable = {ledgerFile}
  PermissionEdits <- PermissionChoices
  EnvironmentEdits <- ClosedOnly
  InitialStores <- FullStores
  ForeignFiles <- Foreign
  MaxEdits = 1
SPECIFICATION FairSpec
INVARIANTS
  AnswerPermitted
  LedgerTruthful
  NoSilentGap
PROPERTIES
  DeliveredFromStore
  Resolves
