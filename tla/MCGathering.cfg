\* One run over a local and a cloud department, small enough a ceiling that
\* the local one needs a selection pass.
CONSTANTS
  analyst = analyst  admin = admin
  engineering = engineering  finance = finance
  report = report  ledgerFile = ledgerFile  link = link
  r1 = r1  r2 = r2
  Roles = {analyst, admin}
  Departments = {engineering, finance}
  CloudDepartments = {finance}
  Paths = {report, ledgerFile, link}
  Inside <- MCInside
  Runs = {r1}
  MaxGatherers = 2
  WantedFiles = 2
  MaxFiles = 1
  Size <- MCSize
  ReadAllChars = 10
  Unreadable = {}
  PermissionEdits <- PermissionChoices
  EnvironmentEdits <- EnvironmentChoices
  InitialStores <- FullStores
  ForeignFiles <- NoForeign
  MaxEdits = 2
SPECIFICATION Spec
INVARIANTS
  TypeOK
  PromptsPermitted
  LocalReadsPermitted
  HardCeiling
PROPERTIES
  GatesAgree
  CancelStopsGatherers
  KeepsPromise
