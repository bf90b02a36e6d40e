\* README: every document is gated before it is read.  Cloud adapters ask
\* the environment config alone before they download.
CONSTANTS
  analyst = analyst  admin = admin
  engineering = engineering  finance = finance
  report = report  ledgerFile = ledgerFile  link = link
  r1 = r1  r2 = r2
  Roles = {analyst, admin}
  Departments = {engineering, finance}
  CloudDepartments = {finance}
  Paths = {report, link}
  Inside <- MCInside
  Runs = {r1}
  MaxGatherers = 2
  WantedFiles = 2
  MaxFiles = 1
  Size <- MCSize
  ReadAllChars = 10
  Unreadable = {}
  PermissionEdits <- PermissionChoices
  EnvironmentEdits <- EnvironmentChoices
  InitialStores <- FullStores
  ForeignFiles <- NoForeign
  MaxEdits = 0
SPECIFICATION Spec
INVARIANTS
  EveryReadPermitted
