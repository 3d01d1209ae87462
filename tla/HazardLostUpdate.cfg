CONSTANTS
  Reports = {r1, r2}
  Handlers = {h1, h2}
  Startup = Startup
  NoReport = NoReport
  LifetimeD = 1
  ExtensionD = 1
  ConfirmCap = 1
  MaxTime = 2
  MaxConfirms = 2
  MaxCrashes = 0
SPECIFICATION Spec
INVARIANT NextRequestAvoids
