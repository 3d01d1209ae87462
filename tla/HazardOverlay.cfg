CONSTANTS
  Reports = {r1, r2}
  Handlers = {h1, h2}
  Startup = Startup
  NoReport = NoReport
  LifetimeD = 2
  ExtensionD = 1
  ConfirmCap = 1
  MaxTime = 2
  MaxConfirms = 1
  MaxCrashes = 1
SPECIFICATION Spec
INVARIANTS
  TypeOK
  OverlaySupported
  OwnWriteVisible
  FailedRefreshMadeGood
PROPERTIES
  RestartAvoidsKnown
  LapsedStaysLapsed
