CONSTANTS
  Handlers = {h1, h2}
  h1 = h1
  h2 = h2
  Addresses <- MCAddresses
  Spellings <- MCSpellings
  Passwords <- MCPasswords
  Limits <- MCLimits
  Databases <- MCDatabases
  NoToken = NoToken
  Nobody = Nobody
  TokenTTL = 1
  MaxRequests = 3
  MaxClock = 1
SPECIFICATION Spec
SYMMETRY Symmetry
INVARIANTS
  TypeOK
  OneAccountPerAddress
  RightPasswordAdmitted
PROPERTY
  RoutesPrivate
CHECK_DEADLOCK FALSE
