SPECIFICATION FairSpec
CONSTANTS
  tab = tab
  other = other
  page = page
  far = far
  bye = bye
  Tabs = {tab, other}
  Requests = {page, bye, far}
  Home <- MCHome
  Logouts = {bye}
  Lossy = TRUE
  MaxExpired = 2
INVARIANTS
  TypeOK
  SingleFlight
  SessionKept
  RotatedOnUse
  ResetEndsSessions
PROPERTIES
  EveryRequestSettles
