SPECIFICATION Spec
CONSTANTS
  tab = tab
  page = page
  other = other
  far = far
  bye = bye
  Tabs = {tab}
  Requests = {page, bye}
  Home <- MCHome
  Logouts = {bye}
  Lossy = FALSE
  MaxExpired = 1
INVARIANT
  LoggedOut
