\* Two users and two tabs of one browser.
SPECIFICATION Spec
CONSTANTS
  Users = {u1, u2}
  Tabs = {t1, t2}
  MaxToken = 2
  MaxCalls = 2
  None = None
PROPERTIES
  LogoutDeletesCookies
