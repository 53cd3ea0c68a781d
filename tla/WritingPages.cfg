\* Two comments, two calls of the post's page at once; two passwords and two codes; days of
\* four ticks in four zones, two of them with daylight saving.
SPECIFICATION Spec
CONSTANTS
  MaxCalls = 2
  None = None
  Texts = {a, b}
  MaxComments = 2
  MaxFlights = 2
  FormEmails = {e1}
  FormPasswords = {p1, p2}
  LastCode = 2
  Blank = Blank
  Day = 4
  FirstTick = 20
  LastTick = 39
  Zones <- MCZones
  ServerZones <- MCServerZones
  MonthStart <- MCMonthStart
  NoDates = NoDates
INVARIANTS
  CommentsAreStored
  HeartsAgree
  AcceptedAsShown
  FilterIsADayOutAtMost
  CalendarsAgree
  GridsAreWhole
PROPERTIES
  EditKeepsDays
SYMMETRY Symmetric
