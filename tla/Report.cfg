CONSTANTS
  x = x  y = y
  Addrs = {x, y}
  Codes = {1001, 100001, 100002, 100003}
  Gaps = {1}
  MaxLogRead = 3
  Limit = 3
  MaxLength = 6
  MaxNotes = 6
  Second = 2
  Hour = 1
  Day = 2
  MaxLate = 1
  Given <- CodesCsv
SPECIFICATION DaySpec
INVARIANTS DayTypeOK SizeExact CountsExact ConnectionsKept ReportsSessions CountedOnce AllDefined
PROPERTIES DailyReport
SYMMETRY Addresses
