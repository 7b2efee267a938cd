\* One year with three periods, of which two overlap the third; two commands at a time.
SPECIFICATION Spec
CONSTANTS
  a = a  b = b  cfo = cfo  gm = gm  y1 = y1  p1 = p1  p2 = p2  p3 = p3
  d1 = d1  d2 = d2  cash = cash  sales = sales
  NoUser = NoUser
  Session = {a, b}
  User = {cfo, gm}
  Approver = {gm}
  Date = {d1, d2}
  Year = {y1}
  Period = {p1, p2, p3}
  DatesOf <- MCDatesOf
  YearOf <- MCYearOf
  Account = {cash, sales}
  Postings <- MCPostings
  MaxEntries = 3
  MaxDecisions = 1
  MaxVersion = 4
SYMMETRY SessionSymmetry
INVARIANTS JournalSound ReopenedByDecision
PROPERTIES CutOff ImplementsBooks
CHECK_DEADLOCK FALSE
