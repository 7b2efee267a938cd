\* One relay, as deployed; one event the last subscriber rejects for good,
\* and up to three faults of any other kind.
SPECIFICATION SpecEnds
CONSTANTS
  w1 = w1
  Worker = {w1}
  MaxEvents = 3
  Subscribers = 2
  Limit = 2
  Poison = {1}
  MaxFaults = 3
  \* Alerts
  Evaluation = {"e1", "e2"}  AlertRule = {"r1", "r2"}  AlertRef = {"x"}
  CodeRank <- RanksOfCodes  DedupeWindow <- FirstRuleDedupes  QuietRule = {"r2"}
  QuietHour = {1}  MutedUntil <- NothingMuted  Acknowledger = {"a"}
  MaxAlerts = 2  LastAlertHour = 1
  \* Handheld
  Goods = {"g1", "g2"}  Shelf = {"a", "b"}  SuggestedShelf <- OneShelfEach
  MaxScans = 2  MaxSubmissions = 3  MaxVisits = 2  MaxReads = 2
INVARIANTS PublishedWasHandled DeliveredOnceInOrder AlertsAreSound QueueHoldsWhatWasTold
PROPERTIES RelayGetsThrough
CHECK_DEADLOCK FALSE
