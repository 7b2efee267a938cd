\* One component live at a time, each on its own small instance.
SPECIFICATION SpecServices
CONSTANTS
  \* AuditChain; CommandEvents, with Idempotency and OutboxRelay
  Txn = {"t1", "t2", "t3"}  Content = {"c1", "c2"}  MaxRows = 2  MaxLog = 1
  Session = {"s1", "s2"}  Key = {"k1"}  Request = {"q1", "q2"}  Result = {"r1"}
  LockId <- SharedLock  NoRow = NoRow  NoResponse = NoResponse  TTL = 1  MaxClock = 1
  RelayProcess = {"w1"}  MaxEvents = 2  Subscribers = 1  Limit = 1  Poison = {}  MaxFaults = 0
  NoPayload = NoPayload
  \* StockCounts
  Place = {"p1", "p2"}  Count = {"c1", "c2"}  CountQty = {0, 1}  PlaceLimit = 1  MaxMovements = 1
  \* SpaceBlocks
  SpaceSession = {"s1", "s2"}  NoSession = "nobody"  Block = {"b1"}  BlockCapacity = 2
  LastDay = 3  SpaceQty = {1, 2}  ReservationMaxDays = 1  MaxSpaceRows = 2
  \* OccupancyBilling
  Run = {"r1", "r2"}  Group = {"g1", "g2"}  MaxPallets = 1  OtherSource = {"x"}
  MaxRuns = 2  MaxChanges = 1
  \* PriceLists
  Service = {"s1", "s2"}  Floor <- FloorOfOne  LineRows <- SampleLines
  MaxPricedQty = 4  LastListDay = 2
  \* Contracts
  LastContract = 2  PriceList = {"l1", "l2", "l3"}  ListOwner <- OneListOfEach
  ListFrom <- FromDayOne  InternalList = {"l3"}  ListPrices = {"l1", "l3"}  SlaEnabled = {1}  Exceptions <- SecondDay
  LastDate = 2
  \* AccountCredit
  Officer = {"o1", "o2"}  CreditLimit = {0, 1}  MaxCreditOps = 3
  \* Quotes
  LastQuote = 2  LinePrice = {1, 2}  FloorPrice = 2  ServiceCost = {1, 2}  Discount = {0, 1}
  PriceException <- OneException  MaxQuoteLines = 1  LastQuoteDay = 2
  \* Commissions
  Person = {"d", "c", "x"}  Driver = {"d"}  Confirmer = {"c"}  CommissionRule <- TwoBands
  MaxDelivered = 1  DisputeWindow = 1  LastHour = 2
  \* LoginCodes
  LoginCall = {"c1", "c2"}  ExpiryMinutes = 2  MaxAttempts = 1  ResendAfter = 1
  RequestsPerHour = 2  HourLength = 2  SessionLifetime = 1  MaxCodes = 3  LastMinute = 2
  \* PortalPulls
  Cycle = {"c1", "c2"}  Tracking = {"k1"}  PortalValue = {"v", "w"}
  MaxPulls = 3  MaxRecords = 2  MaxHealth = 3
  \* Shifts, DriverIds
  Planner = {"c1", "c2"}  Worker = {"e1", "e2"}  Forever = 3  LastShiftDay = 2  MaxShifts = 3
  Dispatcher = {"c1", "c2"}  Employee = {"e1", "e2"}  DriverId = {"d1"}
  LastStaffDay = 1  MaxHeld = 2
  \* ApiHost, OutboundChecks
  Attempt = {"a1", "a2"}  Entity = {"e1", "e2"}  Requests <- PlainOrSampled
  MaxScopeChanges = 1
  Slot = {"a", "b"}  StartFacts <- UpToTwoDefects  LastCheckDay = 1  MaxFactChanges = 1
  \* DeliveryTasks
  Clerk = {"k1", "k2"}  TaskOrder = {"o1", "o2"}  TaskEntity = {"e1", "e2"}
  EntityOf <- AllInOne  Vehicle = {"v"}  LastInstant = 1  MaxTaskReads = 2  MaxVerdicts = 2
INVARIANTS
  ServicesTypesOK ChainIntact VerifierIsExact AnswersMatchEffects EventsMatchEffects SoldWithinTerms SnapshotBilledAsTaken
  PricesAddUp OrdersFollowTheContract FieldWorkIsConsistent AccessIsBounded
  PullsAuditReplays
PROPERTIES
  OneEffectPerLifetime ImplementsOnce DecidedAsRead
CHECK_DEADLOCK FALSE
