\* Suspending a driver id closes its assignment at once.
SPECIFICATION SpecStaff
CONSTANTS
  Dispatcher = {"c1", "c2"}
  Employee = {"e1", "e2"}
  DriverId = {"d1"}
  LastStaffDay = 2
  MaxHeld = 2
INVARIANT SuspendedIdsAreFree
CHECK_DEADLOCK FALSE
