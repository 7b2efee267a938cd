\* 17 paragraph 4-1: no space that does not exist is sold.
SPECIFICATION SpecSpace
CONSTANTS
  NoSession = NoSession
  SpaceSession = {"s1", "s2"}
  Block = {"b1"}
  BlockCapacity = 2
  LastDay = 3
  SpaceQty = {1, 2}
  ReservationMaxDays = 1
  MaxSpaceRows = 3
INVARIANT SpaceNotOversold
CHECK_DEADLOCK FALSE
