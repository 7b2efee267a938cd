\* A posting by others against a reservation.
SPECIFICATION Spec
CONSTANTS
  a = a  b = b  u1 = u1  u2 = u2  o1 = o1  o2 = o2
  k1 = k1  k2 = k2  k3 = k3  x1 = x1  x2 = x2  x3 = x3
  NoUser = NoUser
  NoLot = NoLot
  Session = {a, b}
  User = {u1, u2}
  Managers = {u1}
  Order = {o1, o2}
  Line = {k1, k2, k3}
  OrderOf <- MCOrderOf
  LineNo <- MCLineNo
  Ordered <- OrderedQty
  Lot = {x1, x2, x3}
  Quarantined = {x3}
  LotsFor <- MCLotsFor
  PickRank <- MCPickRank
  InitialStock <- MCStock
  MaxStock = 0
  MaxMoves = 1
SYMMETRY SessionSymmetry
INVARIANT AllocatedWithinOnHand
CHECK_DEADLOCK FALSE
