\* D-211: nothing of a batch under an open decision reaches a storage location.
SPECIFICATION Spec
CONSTANTS
  a = a  b = b  o1 = o1  o2 = o2  k1 = k1  k2 = k2  k3 = k3
  x1 = x1  x2 = x2  r1 = r1  r2 = r2  q1 = q1  b1 = b1
  NoLot = NoLot
  NoPlace = NoPlace
  Session = {a, b}
  Order = {o1, o2}
  Line = {k1, k2, k3}
  OrderOf <- MCOrderOf
  Ordered <- MCOrdered
  Lot = {x1, x2}
  LotsOf <- MCLotsOf
  Receiving = {r1, r2}
  Quarantine = {q1}
  Storage = {b1}
  PlaceRank <- MCPlaceRank
  MaxQty <- MCMaxQty
  MaxVersion <- MCMaxVersion
  Exposed = {r1}
  Targets = {r2, b1}
  MaxMoves = 1
SYMMETRY SessionSymmetry
PROPERTY BatchHeld
CHECK_DEADLOCK FALSE
