\* Four keys which collide in every way, before and after a rehash.
CONSTANTS
  Key = {k1, k2, k3, k4}
  Val = {u, v}
  Nil = Nil
  InSet = InSet
  Hash = {0, 3, 7}
  Width = 5
  InitCap = 4
  MaxCap = 8
SPECIFICATION Spec
INVARIANTS ProbesReachAll RoomLeft
PROPERTY IsMap
