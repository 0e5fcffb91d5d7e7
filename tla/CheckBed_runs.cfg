SPECIFICATION Spec
CONSTANTS
  r1 = r1
  r2 = r2
  Runs = {r1, r2}
  Beds = {b1, b2, b3, b4}
  b1 = b1
  b2 = b2
  b3 = b3
  b4 = b4
  t1 = t1
  t2 = t2
  t3 = t3
  t4 = t4
  t5 = t5
  t6 = t6
  k1 = k1
  k2 = k2
  k3 = k3
  None = None
  Kind <- AllKinds
  Root <- OwnRoot
  Members <- OwnMembers
  Children <- OwnChildren
  Vms = {t3, t4}
  InGuest = {k2}
  Unprobed = {k1}
  Options <- SomeOptions
INVARIANTS NoWipe PassIsTested
SYMMETRY Runners
