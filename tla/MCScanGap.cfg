SPECIFICATION Spec
CONSTANTS
  A = A
  B = B
  C = C
  D = D
  t1 = t1
  t2 = t2
  t3 = t3
  red = red
  blue = blue
  Any = Any
  Stops = {A, B, C, D}
  Trips = {t1, t2, t3}
  RouteOf <- MCRouteOf
  Timetables <- MCGapped
  Infinity = 1000
  MaxDuration = 8
INVARIANT GapsAreTolerated
CHECK_DEADLOCK FALSE
