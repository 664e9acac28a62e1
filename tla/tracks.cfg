CONSTANTS
  p1 = p1
  c1 = c1
  k1 = k1
  k2 = k2
  k3 = k3
  Thread = {t1, t2}
  Producer = {p1}
  Consumer = {c1}
  Track = {k1, k2, k3}
  Kind <- MCKind
  First <- MCFirst
  Idle = Idle
  Nothing = Nothing
  Duties = {"OneCall", "OwnTrack"}
SPECIFICATION Spec
INVARIANTS
  TypeOK
  NeverDangles
  TrackFollows
  PauseLasts
CHECK_DEADLOCK FALSE
