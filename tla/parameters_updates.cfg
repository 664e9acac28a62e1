CONSTANTS
  Update = {u1, u2}
  Layers = 2
  Bits = 4
  Nil = Nil
  None = None
  Edit <- MCEdits
  Initially = "balanced"
  Rule = {"LimitAlone"}
SPECIFICATION Spec
INVARIANTS
  TypeOK
  
PROPERTIES
  OneEditAtATime
  UndisturbedTakesEffect
CHECK_DEADLOCK FALSE
