CONSTANTS
  Update = {u1, u2}
  Layers = 2
  Bits = 4
  Nil = Nil
  None = None
  Edit <- MCPreference
  Initially = "balanced"
  Rule = {"LimitAlone"}
SPECIFICATION Spec
PROPERTY
  OneEditAtATime
