SPECIFICATION Spec
CONSTANTS
  Counts = {10, 30}
  Nil = Nil
INVARIANT NoIndexOutOfBounds
