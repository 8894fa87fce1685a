SPECIFICATION HandlesSpec
CONSTANTS
  Quvis = {q1, q2}
  Results = {r1, r2}
  Uses <- Kinds
  Losing = {"crypto"}
  NumLists = 1
  MaxEntries = 1
  MaxGoto = 1
  MaxLost = 1
SYMMETRY Symmetry
INVARIANTS
  HandlesTypeOK
  HeapIsHeld
  NothingStray
  GlobalsAreCounted
PROPERTY HandlesAreOwned
