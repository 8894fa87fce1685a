SPECIFICATION HandlesSpec
CONSTANTS
  Quvis = {q1, q2}
  Results = {r1}
  Uses = {"media"}
  Losing = {}
  NumLists = 6
  MaxEntries = 1
  MaxGoto = 0
  MaxLost = 0
INVARIANT SessionsAreInitialised
