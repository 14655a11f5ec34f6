SPECIFICATION Spec
CONSTANTS
  MaxBoxes = 1
  MaxTexts = 1
  MaxAttempts = 2
  Batches = {}
  Commands = {}
INVARIANT BoxesSearchable
