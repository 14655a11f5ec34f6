SPECIFICATION Spec
CONSTANTS
  MaxBoxes = 2
  MaxTexts = 2
  MaxAttempts = 1
  b1 = b1
  b2 = b2
  Batches = {b1, b2}
  Commands = {"rescrape", "reclassify", "extract", "reextract", "rejudge"}
INVARIANTS
  TypeOK
  OneExtraction
  VectorOfItsText
  DoneIsComplete
  VerdictWasDue
PROPERTIES
  FirstVerdictStays
SYMMETRY Symmetry
