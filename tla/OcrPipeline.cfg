CONSTANTS
  Extractions = {e1, e2}
  NoExtraction = NoExtraction
  Submitters = {e1}
  MaxOcrFaults = 1
SPECIFICATION OcrFairSpec
INVARIANTS
  FailureIsFinal
  EndedJobIsSettled
  EvidenceRowKept
  DeletedLeavesNoFile
PROPERTIES
  EveryUploadSettles
  StaleArtifactsGo
CHECK_DEADLOCK FALSE
