CONSTANTS
  Texts <- MCTexts
  Valid = {"valid"}
SPECIFICATION Spec
INVARIANTS
  CleanMeansKept
  RefusedMeansUnchanged
  
