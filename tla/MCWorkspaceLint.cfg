CONSTANTS
  Texts <- MCTexts
  Valid = {"valid"}
SPECIFICATION Spec
INVARIANT CleanMeansNothingLost
