SPECIFICATION Spec
CONSTANTS
  Programs <- MCPrograms
  FrontEnd <- MCFrontEnd
  Letters <- MCLetters
INVARIANTS HeightsAgree
PROPERTIES RunsAsWritten NeverGoesWrong EveryProgramEnds
