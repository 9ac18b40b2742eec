SPECIFICATION Spec
CONSTANTS
  Programs <- MCQueriesInRows
  FrontEnd <- MCFrontEndRows
  Letters <- MCLetters
PROPERTY RunsAsWritten
