SPECIFICATION SessionSpec
CONSTANTS
  Files <- SmallFiles
INVARIANTS
  NextCallBeginsAtZero
  SniffForetells
  HeaderIsOfTheFile
