\* Conditions whose differences fit an int and some that do not, and load files with and without commas.
SPECIFICATION Spec
CONSTANTS
  Tables = {t1}
  NoTable = NoTable
  NoRecord = NoRecord
  MaxInt = 3
  Keys <- MCKeys
  Values <- MCValues
  Cut <- MCCut
  LoadFiles <- MCFiles
  Queries <- MCQueries
  Garbled <- MCGarbled
  MaxRows = 4
INVARIANTS
  TypeOK
  SelectAnswers
  LoadAdds
CHECK_DEADLOCK FALSE
