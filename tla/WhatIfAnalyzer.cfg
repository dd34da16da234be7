SPECIFICATION Spec
CONSTANTS
  Analyzers = {a1, a2}
  Types = {"cluster", "role"}
  FilteredTypes = {"role"}
  Subjects <- MCSubjects
  Patterns <- MCPatterns
  Hits <- MCHits
  PatternFiles <- MCPatternFiles
  Unparsable = Unparsable
  WhatIfResults <- MCWhatIfResults
  Days = 1
  MaxMishaps = 1
  MaxEdits = 2
INVARIANTS
  TypeOK
  HistoryIsTrue
  TextTellsAll
  VerdictsAgree
  HistoryIsKept
PROPERTY
  WarningsAreRight

SYMMETRY Alike
