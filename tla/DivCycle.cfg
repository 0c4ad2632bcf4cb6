SPECIFICATION Spec
CONSTANTS
  Words <- MCWords
  Digits <- MCDigits
  Numerals <- MCNumerals
  Numbers <- MCNumbers
  ByteMax = 2
  IntLimit = 8
  Scripts <- MCScripts
  FileOf <- MCFileOf
  Files <- MCFiles
  Registry <- MCRegistry
INVARIANTS
  CyclicImportsRejected
CHECK_DEADLOCK FALSE
