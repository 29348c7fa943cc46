CONSTANTS
  Starts <- MCStarts
  MaxPlies = 3
SPECIFICATION Spec
INVARIANTS
  BooksAgree
  UndoRestores
  GeneratorAgrees
  MateIsSeen
  NotationIsUnique
  FenKeepsPosition
