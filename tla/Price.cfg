\* Two runs over one stock and the index, imports with and without a close price.
SPECIFICATION Spec
CONSTANTS
  r1 = r1
  r2 = r2
  BBCA = BBCA
  Runs = {r1, r2}
  Symbols = {BBCA}
  Index = IHSG
  Imported = {0, 1}
  MaxQuote = 3
  Null = Null
SYMMETRY RunSymmetry
INVARIANTS FreshAtEnd
PROPERTIES OptionalKept
