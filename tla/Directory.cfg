\* See MCDirectory.tla for the paths.
SPECIFICATION DirSpec
CONSTANTS
  p1 = p1
  p2 = p2
  Procs = {p1, p2}
  Chars <- MCChars
  Paths <- MCPaths
  Files <- MCFiles
  NameMax = 2
SYMMETRY Symmetry
INVARIANTS
  NamesInOrder
  ReturnsTheTruth
  SomeoneGetsThrough
