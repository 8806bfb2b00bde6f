SPECIFICATION Spec
CONSTANTS
  IntMax = 127
  LongMax = 511
  Numbers <- MCNumbers
  Arguments <- MCArguments
  Pieces <- MCPieces
  MaxPieces = 3
  Braces <- MCBraces
  Words <- MCWords
  Memories <- MCMemories
  StaticSize = 9
  Archives <- MCArchives
  BlockSize = 2
  Queries <- MCQueries
  PageWords = 10
  HeaderWords = 3
  SlackWords = 2
  LimitPages = 3
  AreaSizes = {0, 1, 8}
  FirstWords = {0, 1}
  MaxAreas = 3
  Vecs = {v, w}
  Objects = {x, y}
  MaxCount = 3
SYMMETRY MCSymmetry
INVARIANTS
  UserAreasKept
  
  
  TextsAgree
  CopiesArrive
  
CHECK_DEADLOCK FALSE
