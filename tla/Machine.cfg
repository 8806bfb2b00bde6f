\* Two keys and a ring of two characters; a screen of four columns and two lines and
\* a margin; three processes, images of one or two pages, memory for about three.
SPECIFICATION Spec
CONSTANTS
  Keys = {"a", "b"}
  Ring = 3
  MaxEvents = 3
  Width = 9
  Height = 5
  GlyphWidth = 2
  GlyphHeight = 2
  Characters <- MCCharacters
  Colours = {"1", "3"}
  MaxX = 9
  MaxPid = 3
  FrameCount = 32
  Images = {1, 2}
  HeapLimit = 4
  MaxCalls = 4
INVARIANTS
  KeyboardReady
  
  
  
  SpacesWhole
  LoadedTablesStand

  
\* The bounds end every part.
CHECK_DEADLOCK FALSE
