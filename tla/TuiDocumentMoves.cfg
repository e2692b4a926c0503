SPECIFICATION Spec
CONSTANTS
  w = w
  h1 = h1
  Words = {w}
  Headers = {h1, h2}
  Fence = Fence
  Texts <- MCTexts
  Capacity = 2
  MaxLines = 3
  MaxEdits = 3
PROPERTY MovesKeepText
CHECK_DEADLOCK FALSE
