SPECIFICATION Spec
CONSTANTS
  x = x
  y = y
  Chars = {x, y}
  Keys <- MCKeys
  cmdMAX_INPUT_SIZE = 4
  MaxLine = 3
VIEW MCView
SYMMETRY MCSymmetry
INVARIANTS
  TypeOK
  LineWellFormed
  ScreenShowsLine
PROPERTIES
  ImplementsEditor
