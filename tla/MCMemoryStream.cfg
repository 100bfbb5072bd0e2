CONSTANTS
  UlongMax = 5
  Zero = Zero
  Byte = {Zero, b1}
  Junk = Junk
  Lengths = {0, 1, 2}
  AllowGap = FALSE
SPECIFICATION Spec
PROPERTY Implements
