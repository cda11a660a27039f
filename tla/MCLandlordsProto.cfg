\* Two elements: order, an element that is merged twice, both repeated fields.
CONSTANTS
  Values <- WireValues
  MaxItems = 2
SPECIFICATION Spec
INVARIANTS
  UnsetIsDefault
  RoundTrip
  SizeIsWritten
  CopiesEqual
