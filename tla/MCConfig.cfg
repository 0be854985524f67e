SPECIFICATION Spec
CONSTANTS
  Fields = {auto_start, ca_port}
  Values = {"first", "second"}
  MaxEdits = 2
INVARIANT ConfigIsWhole
PROPERTY OverridesHold
