CONSTANTS
  Bytes = {0, 1, 2, 127}
  MaxLen = 3
SPECIFICATION Spec
PROPERTY NewValueNeverMissed
