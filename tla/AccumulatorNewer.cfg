SPECIFICATION Spec
CONSTANTS
  MaxLength = 6
  MaxCrashes = 1
  HashPlaces = {1, 4}
  Offset = 3
INVARIANT NewWitnessVerifies
