CONSTANTS
  Batches <- MCNullable
  Layouts <- MCLayouts
  SizeModulus = 65536
SPECIFICATION Spec
INVARIANT RoundTrip
