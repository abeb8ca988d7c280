CONSTANTS
  Batches <- MCBatches
  Layouts <- MCLayouts
  SizeModulus = 256
SPECIFICATION Spec
INVARIANTS ParsesWhatWasAppended MessagesInOrder RoundTrip
  ReadsWholePayload
