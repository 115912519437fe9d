\* Two writers, batches, and a snapshot every four versions.
CONSTANTS
  a = a  b = b
  Writers = {a, b}
  SnapshotFrequency = 4
  MaxBatch = 2
  MaxEvents = 5
  MaxSequence = 7
SPECIFICATION Spec
SYMMETRY MCSymmetry
INVARIANTS
  StreamInOrder
  NoLostUpdate
  LoadMissesAtMostOne
