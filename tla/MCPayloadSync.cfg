SPECIFICATION Spec
CONSTANTS
  NoDefinition = NoDefinition
  NoDocument = NoDocument
  MaxVersion = 2
  Definitions = {d1,d2}
  Syncs = {s1, s2}
  MaxUpdates = 2
  MaxLate = 1
INVARIANTS SyncTypeOK PublishedAsSaved MetadataTrue
SYMMETRY MCSymmetry
