SPECIFICATION AggregateFairSpec
CONSTANTS
  Savers = {e1, e2, e3}
  Readers = {q1}
  None = None
INVARIANTS
  AggregateTypeOK
  StoredIsWhole
  ExtractedIsReadable
PROPERTIES
  SavesAreAtomic
  SavesEnd
